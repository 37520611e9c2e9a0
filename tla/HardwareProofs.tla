--------------------------- MODULE HardwareProofs ---------------------------
(***************************************************************************)
(* What power cuts and pulled cards may not do to files and their rows,    *)
(* and lost headphones and failed starts to the volume.                    *)
(*                                                                         *)
(* Quarantine: a directory marked INCOMPLETE and the live place hold the   *)
(* two parts of one damaged set, never the same file twice; without such a *)
(* directory the live place holds one set; every other directory is empty  *)
(* or holds a whole damaged set.  From this a recovery never meets two     *)
(* copies of a file, and no set is opened beside another's sidecars.       *)
(*                                                                         *)
(* LibraryScan: time only grows, so an entry the scanner took is as old as *)
(* the last change of its file or older; a file missing from the rows when *)
(* the scan ends well was away, or was unreadable, at some time since its  *)
(* row was last written.                                                   *)
(*                                                                         *)
(* Volume: the jack's own volume is put aside exactly as long as headphones*)
(* hold one of theirs, whatever start is put back meanwhile; and a stream  *)
(* is no louder than its volume says when that volume is its own.          *)
(*                                                                         *)
(* Buttons: what waits for a button, in the events, among the records read *)
(* and in its device, is one stream: the presses come in turn, each goes   *)
(* on there or is down, and none is there that is over.  The router knows  *)
(* of a button exactly what the presses still to end told it; a press that *)
(* is over gave what it may give, and one that lost a record is to be      *)
(* cancelled or was held.                                                  *)
(***************************************************************************)
EXTENDS Quarantine, LibraryScan, Volume, Buttons, FiniteSetTheorems, SequenceTheorems, TLAPS

Directory == [exists : BOOLEAN, marker : BOOLEAN, holds : [Steps -> 0..made]]
StartStages == {"down", "recover", "conflict", "refused", "open", "up", "mkdir", "mark", "move", "rollback"}
Positions == [pc : StartStages, dir : Dirs \cup {0}, step : 0..5]
QuarantineTyped ==
  /\ made \in Nat \ {0} /\ damaged \subseteq 1..made
  /\ place \in [Steps -> 0..made] /\ archive \in [Dirs -> Directory]
  /\ at \in Positions

Marked(d) == archive[d].exists /\ archive[d].marker
NoneCut == \A d \in Dirs : ~Marked(d)
OneCut ==
  /\ \A d, e \in Dirs : Marked(d) /\ Marked(e) => d = e
  /\ \A d \in Dirs : archive[d].marker => archive[d].exists

(* The set of which directory d and the live place hold the parts. *)
CutSet(d) == IF archive[d].holds[1] # 0 THEN archive[d].holds[1] ELSE place[1]
Split(d) ==
  /\ CutSet(d) \in damaged
  /\ \A i \in Steps :
       /\ archive[d].holds[i] \in {0, CutSet(d)} /\ place[i] \in {0, CutSet(d)}
       /\ archive[d].holds[i] = 0 \/ place[i] = 0
CutsAreSplit == \A d \in Dirs : Marked(d) => Split(d)
LiveIsOne == NoneCut => \A i \in Steps : place[i] \in {0, place[1]}

Empty(d) == \A i \in Steps : archive[d].holds[i] = 0
Sealed(d) ==
  /\ archive[d].exists /\ archive[d].holds[1] \in damaged
  /\ \A i \in Steps : archive[d].holds[i] \in {0, archive[d].holds[1]}
SealedAreWhole == \A d \in Dirs : ~Marked(d) => Empty(d) \/ Sealed(d)

(* What each stage of a start relies on. *)
OpensUncut == at.pc \in {"open", "up", "mkdir", "mark"} => NoneCut
Sets == at.pc \in {"mkdir", "mark"} => place[1] \in damaged
Marks == at.pc = "mark" => at.dir # 0 /\ Empty(at.dir) /\ archive[at.dir].exists
Moves ==
  at.pc = "move" =>
    /\ at.dir # 0 /\ Marked(at.dir) /\ at.step \in 1..4
    /\ \A i \in Steps : IF i < at.step THEN place[i] = 0 ELSE archive[at.dir].holds[i] = 0
RollsBack == at.pc = "rollback" => at.dir # 0 /\ Marked(at.dir) /\ at.step \in 0..3
Restores ==
  at.pc = "recover" /\ at.dir # 0 =>
    /\ at.step \in 1..5 /\ (at.step # 5 => Marked(at.dir)) /\ (at.step = 5 => NoneCut)
    /\ \A i \in Steps : i < at.step => archive[at.dir].holds[i] = 0
StageInv == NeverConflicts /\ OpensUncut /\ Sets /\ Marks /\ Moves /\ RollsBack /\ Restores

QuarantineInv ==
  QuarantineTyped /\ OneCut /\ CutsAreSplit /\ LiveIsOne /\ SealedAreWhole /\ StageInv /\ NothingLost

-----------------------------------------------------------------------------
LEMMA ThreeFiles == Steps = {1, 2, 3} /\ Len(Artifacts) = 3
BY DEF Steps, Artifacts

(* A directory into which, or out of which, one file is moved. *)
Holding(d, k, set) == archive' = [archive EXCEPT ![d].holds[k] = set]
LEMMA Held ==
  ASSUME QuarantineTyped, NEW d \in Dirs, NEW k \in Steps, NEW set \in 0..made, Holding(d, k, set)
  PROVE  /\ archive' \in [Dirs -> Directory]
         /\ \A e \in Dirs : archive'[e].exists = archive[e].exists /\ archive'[e].marker = archive[e].marker
         /\ \A e \in Dirs : e # d => archive'[e] = archive[e]
         /\ \A i \in Steps : archive'[d].holds[i] = IF i = k THEN set ELSE archive[d].holds[i]
<1> DEFINE h == [archive[d].holds EXCEPT ![k] = set]
           r == [archive[d] EXCEPT !.holds = h]
<1>1. archive[d] \in Directory
  BY DEF QuarantineTyped
<1>2. h \in [Steps -> 0..made] /\ \A i \in Steps : h[i] = IF i = k THEN set ELSE archive[d].holds[i]
  BY <1>1 DEF Directory
<1>3. archive' = [archive EXCEPT ![d] = r]
  BY DEF Holding
<1> HIDE DEF h
<1>4. /\ r \in Directory /\ r.holds = h
      /\ r.exists = archive[d].exists /\ r.marker = archive[d].marker
  BY <1>1, <1>2 DEF Directory
<1> HIDE DEF r
<1>5. QED
  BY <1>2, <1>3, <1>4 DEF QuarantineTyped

(* A directory that goes, is made, or whose marker is set or cleared. *)
Gone(d) == archive' = [archive EXCEPT ![d] = NoDir]
LEMMA Removed ==
  ASSUME QuarantineTyped, NEW d \in Dirs, Gone(d)
  PROVE  /\ archive' \in [Dirs -> Directory]
         /\ ~archive'[d].exists /\ ~archive'[d].marker /\ \A i \in Steps : archive'[d].holds[i] = 0
         /\ \A e \in Dirs : e # d => archive'[e] = archive[e]
<1>1. /\ NoDir \in Directory /\ ~NoDir.exists /\ ~NoDir.marker
      /\ \A i \in Steps : NoDir.holds[i] = 0
  BY DEF NoDir, Directory, QuarantineTyped
<1>2. QED
  BY <1>1 DEF Gone, QuarantineTyped

Labels(d, exists, marker) ==
  archive' = [archive EXCEPT ![d] = [exists |-> exists, marker |-> marker, holds |-> archive[d].holds]]
LEMMA Labelled ==
  ASSUME QuarantineTyped, NEW d \in Dirs, NEW exists \in BOOLEAN, NEW marker \in BOOLEAN,
         Labels(d, exists, marker)
  PROVE  /\ archive' \in [Dirs -> Directory]
         /\ archive'[d].exists = exists /\ archive'[d].marker = marker
         /\ archive'[d].holds = archive[d].holds
         /\ \A e \in Dirs : e # d => archive'[e] = archive[e]
<1> DEFINE r == [exists |-> exists, marker |-> marker, holds |-> archive[d].holds]
<1>1. r \in Directory /\ r.exists = exists /\ r.marker = marker /\ r.holds = archive[d].holds
  BY DEF Directory, QuarantineTyped
<1> HIDE DEF r
<1>2. archive' = [archive EXCEPT ![d] = r]
  BY DEF Labels, r
<1>3. QED
  BY <1>1, <1>2 DEF QuarantineTyped
LEMMA Relabels ==
  ASSUME QuarantineTyped, NEW d \in Dirs, NEW b \in BOOLEAN
  PROVE  /\ [archive EXCEPT ![d].exists = b]
              = [archive EXCEPT ![d] = [exists |-> b, marker |-> archive[d].marker, holds |-> archive[d].holds]]
         /\ [archive EXCEPT ![d].marker = b]
              = [archive EXCEPT ![d] = [exists |-> archive[d].exists, marker |-> b, holds |-> archive[d].holds]]
<1>1. /\ [archive EXCEPT ![d].exists = b] = [archive EXCEPT ![d] = [archive[d] EXCEPT !.exists = b]]
      /\ [archive EXCEPT ![d].marker = b] = [archive EXCEPT ![d] = [archive[d] EXCEPT !.marker = b]]
  OBVIOUS
<1>2. /\ [archive[d] EXCEPT !.exists = b]
           = [exists |-> b, marker |-> archive[d].marker, holds |-> archive[d].holds]
      /\ [archive[d] EXCEPT !.marker = b]
           = [exists |-> archive[d].exists, marker |-> b, holds |-> archive[d].holds]
  BY DEF QuarantineTyped, Directory
<1>3. QED
  BY <1>1, <1>2

(* The steps that move no file, and leave every directory as it is. *)
LEMMA FilesStay ==
  ASSUME QuarantineInv, UNCHANGED <<place, archive, damaged, made>>,
         at' \in Positions, StageInv'
  PROVE  QuarantineInv'
<1>1. QuarantineTyped'
  BY DEF QuarantineInv, QuarantineTyped, Directory, Positions
<1>2. (OneCut /\ CutsAreSplit /\ LiveIsOne /\ SealedAreWhole /\ NothingLost)'
  BY DEF QuarantineInv, OneCut, CutsAreSplit, Split, CutSet, Marked, NoneCut, LiveIsOne, SealedAreWhole,
         Empty, Sealed, NothingLost
<1>3. QED
  BY <1>1, <1>2 DEF QuarantineInv

(* A stage that relies on nothing. *)
LEMMA Leaves ==
  ASSUME NEW pc \in {"down", "refused", "recover"}, NEW k \in 0..5, Goes(pc, 0, k)
  PROVE  StageInv' /\ at' \in Positions
BY DEF Goes, Positions, StartStages, StageInv, NeverConflicts, OpensUncut, Sets, Marks, Moves, RollsBack, Restores

LEMMA RefusalsKeepIt ==
  ASSUME QuarantineInv, Refused, Keeps
  PROVE  QuarantineInv'
<1>1. StageInv' /\ at' \in Positions
  BY Leaves DEF Refused
<1>2. QED
  BY <1>1, FilesStay DEF Refused, Keeps

-----------------------------------------------------------------------------
(* recover_interrupted_quarantines. *)

LEMMA StartKeepsIt == ASSUME QuarantineInv, Start PROVE QuarantineInv'
<1>1. StageInv' /\ at' \in Positions
  BY Leaves DEF Start
<1>2. QED
  BY <1>1, FilesStay DEF Start

LEMMA NextDirectoryKeepsIt == ASSUME QuarantineInv, NextDirectory PROVE QuarantineInv'
<1>1. CASE Interrupted = {} /\ Goes("open", 0, 1)
  <2>1. NoneCut'
    BY <1>1 DEF Interrupted, NoneCut, Marked, NextDirectory
  <2>2. StageInv' /\ at' \in Positions
    BY <1>1, <2>1 DEF Positions, StartStages, Goes, StageInv, NeverConflicts, OpensUncut, Sets, Marks, Moves, RollsBack, Restores
  <2>3. QED
    BY <1>1, <2>2, FilesStay DEF NextDirectory, Keeps
<1>2. CASE \E d \in Interrupted : Goes("recover", d, 1)
  <2>1. PICK d \in Interrupted : Goes("recover", d, 1)
    BY <1>2
  <2>2. d \in Dirs /\ Marked(d)'
    BY DEF Interrupted, Marked, NextDirectory
  <2>3. StageInv' /\ at' \in Positions
    BY <2>1, <2>2, ThreeFiles DEF Positions, StartStages, Goes, StageInv, NeverConflicts, OpensUncut, Sets, Marks, Moves, RollsBack, Restores
  <2>4. QED
    BY <2>1, <2>2, <2>3, FilesStay DEF NextDirectory, Keeps
<1>3. QED
  BY <1>1, <1>2 DEF NextDirectory

(* A file goes back from a marked directory to its place, where there is none. *)
LEMMA FileReturns ==
  ASSUME QuarantineInv, NEW d \in Dirs, NEW k \in Steps, NEW set \in 0..made, set = archive[d].holds[k], Marked(d),
         place' = IF set # 0 THEN [place EXCEPT ![k] = set] ELSE place,
         Holding(d, k, 0), UNCHANGED <<damaged, made>>, at' \in Positions
  PROVE  /\ (QuarantineTyped /\ OneCut /\ CutsAreSplit /\ LiveIsOne /\ SealedAreWhole /\ NothingLost)'
         /\ Marked(d)' /\ ~NoneCut'
         /\ \A i \in Steps : archive'[d].holds[i] = IF i = k THEN 0 ELSE archive[d].holds[i]
<1>1. QuarantineTyped /\ Split(d)
  BY DEF QuarantineInv, CutsAreSplit
<1>2. /\ archive' \in [Dirs -> Directory]
      /\ \A e \in Dirs : archive'[e].exists = archive[e].exists /\ archive'[e].marker = archive[e].marker
      /\ \A e \in Dirs : e # d => archive'[e] = archive[e]
      /\ \A i \in Steps : archive'[d].holds[i] = IF i = k THEN 0 ELSE archive[d].holds[i]
  BY <1>1, Held DEF QuarantineTyped
<1>3. /\ place' \in [Steps -> 0..made]
      /\ \A i \in Steps : place'[i] = IF i = k /\ set # 0 THEN set ELSE place[i]
  BY <1>1 DEF QuarantineTyped
<1>4. QuarantineTyped'
  BY <1>1, <1>2, <1>3 DEF QuarantineTyped, Directory
<1>5. (\A e \in Dirs : Marked(e)' <=> Marked(e)) /\ Marked(d)' /\ ~NoneCut'
  BY <1>2 DEF Marked, NoneCut
<1>6. OneCut' /\ LiveIsOne'
  BY <1>2, <1>5 DEF QuarantineInv, OneCut, LiveIsOne
<1>7. CutSet(d)' = CutSet(d)
  BY <1>1, <1>2, <1>3, ThreeFiles DEF CutSet, Split
<1>8. Split(d)'
  BY <1>1, <1>2, <1>3, <1>7 DEF Split
<1>9. CutsAreSplit'
  BY <1>5, <1>8 DEF CutsAreSplit, QuarantineInv, OneCut
<1>10. SealedAreWhole'
  BY <1>2, <1>5 DEF SealedAreWhole, Empty, Sealed, QuarantineInv
<1>11. NothingLost'
  BY <1>1, <1>2, <1>3, ThreeFiles DEF NothingLost, QuarantineInv, Split
<1>12. QED
  BY <1>2, <1>4, <1>5, <1>6, <1>9, <1>10, <1>11

(* A marked directory and the live place never both have a file: nothing conflicts. *)
LEMMA MovesBackKeepsIt == ASSUME QuarantineInv, MovesBack PROVE QuarantineInv'
<1>1. PICK d \in Dirs, k \in Steps : d = at.dir /\ k = at.step /\ at.pc = "recover" /\ k \in 1..3 /\ d # 0
  BY ThreeFiles DEF MovesBack, QuarantineInv, QuarantineTyped, Positions
<1>2. PICK set \in 0..made : set = archive[d].holds[k]
  BY DEF QuarantineInv, QuarantineTyped, Directory
<1>3. Marked(d) /\ Split(d) /\ \A i \in Steps : i < k => archive[d].holds[i] = 0
  BY <1>1 DEF QuarantineInv, StageInv, Restores, CutsAreSplit
<1>4. ~Conflicts
  BY <1>1, <1>3 DEF Conflicts, Split
<1>5. CASE Refused
  BY <1>5, RefusalsKeepIt DEF MovesBack
<1>6. CASE /\ place' = IF set # 0 THEN [place EXCEPT ![k] = set] ELSE place
           /\ Holding(d, k, 0) /\ Goes("recover", d, k + 1)
  <2>1. at' \in Positions
    BY <1>1, <1>6 DEF Goes, Positions, StartStages
  <2>2. UNCHANGED <<damaged, made>>
    BY DEF MovesBack, Keeps
  <2>3. /\ (QuarantineTyped /\ OneCut /\ CutsAreSplit /\ LiveIsOne /\ SealedAreWhole /\ NothingLost)'
        /\ Marked(d)' /\ ~NoneCut'
        /\ \A i \in Steps : archive'[d].holds[i] = IF i = k THEN 0 ELSE archive[d].holds[i]
    BY <1>2, <1>3, <1>6, <2>1, <2>2, FileReturns
  <2>4. StageInv'
    BY <1>1, <1>3, <1>6, <2>3, ThreeFiles
       DEF Goes, StageInv, NeverConflicts, OpensUncut, Sets, Marks, Moves, RollsBack, Restores
  <2>5. QED
    BY <2>3, <2>4 DEF QuarantineInv
<1>7. QED
  BY <1>1, <1>2, <1>4, <1>5, <1>6 DEF MovesBack, Holding

(* With every file back the marker goes: what is live is one set again. *)
LEMMA MarkerClearedKeepsIt == ASSUME QuarantineInv, MarkerCleared PROVE QuarantineInv'
<1>1. PICK d \in Dirs : d = at.dir /\ at.pc = "recover" /\ at.step = 4 /\ d # 0
  BY ThreeFiles DEF MarkerCleared, QuarantineInv, QuarantineTyped, Positions
<1>2. QuarantineTyped /\ Marked(d) /\ Split(d) /\ Empty(d)
  BY <1>1, ThreeFiles DEF QuarantineInv, StageInv, Restores, CutsAreSplit, Empty
<1>3. CASE Refused
  BY <1>3, RefusalsKeepIt DEF MarkerCleared
<1>4. CASE /\ archive' = [archive EXCEPT ![d].marker = FALSE] /\ Goes("recover", d, 5) /\ UNCHANGED place
  <2>1. Labels(d, archive[d].exists, FALSE) /\ archive[d].exists \in BOOLEAN
    BY <1>2, <1>4, Relabels DEF Labels, QuarantineTyped, Directory
  <2>2. /\ archive' \in [Dirs -> Directory] /\ archive'[d].exists = archive[d].exists /\ ~archive'[d].marker
        /\ archive'[d].holds = archive[d].holds /\ \A e \in Dirs : e # d => archive'[e] = archive[e]
    BY <1>2, <2>1, Labelled
  <2>3. UNCHANGED <<place, damaged, made>>
    BY <1>4 DEF MarkerCleared, Keeps
  <2>p. at' \in Positions
    BY <1>1, <1>4 DEF Positions, Goes, StartStages
  <2>4. QuarantineTyped'
    BY <1>2, <2>2, <2>3, <2>p DEF QuarantineTyped, Directory
  <2>5. (\A e \in Dirs : e # d => ~Marked(e)) /\ NoneCut'
    BY <1>2, <2>2 DEF QuarantineInv, OneCut, Marked, NoneCut
  <2>6. LiveIsOne'
    BY <1>2, <2>3, ThreeFiles DEF Split, CutSet, LiveIsOne, Empty
  <2>7. SealedAreWhole'
    BY <1>2, <2>2, <2>3, <2>5 DEF SealedAreWhole, Empty, Sealed, QuarantineInv
  <2>8. NothingLost'
    BY <2>2, <2>3 DEF NothingLost, QuarantineInv
  <2>9. StageInv'
    BY <1>1, <1>2, <1>4, <2>2, <2>5 DEF Goes, Empty, StageInv, NeverConflicts, OpensUncut, Sets, Marks, Moves, RollsBack, Restores
  <2>10. QED
    BY <2>2, <2>4, <2>5, <2>6, <2>7, <2>8, <2>9 DEF QuarantineInv, OneCut, CutsAreSplit, NoneCut
<1>5. QED
  BY <1>1, <1>3, <1>4, ThreeFiles DEF MarkerCleared

LEMMA DirectoryRemovedKeepsIt == ASSUME QuarantineInv, DirectoryRemoved PROVE QuarantineInv'
<1>1. PICK d \in Dirs : d = at.dir /\ at.pc = "recover" /\ at.step = 5 /\ d # 0
  BY ThreeFiles DEF DirectoryRemoved, QuarantineInv, QuarantineTyped, Positions
<1>2. QuarantineTyped /\ NoneCut /\ Empty(d)
  BY <1>1, ThreeFiles DEF QuarantineInv, StageInv, Restores, Empty
<1>3. CASE Refused
  BY <1>3, RefusalsKeepIt DEF DirectoryRemoved
<1>4. CASE Gone(d) /\ Goes("recover", 0, 1) /\ UNCHANGED place
  <2>1. /\ archive' \in [Dirs -> Directory] /\ ~archive'[d].exists /\ ~archive'[d].marker
        /\ (\A i \in Steps : archive'[d].holds[i] = 0) /\ \A e \in Dirs : e # d => archive'[e] = archive[e]
    BY <1>2, <1>4, Removed
  <2>2. UNCHANGED <<place, damaged, made>>
    BY <1>4 DEF DirectoryRemoved, Keeps
  <2>3. StageInv' /\ at' \in Positions
    BY <1>4, Leaves
  <2>4. QuarantineTyped'
    BY <1>2, <2>1, <2>2, <2>3 DEF QuarantineTyped, Directory
  <2>5. NoneCut'
    BY <1>2, <2>1 DEF Marked, NoneCut
  <2>6. LiveIsOne'
    BY <1>2, <2>2 DEF LiveIsOne, QuarantineInv
  <2>7. SealedAreWhole'
    BY <1>2, <2>1, <2>2 DEF SealedAreWhole, Empty, Sealed, QuarantineInv, NoneCut
  <2>8. NothingLost'
    BY <1>2, <2>1, <2>2, ThreeFiles DEF NothingLost, QuarantineInv, Empty
  <2>9. OneCut'
    BY <2>1, <2>5 DEF QuarantineInv, OneCut, NoneCut
  <2>10. QED
    BY <2>3, <2>4, <2>5, <2>6, <2>7, <2>8, <2>9 DEF QuarantineInv, CutsAreSplit, NoneCut
<1>5. QED
  BY <1>1, <1>3, <1>4, ThreeFiles DEF DirectoryRemoved, Gone

-----------------------------------------------------------------------------
(* Nothing interrupted: the live place holds one set, or nothing. *)
LEMMA OpenKeepsIt == ASSUME QuarantineInv, Open PROVE QuarantineInv'
<1>1. QuarantineTyped /\ NoneCut /\ at.pc = "open" /\ \A i \in Steps : place[i] \in {0, place[1]}
  BY DEF Open, QuarantineInv, StageInv, OpensUncut, LiveIsOne
<1>2. CASE Refused /\ UNCHANGED <<damaged, made>>
  BY <1>2, RefusalsKeepIt DEF Open, Keeps
<1>3. ASSUME UNCHANGED archive, damaged \subseteq damaged', damaged' \subseteq 1..made', made' \in Nat \ {0},
             made <= made', place' \in [Steps -> 0..made'], \A i \in Steps : place'[i] \in {0, place'[1]},
             place[1] # 0 => place'[1] = place[1],
             \A s \in 1..made' : s \in 1..made \/ s = place'[1],
             StageInv', at' \in Positions
      PROVE  QuarantineInv'
  <2>1. QuarantineTyped'
    BY <1>1, <1>3 DEF QuarantineTyped, Directory
  <2>2. NoneCut'
    BY <1>1, <1>3 DEF NoneCut, Marked
  <2>3. SealedAreWhole'
    BY <1>3 DEF SealedAreWhole, Empty, Sealed, QuarantineInv, Marked
  <2>4. NothingLost'
    BY <1>1, <1>3, ThreeFiles DEF NothingLost, QuarantineInv
  <2>5. QED
    BY <1>3, <2>1, <2>2, <2>3, <2>4 DEF QuarantineInv, OneCut, CutsAreSplit, NoneCut, LiveIsOne
<1>4. CASE /\ place[1] # 0 /\ Goes("up", 0, 0) /\ UNCHANGED <<archive, damaged, made>>
           /\ place' = [i \in Steps |-> IF place[i] = 0 THEN place[1] ELSE place[i]]
  <2>1. place' \in [Steps -> 0..made] /\ place'[1] = place[1] /\ \A i \in Steps : place'[i] = place[1]
    BY <1>1, <1>4, ThreeFiles DEF QuarantineTyped
  <2>2. NoneCut'
    BY <1>1, <1>4 DEF NoneCut, Marked
  <2>3. StageInv' /\ at' \in Positions
    BY <1>4, <2>2 DEF Goes, Positions, StartStages, StageInv, NeverConflicts, OpensUncut, Sets, Marks, Moves, RollsBack, Restores
  <2>4. QED
    BY <1>1, <1>3, <1>4, <2>1, <2>3 DEF QuarantineTyped
<1>5. CASE place[1] # 0 /\ damaged' = damaged \cup {place[1]} /\ Goes("mkdir", 0, 0) /\ UNCHANGED <<place, archive, made>>
  <2>1. NoneCut'
    BY <1>1, <1>5 DEF NoneCut, Marked
  <2>2. StageInv' /\ at' \in Positions
    BY <1>5, <2>1 DEF Goes, Positions, StartStages, StageInv, NeverConflicts, OpensUncut, Sets, Marks, Moves, RollsBack, Restores
  <2>3. /\ place[1] \in 1..made /\ made \in Nat \ {0} /\ damaged \subseteq 1..made
        /\ place \in [Steps -> 0..made]
    BY <1>1, <1>5, ThreeFiles DEF QuarantineTyped
  <2>4. damaged \subseteq damaged' /\ damaged' \subseteq 1..made'
    BY <1>5, <2>3
  <2>5. UNCHANGED <<place, archive, made>>
    BY <1>5
  <2>6. QED
    BY <1>1, <1>3, <2>2, <2>3, <2>4, <2>5
<1>6. CASE /\ place[1] = 0 /\ made' = made + 1 /\ Goes("up", 0, 0) /\ UNCHANGED <<archive, damaged>>
           /\ place' = [i \in Steps |-> IF place[i] = 0 THEN made' ELSE place[i]]
  <2>1. made \in Nat \ {0} /\ made' \in Nat \ {0} /\ damaged' \subseteq 1..made'
    BY <1>1, <1>6 DEF QuarantineTyped
  <2>2. place' \in [Steps -> 0..made'] /\ \A i \in Steps : place'[i] = made'
    BY <1>1, <1>6, <2>1, ThreeFiles
  <2>3. NoneCut'
    BY <1>1, <1>6 DEF NoneCut, Marked
  <2>4. StageInv' /\ at' \in Positions
    BY <1>6, <2>3 DEF Goes, Positions, StartStages, StageInv, NeverConflicts, OpensUncut, Sets, Marks, Moves, RollsBack, Restores
  <2>5. QED
    BY <1>3, <1>6, <2>1, <2>2, <2>4, ThreeFiles
<1>7. QED
  BY <1>2, <1>4, <1>5, <1>6 DEF Open

-----------------------------------------------------------------------------
(* quarantine_database. *)

LEMMA MakeDirectoryKeepsIt == ASSUME QuarantineInv, MakeDirectory PROVE QuarantineInv'
<1>1. QuarantineTyped /\ NoneCut /\ place[1] \in damaged
  BY DEF MakeDirectory, QuarantineInv, StageInv, OpensUncut, Sets
<1>2. CASE Refused
  BY <1>2, RefusalsKeepIt DEF MakeDirectory
<1>3. ASSUME NEW d \in Dirs, ~archive[d].exists, archive' = [archive EXCEPT ![d].exists = TRUE],
             Goes("mark", d, 0), UNCHANGED place
      PROVE  QuarantineInv'
  <2>1. archive[d].marker \in BOOLEAN /\ Labels(d, TRUE, archive[d].marker)
    BY <1>1, <1>3, Relabels DEF Labels, QuarantineTyped, Directory
  <2>2. ~Marked(d) /\ Empty(d)
    BY <1>1, <1>3 DEF NoneCut, QuarantineInv, SealedAreWhole, Sealed
  <2>3. /\ archive' \in [Dirs -> Directory] /\ archive'[d].exists /\ archive'[d].marker = archive[d].marker
        /\ archive'[d].holds = archive[d].holds /\ \A e \in Dirs : e # d => archive'[e] = archive[e]
    BY <1>1, <2>1, Labelled
  <2>4. ~Marked(d)' /\ NoneCut'
    BY <1>1, <1>3, <2>3 DEF QuarantineInv, OneCut, NoneCut, Marked
  <2>5. UNCHANGED <<place, damaged, made>>
    BY <1>3 DEF MakeDirectory, Keeps
  <2>p. at' \in Positions
    BY <1>3 DEF Positions, Goes, StartStages
  <2>6. QuarantineTyped'
    BY <1>1, <2>3, <2>5, <2>p DEF QuarantineTyped, Directory
  <2>7. LiveIsOne' /\ NothingLost'
    BY <1>1, <2>3, <2>5 DEF QuarantineInv, LiveIsOne, NothingLost
  <2>8. SealedAreWhole'
    BY <1>1, <2>2, <2>3, <2>5 DEF SealedAreWhole, Empty, Sealed, QuarantineInv, NoneCut
  <2>s. Empty(d)' /\ place'[1] \in damaged' /\ archive'[d].exists /\ d # 0
    BY <1>1, <2>2, <2>3, <2>5 DEF Empty, Dirs
  <2>9. StageInv'
    BY <1>3, <2>4, <2>s DEF Goes, StageInv, NeverConflicts, OpensUncut, Sets, Marks, Moves, RollsBack, Restores
  <2>10. OneCut'
    BY <2>3, <2>4 DEF OneCut, NoneCut, QuarantineInv
  <2>11. QED
    BY <2>4, <2>6, <2>7, <2>8, <2>9, <2>10 DEF QuarantineInv, CutsAreSplit, NoneCut
<1>4. QED
  BY <1>2, <1>3 DEF MakeDirectory

(* The marker stands before the first file is moved; without it the directory goes again. *)
LEMMA MarkKeepsIt == ASSUME QuarantineInv, Mark PROVE QuarantineInv'
<1>1. PICK d \in Dirs : d = at.dir /\ at.pc = "mark" /\ d # 0
  BY DEF Mark, QuarantineInv, QuarantineTyped, Positions, StageInv, Marks
<1>2. QuarantineTyped /\ NoneCut /\ place[1] \in damaged /\ Empty(d) /\ archive[d].exists
  BY <1>1 DEF QuarantineInv, StageInv, OpensUncut, Sets, Marks
<1>3. UNCHANGED <<place, damaged, made>>
  BY DEF Mark, Keeps
<1>4. CASE archive' = [archive EXCEPT ![d].marker = TRUE] /\ Goes("move", d, 1)
  <2>1. Labels(d, TRUE, TRUE)
    BY <1>2, <1>4, Relabels DEF Labels, QuarantineTyped, Directory
  <2>2. /\ archive' \in [Dirs -> Directory] /\ archive'[d].exists /\ archive'[d].marker
        /\ archive'[d].holds = archive[d].holds /\ \A e \in Dirs : e # d => archive'[e] = archive[e]
    BY <1>2, <2>1, Labelled
  <2>3. Marked(d)' /\ ~NoneCut' /\ \A e \in Dirs : e # d => ~Marked(e)'
    BY <1>2, <2>2 DEF Marked, NoneCut
  <2>4. at' \in Positions
    BY <1>4 DEF Positions, Goes, StartStages
  <2>5. QuarantineTyped'
    BY <1>2, <1>3, <2>2, <2>4 DEF QuarantineTyped, Directory
  <2>6. OneCut'
    BY <2>2, <2>3 DEF OneCut, QuarantineInv
  <2>7. \A i \in Steps : place'[i] \in {0, place'[1]}
    BY <1>2, <1>3 DEF QuarantineInv, LiveIsOne
  <2>8. Split(d)'
    BY <1>2, <1>3, <2>2, <2>7, ThreeFiles DEF Split, CutSet, Empty
  <2>9. CutsAreSplit' /\ LiveIsOne'
    BY <2>3, <2>8 DEF CutsAreSplit, LiveIsOne
  <2>10. SealedAreWhole'
    BY <1>2, <1>3, <2>2, <2>3 DEF SealedAreWhole, Empty, Sealed, QuarantineInv, NoneCut
  <2>11. NothingLost'
    BY <1>2, <1>3, <2>2 DEF NothingLost, QuarantineInv
  <2>12. StageInv'
    BY <1>1, <1>2, <1>4, <2>2, <2>3, ThreeFiles DEF Goes, Empty, StageInv, NeverConflicts, OpensUncut, Sets, Marks, Moves, RollsBack, Restores
  <2>13. QED
    BY <2>5, <2>6, <2>9, <2>10, <2>11, <2>12 DEF QuarantineInv
<1>5. CASE Gone(d) /\ Goes("refused", 0, 0)
  <2>1. /\ archive' \in [Dirs -> Directory] /\ ~archive'[d].exists /\ ~archive'[d].marker
        /\ (\A i \in Steps : archive'[d].holds[i] = 0) /\ \A e \in Dirs : e # d => archive'[e] = archive[e]
    BY <1>2, <1>5, Removed
  <2>2. StageInv' /\ at' \in Positions
    BY <1>5, Leaves
  <2>3. QuarantineTyped'
    BY <1>2, <1>3, <2>1, <2>2 DEF QuarantineTyped, Directory
  <2>4. NoneCut'
    BY <1>2, <2>1 DEF Marked, NoneCut
  <2>5. LiveIsOne' /\ OneCut'
    BY <1>2, <1>3, <2>1, <2>4 DEF LiveIsOne, OneCut, NoneCut, QuarantineInv
  <2>6. SealedAreWhole'
    BY <1>2, <1>3, <2>1 DEF SealedAreWhole, Empty, Sealed, QuarantineInv, NoneCut
  <2>7. NothingLost'
    BY <1>2, <1>3, <2>1, ThreeFiles DEF NothingLost, QuarantineInv, Empty
  <2>8. QED
    BY <2>2, <2>3, <2>4, <2>5, <2>6, <2>7 DEF QuarantineInv, CutsAreSplit, NoneCut
<1>6. QED
  BY <1>1, <1>4, <1>5 DEF Mark, Gone

(* The files move one by one: before the step nothing is left, from it on nothing is held. *)
LEMMA MoveKeepsIt == ASSUME QuarantineInv, Move PROVE QuarantineInv'
<1>1. PICK d \in Dirs, k \in Steps : d = at.dir /\ k = at.step /\ at.pc = "move" /\ k \in 1..3 /\ d # 0
  <2>1. at \in Positions /\ at.pc = "move" /\ at.step \in Steps
    BY DEF Move, QuarantineInv, QuarantineTyped
  <2>2. at.dir # 0
    BY <2>1 DEF QuarantineInv, StageInv, Moves
  <2>3. QED
    BY <2>1, <2>2, ThreeFiles DEF Positions
<1>2. PICK set \in 0..made : set = place[k]
  BY DEF QuarantineInv, QuarantineTyped
<1>3. /\ QuarantineTyped /\ Marked(d) /\ Split(d)
      /\ \A i \in Steps : IF i < k THEN place[i] = 0 ELSE archive[d].holds[i] = 0
  BY <1>1 DEF QuarantineInv, StageInv, Moves, CutsAreSplit
<1>4. UNCHANGED <<damaged, made>>
  BY DEF Move, Keeps
<1>5. CASE set # 0 /\ Holding(d, k, set) /\ place' = [place EXCEPT ![k] = 0] /\ Goes("move", d, k + 1)
  <2>1. /\ archive' \in [Dirs -> Directory]
        /\ \A e \in Dirs : archive'[e].exists = archive[e].exists /\ archive'[e].marker = archive[e].marker
        /\ \A e \in Dirs : e # d => archive'[e] = archive[e]
        /\ \A i \in Steps : archive'[d].holds[i] = IF i = k THEN set ELSE archive[d].holds[i]
    BY <1>3, <1>5, Held
  <2>2. place' \in [Steps -> 0..made] /\ \A i \in Steps : place'[i] = IF i = k THEN 0 ELSE place[i]
    BY <1>3, <1>5 DEF QuarantineTyped
  <2>3. at' \in Positions
    BY <1>1, <1>5 DEF Goes, Positions, StartStages
  <2>4. QuarantineTyped'
    BY <1>3, <1>4, <2>1, <2>2, <2>3 DEF QuarantineTyped, Directory
  <2>5. (\A e \in Dirs : Marked(e)' <=> Marked(e)) /\ Marked(d)' /\ ~NoneCut'
    BY <1>3, <2>1 DEF Marked, NoneCut
  <2>6. OneCut' /\ LiveIsOne'
    BY <2>1, <2>5 DEF QuarantineInv, OneCut, LiveIsOne
  <2>7. CutSet(d)' = CutSet(d)
    BY <1>2, <1>3, <1>5, <2>1, <2>2, ThreeFiles DEF CutSet, Split
  <2>8. Split(d)'
    BY <1>2, <1>3, <1>4, <2>1, <2>2, <2>7 DEF Split
  <2>9. CutsAreSplit'
    BY <1>3, <2>5, <2>8 DEF CutsAreSplit, QuarantineInv, OneCut
  <2>10. SealedAreWhole'
    BY <1>3, <1>4, <2>1, <2>5 DEF SealedAreWhole, Empty, Sealed, QuarantineInv
  <2>11. NothingLost'
    BY <1>2, <1>3, <1>4, <1>5, <2>1, <2>2, ThreeFiles DEF NothingLost, QuarantineInv
  <2>12. StageInv'
    BY <1>1, <1>3, <1>5, <2>1, <2>2, <2>5, ThreeFiles
       DEF Goes, StageInv, NeverConflicts, OpensUncut, Sets, Marks, Moves, RollsBack, Restores
  <2>13. QED
    BY <2>4, <2>6, <2>9, <2>10, <2>11, <2>12 DEF QuarantineInv
<1>6. CASE set = 0 /\ Goes("move", d, k + 1) /\ UNCHANGED <<place, archive>>
  <2>1. at' \in Positions
    BY <1>1, <1>6 DEF Goes, Positions, StartStages
  <2>2. Marked(d)' /\ ~NoneCut'
    BY <1>3, <1>6 DEF Marked, NoneCut
  <2>s. \A i \in Steps : IF i < k + 1 THEN place'[i] = 0 ELSE archive'[d].holds[i] = 0
    <3>1. place' = place /\ archive' = archive /\ place[k] = 0
      BY <1>2, <1>6
    <3>2. SUFFICES ASSUME NEW i \in Steps
                   PROVE  IF i < k + 1 THEN place[i] = 0 ELSE archive[d].holds[i] = 0
      BY <3>1
    <3>3. i = k \/ (i < k /\ i < k + 1) \/ ~(i < k \/ i < k + 1)
      BY <1>1, ThreeFiles
    <3>4. QED
      BY <1>1, <1>3, <3>1, <3>3
  <2>3. StageInv'
    BY <1>1, <1>6, <2>2, <2>s
       DEF Goes, StageInv, NeverConflicts, OpensUncut, Sets, Marks, Moves, RollsBack, Restores
  <2>4. QED
    BY <1>4, <1>6, <2>1, <2>3, FilesStay
<1>7. CASE Goes("rollback", d, k - 1) /\ UNCHANGED <<place, archive>>
  <2>1. k - 1 \in 0..2
    BY <1>1
  <2>p. at' \in Positions
    BY <1>7, <2>1 DEF Goes, Positions, StartStages
  <2>2. Marked(d)'
    BY <1>3, <1>7 DEF Marked
  <2>3. StageInv'
    BY <1>1, <1>7, <2>1, <2>2 DEF Goes, StageInv, NeverConflicts, OpensUncut, Sets, Marks, Moves, RollsBack, Restores
  <2>4. QED
    BY <1>4, <1>7, <2>p, <2>3, FilesStay
<1>8. QED
  BY <1>1, <1>2, <1>5, <1>6, <1>7 DEF Move, Moved, Holding

(* The directory is whole when its marker goes: nothing of the set is left. *)
LEMMA FinalizeKeepsIt == ASSUME QuarantineInv, Finalize PROVE QuarantineInv'
<1>1. PICK d \in Dirs : d = at.dir /\ at.pc = "move" /\ at.step = 4 /\ d # 0
  <2>1. at \in Positions /\ at.pc = "move" /\ at.step = 4
    BY ThreeFiles DEF Finalize, QuarantineInv, QuarantineTyped
  <2>2. at.dir # 0
    BY <2>1 DEF QuarantineInv, StageInv, Moves
  <2>3. QED
    BY <2>1, <2>2 DEF Positions
<1>2. QuarantineTyped /\ Marked(d) /\ Split(d) /\ \A i \in Steps : place[i] = 0
  BY <1>1, ThreeFiles DEF QuarantineInv, StageInv, Moves, CutsAreSplit
<1>3. UNCHANGED <<place, damaged, made>>
  BY DEF Finalize, Keeps
<1>4. CASE archive' = [archive EXCEPT ![d].marker = FALSE] /\ Goes("open", 0, 1)
  <2>1. Labels(d, archive[d].exists, FALSE) /\ archive[d].exists \in BOOLEAN
    BY <1>2, <1>4, Relabels DEF Labels, QuarantineTyped, Directory
  <2>2. /\ archive' \in [Dirs -> Directory] /\ archive'[d].exists = archive[d].exists /\ ~archive'[d].marker
        /\ archive'[d].holds = archive[d].holds /\ \A e \in Dirs : e # d => archive'[e] = archive[e]
    BY <1>2, <2>1, Labelled
  <2>3. at' \in Positions
    BY <1>4 DEF Goes, Positions, StartStages
  <2>4. QuarantineTyped'
    BY <1>2, <1>3, <2>2, <2>3 DEF QuarantineTyped, Directory
  <2>5. (\A e \in Dirs : e # d => ~Marked(e)) /\ NoneCut'
    BY <1>2, <2>2 DEF QuarantineInv, OneCut, Marked, NoneCut
  <2>6. LiveIsOne' /\ OneCut' /\ NothingLost'
    BY <1>2, <1>3, <2>2, <2>5 DEF LiveIsOne, OneCut, NoneCut, NothingLost, QuarantineInv
  <2>7. 0 \notin damaged
    BY <1>2 DEF QuarantineTyped
  <2>8. Sealed(d)'
    BY <1>2, <1>3, <2>2, <2>7, ThreeFiles DEF Sealed, Split, CutSet, Marked
  <2>9. SealedAreWhole'
    BY <1>3, <2>2, <2>5, <2>8 DEF SealedAreWhole, Empty, Sealed, QuarantineInv
  <2>10. StageInv'
    BY <1>4, <2>5 DEF Goes, StageInv, NeverConflicts, OpensUncut, Sets, Marks, Moves, RollsBack, Restores
  <2>11. QED
    BY <2>4, <2>5, <2>6, <2>9, <2>10 DEF QuarantineInv, CutsAreSplit, NoneCut
<1>5. CASE Goes("rollback", d, 3) /\ UNCHANGED <<place, archive>>
  <2>p. at' \in Positions
    BY <1>5 DEF Goes, Positions, StartStages
  <2>1. Marked(d)'
    BY <1>2, <1>5 DEF Marked
  <2>2. StageInv'
    BY <1>1, <1>5, <2>1 DEF Goes, StageInv, NeverConflicts, OpensUncut, Sets, Marks, Moves, RollsBack, Restores
  <2>3. QED
    BY <1>3, <1>5, <2>p, <2>2, FilesStay
<1>6. QED
  BY <1>1, <1>4, <1>5, ThreeFiles DEF Finalize

(* Each file that can go back does; the directory goes only when all did. *)
LEMMA RollBackKeepsIt == ASSUME QuarantineInv, RollBack PROVE QuarantineInv'
<1>1. PICK d \in Dirs : d = at.dir /\ at.pc = "rollback" /\ d # 0
  <2>1. at \in Positions /\ at.pc = "rollback"
    BY DEF RollBack, QuarantineInv, QuarantineTyped
  <2>2. at.dir # 0
    BY <2>1 DEF QuarantineInv, StageInv, RollsBack
  <2>3. QED
    BY <2>1, <2>2 DEF Positions
<1>2. QuarantineTyped /\ Marked(d) /\ Split(d) /\ at.step \in 0..3
  BY <1>1 DEF QuarantineInv, StageInv, RollsBack, CutsAreSplit
<1>3. UNCHANGED <<damaged, made>>
  BY DEF RollBack, Keeps
<1>4. CASE at.step = 0
  <2>1. Goes("refused", 0, 0) /\ UNCHANGED place
    BY <1>4 DEF RollBack
  <2>2. StageInv' /\ at' \in Positions
    BY <2>1, Leaves
  <2>3. CASE ~Empty(d)
    <3>1. UNCHANGED archive
      BY <1>1, <1>4, <2>3 DEF RollBack, Empty
    <3>2. QED
      BY <1>3, <2>1, <2>2, <3>1, FilesStay
  <2>4. CASE Empty(d)
    <3>1. Gone(d)
      BY <1>1, <1>4, <2>4 DEF RollBack, Empty, Gone
    <3>2. /\ archive' \in [Dirs -> Directory] /\ ~archive'[d].exists /\ ~archive'[d].marker
          /\ (\A i \in Steps : archive'[d].holds[i] = 0) /\ \A e \in Dirs : e # d => archive'[e] = archive[e]
      BY <1>2, <3>1, Removed
    <3>3. QuarantineTyped'
      BY <1>2, <1>3, <2>1, <2>2, <3>2 DEF QuarantineTyped, Directory
    <3>4. (\A e \in Dirs : e # d => ~Marked(e)) /\ NoneCut'
      BY <1>2, <3>2 DEF QuarantineInv, OneCut, Marked, NoneCut
    <3>5. LiveIsOne'
      BY <1>2, <2>1, <2>4, ThreeFiles DEF LiveIsOne, Split, CutSet, Empty
    <3>6. OneCut'
      BY <3>2, <3>4 DEF OneCut, NoneCut, QuarantineInv
    <3>7. SealedAreWhole'
      BY <1>3, <3>2, <3>4 DEF SealedAreWhole, Empty, Sealed, QuarantineInv
    <3>8. NothingLost'
      BY <1>2, <1>3, <2>1, <2>4, <3>2, ThreeFiles DEF NothingLost, QuarantineInv, Empty
    <3>9. QED
      BY <2>2, <3>3, <3>4, <3>5, <3>6, <3>7, <3>8 DEF QuarantineInv, CutsAreSplit, NoneCut
  <2>5. QED
    BY <2>3, <2>4
<1>5. CASE at.step # 0
  <2>1. PICK k \in Steps : k = at.step /\ k \in 1..3
    BY <1>2, <1>5, ThreeFiles
  <2>2. PICK set \in 0..made : set = archive[d].holds[k]
    BY <1>2 DEF QuarantineTyped, Directory
  <2>3. Goes("rollback", d, k - 1)
    BY <1>1, <1>5, <2>1 DEF RollBack
  <2>4. k - 1 \in 0..2
    BY <2>1
  <2>5. at' \in Positions
    BY <2>3, <2>4 DEF Goes, Positions, StartStages
  <2>6. CASE place' = (IF set # 0 THEN [place EXCEPT ![k] = set] ELSE place) /\ Holding(d, k, 0)
    <3>1. /\ (QuarantineTyped /\ OneCut /\ CutsAreSplit /\ LiveIsOne /\ SealedAreWhole /\ NothingLost)'
          /\ Marked(d)'
      BY <1>2, <1>3, <2>2, <2>5, <2>6, FileReturns
    <3>2. StageInv'
      BY <1>1, <2>3, <2>4, <3>1 DEF Goes, StageInv, NeverConflicts, OpensUncut, Sets, Marks, Moves, RollsBack, Restores
    <3>3. QED
      BY <3>1, <3>2 DEF QuarantineInv
  <2>7. CASE UNCHANGED <<place, archive>>
    <3>1. Marked(d)'
      BY <1>2, <2>7 DEF Marked
    <3>2. StageInv'
      BY <1>1, <2>3, <2>4, <3>1 DEF Goes, StageInv, NeverConflicts, OpensUncut, Sets, Marks, Moves, RollsBack, Restores
    <3>3. QED
      BY <1>3, <2>5, <2>7, <3>2, FilesStay
  <2>8. QED
    BY <1>1, <1>5, <2>1, <2>2, <2>6, <2>7 DEF RollBack, Holding
<1>6. QED
  BY <1>4, <1>5

-----------------------------------------------------------------------------
(* A clean stop takes the sidecars away; a cut leaves everything where it is. *)
LEMMA PowerCutKeepsIt == ASSUME QuarantineInv, PowerCut PROVE QuarantineInv'
<1>1. StageInv' /\ at' \in Positions
  BY Leaves DEF PowerCut
<1>2. UNCHANGED <<archive, damaged, made>>
  BY DEF PowerCut, Keeps
<1>3. CASE UNCHANGED place
  BY <1>1, <1>2, <1>3, FilesStay
<1>4. CASE at.pc = "up" /\ place' = [place EXCEPT ![2] = 0, ![3] = 0]
  <2>1. QuarantineTyped /\ NoneCut
    BY <1>4 DEF QuarantineInv, StageInv, OpensUncut
  <2>2. /\ place' \in [Steps -> 0..made] /\ place'[1] = place[1]
        /\ \A i \in Steps : place'[i] \in {0, place[i]}
    BY <1>4, <2>1, ThreeFiles DEF QuarantineTyped
  <2>3. QuarantineTyped'
    BY <1>1, <1>2, <2>1, <2>2 DEF QuarantineTyped, Directory
  <2>4. NoneCut' /\ OneCut' /\ SealedAreWhole'
    BY <1>2, <2>1 DEF NoneCut, Marked, OneCut, SealedAreWhole, Empty, Sealed, QuarantineInv
  <2>5. LiveIsOne'
    BY <2>1, <2>2 DEF LiveIsOne, QuarantineInv
  <2>6. NothingLost'
    BY <1>2, <2>2 DEF NothingLost, QuarantineInv
  <2>7. QED
    BY <1>1, <2>3, <2>4, <2>5, <2>6 DEF QuarantineInv, CutsAreSplit, NoneCut
<1>5. QED
  BY <1>3, <1>4 DEF PowerCut

LEMMA QuarantineStarts == ASSUME QuarantineAssumption, QuarantineInit PROVE QuarantineInv
<1>1. QuarantineTyped
  BY DEF QuarantineInit, QuarantineAssumption, QuarantineTyped, Directory, NoDir, Positions, StartStages
<1>2. \A d \in Dirs : ~Marked(d) /\ Empty(d) /\ ~archive[d].marker
  BY DEF QuarantineInit, NoDir, Marked, Empty
<1>3. StageInv
  BY DEF QuarantineInit, StageInv, NeverConflicts, OpensUncut, Sets, Marks, Moves, RollsBack, Restores
<1>4. NothingLost /\ LiveIsOne
  BY ThreeFiles DEF QuarantineInit, NothingLost, LiveIsOne
<1>5. QED
  BY <1>1, <1>2, <1>3, <1>4 DEF QuarantineInv, OneCut, CutsAreSplit, SealedAreWhole

LEMMA QuarantineSteps ==
  ASSUME QuarantineInv, [QuarantineNext]_quarantineVars
  PROVE  QuarantineInv'
<1>1. CASE QuarantineNext
  BY <1>1, StartKeepsIt, NextDirectoryKeepsIt, MovesBackKeepsIt, MarkerClearedKeepsIt, DirectoryRemovedKeepsIt,
     OpenKeepsIt, MakeDirectoryKeepsIt, MarkKeepsIt, MoveKeepsIt, FinalizeKeepsIt, RollBackKeepsIt, PowerCutKeepsIt
     DEF QuarantineNext, Recovers, Quarantines
<1>2. CASE UNCHANGED quarantineVars
  <2>1. StageInv' /\ at' \in Positions
    BY <1>2 DEF quarantineVars, QuarantineInv, QuarantineTyped, StageInv, NeverConflicts, OpensUncut, Sets, Marks, Moves,
                RollsBack, Restores, NoneCut, Marked, Empty
  <2>2. QED
    BY <1>2, <2>1, FilesStay DEF quarantineVars
<1>3. QED
  BY <1>1, <1>2

LEMMA QuarantineIsSafe == ASSUME QuarantineInv PROVE DatabasesAreSafe
<1>1. OneSet
  BY DEF QuarantineInv, StageInv, OpensUncut, LiveIsOne, OneSet
<1>2. ArchiveIsWhole
  <2>1. SUFFICES ASSUME NEW d \in Dirs, archive[d].exists, ~archive[d].marker, archive[d].holds # NoDir.holds
                 PROVE  Sealed(d)
    BY DEF ArchiveIsWhole, Sealed
  <2>2. ~Empty(d)
    BY <2>1 DEF Empty, NoDir, QuarantineInv, QuarantineTyped, Directory
  <2>3. QED
    BY <2>1, <2>2 DEF QuarantineInv, SealedAreWhole, Marked
<1>3. QED
  BY <1>1, <1>2 DEF DatabasesAreSafe, QuarantineInv, StageInv

(* However often a quarantine or its recovery is refused by the disk or cut by *)
(* the power, no set of database files is lost, mixed or left half-archived.   *)
THEOREM QuarantineLosesNothing ==
  ASSUME QuarantineAssumption
  PROVE  QuarantineSpec => []DatabasesAreSafe
<1>1. QuarantineSpec => []QuarantineInv
  BY QuarantineStarts, QuarantineSteps, PTL DEF QuarantineSpec
<1>2. QuarantineInv => DatabasesAreSafe
  BY QuarantineIsSafe
<1>3. QED
  BY <1>1, <1>2, PTL

-----------------------------------------------------------------------------
(* The scan of a card.  `Home` is the card it runs on.                     *)
Records == [free : Nat, times : [Folders -> Nat], known : BOOLEAN]
ScanSources == [card : Cards \cup {NoCard}, at : Nat]
Entries == Files \X (0..9)
Walking == {"walk", "read", "tags", "publish", "finish"}
ScanStages == {"idle", "open", "save"} \cup Walking
Scanning == [pc : ScanStages, src : ScanSources, mode : Modes, free : Nat, known : Records,
             todo : SUBSET Folders, listed : SUBSET Entries, batch : SUBSET (Files \cup Entries),
             fresh : SUBSET Entries, skipped : SUBSET Files, times : [Folders -> Nat],
             complete : BOOLEAN]
ScanTyped ==
  /\ mount \in ScanSources
  /\ disk \in [Cards -> [Files -> 0..9]] /\ times \in [Cards -> [Folders -> Nat \ {0}]]
  /\ rows \in [Cards -> [Files -> 0..9]] /\ record \in [Cards -> Records]
  /\ request.mode \in Modes \cup {"none"}
  /\ request # NoRequest => request.mode \in Modes
  /\ scan \in Scanning
  /\ scan.pc # "idle" => scan.src.card \in Cards

Home == scan.src.card
Row(f) == rows[Home][f]
There(f) == disk[Home][f] # 0
Unread(f) == <<Home, f>> \in lost
Timed(d) == scan.times[d] # 0
Tagging == IF scan.pc = "tags" THEN scan.batch ELSE {}
Carried == scan.listed \cup Tagging \cup scan.fresh

(* Every folder is entered once, and none of its files is known before.    *)
Blank ==
  /\ seen = {} /\ scan.listed = {} /\ scan.fresh = {} /\ scan.skipped = {} /\ scan.batch = {}
  /\ scan.todo = {} /\ \A d \in Folders : ~Timed(d)
Ahead ==
  /\ \A f \in Files : ~Timed(FolderOf[f]) => f \notin seen /\ f \notin scan.skipped
  /\ \A e \in Carried : Timed(FolderOf[e[1]])
  /\ \A d \in scan.todo : ~Timed(d)
  /\ scan.complete => \A d \in Folders \ scan.todo : Timed(d)
Batches ==
  /\ scan.pc = "read" => scan.batch \subseteq Files /\ \A f \in scan.batch : Timed(FolderOf[f])
  /\ scan.pc = "tags" => scan.batch \subseteq Entries
  /\ scan.pc # "publish" => scan.fresh = {}
  /\ scan.pc = "finish" => scan.listed = {} /\ scan.todo = {}
  /\ scan.mode # "quick" => scan.skipped = {} /\ ~scan.known.known
ScanOrder ==
  /\ scan.pc = "open" => Blank /\ (scan.mode # "quick" => ~scan.known.known)
  /\ scan.pc \in Walking => Ahead /\ Batches

(* A recorded time is an earlier one, and of a folder entered since it is  *)
(* no later than the scan's own.                                           *)
TimesGrow ==
  /\ \A c \in Cards, d \in Folders : record[c].times[d] <= times[c][d]
  /\ scan.pc # "idle" =>
       \A d \in Folders :
         /\ scan.times[d] <= times[Home][d]
         /\ Timed(d) => record[Home].times[d] <= scan.times[d]
  /\ scan.pc # "idle" /\ scan.known.known => scan.known = record[Home]

(* What is missing was missing at some moment of this scan.                *)
MissingWasAway == scan.pc # "idle" => \A f \in Files : There(f) \/ f \in absent
(* A walk that is complete leaves no file out.                             *)
UnderWay(f) ==
  \/ FolderOf[f] \in scan.todo
  \/ scan.pc = "read" /\ f \in scan.batch
  \/ \E e \in Carried : e[1] = f
  \/ scan.pc # "finish" /\ f \in scan.skipped
Covered ==
  scan.pc \in Walking /\ scan.complete =>
    \A f \in Files : f \in absent \/ f \in seen \/ Row(f) = 0 \/ UnderWay(f)

(* Whether file f is on the card has not changed since its folder's time   *)
(* was taken: nobody touched it, or the folder still has that time.        *)
Steady(f) ==
  \/ f \notin touched
  \/ StampsFolders /\ Timed(FolderOf[f]) /\ scan.times[FolderOf[f]] = times[Home][FolderOf[f]]
Agrees(f) == Unread(f) \/ (Row(f) # 0 <=> There(f))
EntriesAreTrue ==
  scan.pc \in Walking => \A e \in Carried :
    /\ e[2] # 0
    /\ Steady(e[1]) => There(e[1])
    /\ e[1] \notin touched => e[2] = disk[Home][e[1]]
SeenHaveRows == scan.pc \in Walking => \A f \in Files : f \in seen => Row(f) # 0
(* A full walk, or one whose skipped folders can be trusted.               *)
Trusted == StampsFolders \/ scan.mode # "quick"
SeenAreThere ==
  scan.pc \in Walking /\ Trusted =>
    \A f \in Files : f \in seen /\ Steady(f) => Unread(f) \/ There(f)
SeenAreExact ==
  scan.pc \in Walking /\ scan.mode # "quick" =>
    \A f \in Files : f \in seen /\ f \notin touched => Unread(f) \/ Row(f) = disk[Home][f]
NoneForgotten ==
  scan.pc \in Walking /\ scan.complete /\ Trusted =>
    \A f \in Files : Steady(f) /\ There(f) => Unread(f) \/ f \in seen \/ UnderWay(f)
SkippedAgree ==
  scan.pc \in Walking /\ StampsFolders => \A f \in scan.skipped : Steady(f) => Agrees(f)
PrunedAgree ==
  scan.pc = "save" /\ scan.complete /\ StampsFolders => \A f \in Files : Steady(f) => Agrees(f)
(* An unchanged folder holds what the last complete walk left of it.       *)
RecordsHold ==
  StampsFolders =>
    \A c \in Cards, f \in Files :
      LET d == FolderOf[f] IN
      record[c].known /\ record[c].times[d] = times[c][d]
        => <<c, f>> \in lost \/ (rows[c][f] # 0 <=> disk[c][f] # 0)
ScanTruth ==
  /\ MissingWasAway /\ Covered /\ EntriesAreTrue /\ SeenHaveRows /\ SeenAreThere /\ SeenAreExact
  /\ NoneForgotten /\ SkippedAgree /\ PrunedAgree /\ RecordsHold

ScanInv == ScanTyped /\ ScanOrder /\ TimesGrow /\ ScanTruth
(* Sleep is prepared only when no scan runs and none is asked for.         *)
AsleepIsIdle == prepared => scan.pc = "idle" /\ request = NoRequest
-----------------------------------------------------------------------------
LEMMA CardsAreFinite == ASSUME ScanAssumption, NEW c \in Cards PROVE Free(c) \in Nat
<1>1. Present(c) \in SUBSET Files /\ IsFiniteSet(Files)
  BY DEF ScanAssumption, Present
<1>2. QED
  BY <1>1, FS_Subset, FS_CardinalityType DEF Free

LEMMA FoldersOfFiles == ASSUME ScanAssumption PROVE \A f \in Files : FolderOf[f] \in Folders
BY DEF ScanAssumption

LEMMA NoScanTyped == NoRecord \in Records /\ (ScanAssumption => NoScan \in Scanning)
<1>1. [d \in Folders |-> 0] \in [Folders -> Nat]
  OBVIOUS
<1>2. NoRecord \in Records
  BY <1>1 DEF NoRecord, Records
<1>3. NoSource \in ScanSources
  BY DEF NoSource, ScanSources
<1>4. QED
  BY <1>1, <1>2, <1>3 DEF NoScan, Scanning, ScanStages, Modes

(* Steps that touch neither the card's files, the library, nor the scan.   *)
LEMMA NoStepOfTheScan ==
  ASSUME ScanInv, UNCHANGED <<disk, times, scan, rows, seen, record, touched, absent, lost>>,
         mount' \in ScanSources,
         request'.mode \in Modes \cup {"none"}, request' # NoRequest => request'.mode \in Modes
  PROVE  ScanInv'
<1>1. ScanTyped'
  BY DEF ScanInv, ScanTyped
<1>2. ScanOrder'
  BY DEF ScanInv, ScanOrder, Blank, Ahead, Batches, Timed, Carried, Tagging
<1>3. TimesGrow'
  BY DEF ScanInv, TimesGrow, Timed, Home
<1>4. (MissingWasAway /\ Covered /\ EntriesAreTrue)'
  BY DEF ScanInv, ScanTruth, MissingWasAway, Covered, EntriesAreTrue, UnderWay, Carried, Tagging, Steady, Timed,
         There, Row, Home
<1>5. (SeenHaveRows /\ SeenAreThere /\ SeenAreExact)'
  BY DEF ScanInv, ScanTruth, SeenHaveRows, SeenAreThere, SeenAreExact, Trusted, Unread, Steady, Timed, There, Row, Home
<1>6. (NoneForgotten /\ SkippedAgree /\ PrunedAgree)'
  BY DEF ScanInv, ScanTruth, NoneForgotten, SkippedAgree, PrunedAgree, Trusted, Agrees, UnderWay, Carried, Tagging,
         Unread, Steady, Timed, There, Row, Home
<1>7. RecordsHold'
  BY DEF ScanInv, ScanTruth, RecordsHold
<1>8. QED
  BY <1>1, <1>2, <1>3, <1>4, <1>5, <1>6, <1>7 DEF ScanInv, ScanTruth

(* Steps that end the scan where it is.                                    *)
LEMMA ScanEnds ==
  ASSUME ScanAssumption, ScanInv, UNCHANGED <<disk, times, rows, record, lost, mount>>, scan' = NoScan,
         request' = request \/ request' = NoRequest
  PROVE  ScanInv'
<1>1. scan'.pc = "idle" /\ scan'.complete = TRUE
  BY DEF NoScan
<1>2. ScanTyped'
  BY <1>1, NoScanTyped DEF ScanInv, ScanTyped, NoRequest
<1>3. ScanOrder' /\ TimesGrow'
  BY <1>1 DEF ScanInv, ScanOrder, TimesGrow, Walking
<1>4. ScanTruth'
  BY <1>1 DEF ScanInv, ScanTruth, MissingWasAway, Covered, EntriesAreTrue, SeenHaveRows, SeenAreThere, SeenAreExact,
         NoneForgotten, SkippedAgree, PrunedAgree, RecordsHold, Walking
<1>5. QED
  BY <1>2, <1>3, <1>4 DEF ScanInv

LEMMA ModesAreQuiet == "quick" \in Modes /\ "none" \notin Modes /\ Modes = {"rebuild", "walk", "quick"}
BY DEF Modes

LEMMA SubmitTyped ==
  ASSUME ScanTyped, NEW source, NEW way \in Modes, Submit(source, way)
  PROVE  request'.mode \in Modes \cup {"none"} /\ (request' # NoRequest => request'.mode \in Modes)
BY DEF ScanTyped, Submit

LEMMA LoopKeepsIt == ASSUME ScanInv, MainLoop PROVE ScanInv'
<1>1. ASSUME NoticeSources PROVE ScanInv'
  <2>1. mount' = mount /\ UNCHANGED <<disk, times, scan, rows, seen, record, touched, absent, lost>>
    BY <1>1 DEF NoticeSources, LoopKeeps, cards, library, past
  <2>2. Submit(sources', "quick")
    BY <1>1 DEF NoticeSources
  <2>3. QED
    BY <2>1, <2>2, SubmitTyped, ModesAreQuiet, NoStepOfTheScan DEF ScanInv, ScanTyped
<1>2. ASSUME OwnerScans PROVE ScanInv'
  <2>1. mount' = mount /\ UNCHANGED <<disk, times, scan, rows, seen, record, touched, absent, lost>>
    BY <1>2 DEF OwnerScans, LoopKeeps, cards, library, past
  <2>2. PICK way \in Modes : Submit(sources, way)
    BY <1>2 DEF OwnerScans
  <2>3. QED
    BY <2>1, <2>2, SubmitTyped, NoStepOfTheScan DEF ScanInv, ScanTyped
<1>3. ASSUME TakeResult \/ PrepareSleep \/ RestoreSleep PROVE ScanInv'
  <2>1. request' = request /\ mount' = mount /\ UNCHANGED <<disk, times, scan, rows, seen, record, touched, absent, lost>>
    BY <1>3 DEF TakeResult, PrepareSleep, RestoreSleep, LoopKeeps, cards, library, past
  <2>2. QED
    BY <2>1, NoStepOfTheScan DEF ScanInv, ScanTyped
<1>4. QED
  BY <1>1, <1>2, <1>3 DEF MainLoop

LEMMA SlotKeepsIt == ASSUME ScanInv, Insert \/ Pull PROVE ScanInv'
<1>1. request' = request /\ UNCHANGED <<disk, times, scan, rows, seen, record, touched, absent, lost>>
  BY DEF Insert, Pull, loop, library, past
<1>2. mount' \in ScanSources
  <2>1. ASSUME NEW c \in Cards, mount' = [card |-> c, at |-> mount.at + 1] PROVE mount' \in ScanSources
    BY <2>1 DEF ScanInv, ScanTyped, ScanSources
  <2>2. ASSUME mount' = [mount EXCEPT !.card = NoCard] PROVE mount' \in ScanSources
    BY <2>2 DEF ScanInv, ScanTyped, ScanSources
  <2>3. QED
    BY <2>1, <2>2 DEF Insert, Pull
<1>3. QED
  BY <1>1, <1>2, NoStepOfTheScan DEF ScanInv, ScanTyped
-----------------------------------------------------------------------------
(* A file changes: whether it is there changes only with the folder's time. *)
LEMMA ChangedCard ==
  ASSUME ScanAssumption, ScanInv, NEW k \in Cards, NEW g \in Files, NEW v \in Contents \cup {0, Damaged},
         Change(k, g, v)
  PROVE  /\ UNCHANGED <<mount, request, scan, rows, seen, record, lost>>
         /\ disk' \in [Cards -> [Files -> 0..9]] /\ times' \in [Cards -> [Folders -> Nat \ {0}]]
         /\ \A c \in Cards, f \in Files : (c # k \/ f # g) => disk'[c][f] = disk[c][f]
         /\ \A c \in Cards, d \in Folders : times[c][d] <= times'[c][d]
         /\ disk'[k][g] = v
         /\ StampsFolders /\ times'[k][FolderOf[g]] = times[k][FolderOf[g]] => (v # 0 <=> disk[k][g] # 0)
         /\ Scans(k) => touched' = touched \cup {g}
         /\ ~Scans(k) => touched' = touched
         /\ absent \subseteq absent' /\ (Scans(k) /\ v = 0 => g \in absent')
<1>1. UNCHANGED <<mount, request, scan, rows, seen, record, lost>>
  BY DEF Change, loop, library
<1>2. v \in 0..9
  BY DEF ScanAssumption, Damaged
<1>3. disk' = [disk EXCEPT ![k][g] = v]
  BY DEF Change
<1>4. disk \in [Cards -> [Files -> 0..9]] /\ times \in [Cards -> [Folders -> Nat \ {0}]]
  BY DEF ScanInv, ScanTyped
<1>5. /\ disk' \in [Cards -> [Files -> 0..9]] /\ disk'[k][g] = v
      /\ \A c \in Cards, f \in Files : (c # k \/ f # g) => disk'[c][f] = disk[c][f]
  BY <1>2, <1>3, <1>4
<1>6. \/ times' = [times EXCEPT ![k][FolderOf[g]] = @ + 1]
      \/ (times' = times /\ ((v # 0 /\ disk[k][g] # 0) \/ ~StampsFolders))
  BY DEF Change
<1>7. FolderOf[g] \in Folders
  BY FoldersOfFiles
<1>8. /\ times' \in [Cards -> [Folders -> Nat \ {0}]]
      /\ \A c \in Cards, d \in Folders : times[c][d] <= times'[c][d]
      /\ StampsFolders /\ times'[k][FolderOf[g]] = times[k][FolderOf[g]] => (v # 0 <=> disk[k][g] # 0)
  <2>1. CASE times' = [times EXCEPT ![k][FolderOf[g]] = @ + 1]
    BY <2>1, <1>4, <1>7
  <2>2. CASE times' = times /\ ((v # 0 /\ disk[k][g] # 0) \/ ~StampsFolders)
    BY <2>2, <1>4
  <2>3. QED
    BY <1>6, <2>1, <2>2
<1>9. /\ Scans(k) => touched' = touched \cup {g}
      /\ ~Scans(k) => touched' = touched
      /\ absent \subseteq absent' /\ (Scans(k) /\ v = 0 => g \in absent')
  BY DEF Change
<1>10. QED
  BY <1>1, <1>5, <1>8, <1>9

LEMMA ChangeKeepsIt ==
  ASSUME ScanAssumption, ScanInv, NEW k \in Cards, NEW g \in Files, NEW v \in Contents \cup {0, Damaged},
         Change(k, g, v)
  PROVE  ScanInv'
<1>1. UNCHANGED <<mount, request, scan, rows, seen, record, lost>>
  BY ChangedCard
<1>2. ScanTyped'
  BY <1>1, ChangedCard DEF ScanInv, ScanTyped
<1>3. ScanOrder'
  BY <1>1 DEF ScanInv, ScanOrder, Blank, Ahead, Batches, Timed, Carried, Tagging
<1>4. TimesGrow'
  <2>1. record \in [Cards -> Records] /\ scan \in Scanning /\ (scan.pc # "idle" => Home \in Cards)
    BY DEF ScanInv, ScanTyped, Home
  <2>2. ASSUME NEW c \in Cards, NEW d \in Folders PROVE record'[c].times[d] <= times'[c][d]
    <3>1. record[c].times[d] \in Nat /\ times[c][d] \in Nat /\ times'[c][d] \in Nat
      BY <2>1, ChangedCard DEF Records, ScanInv, ScanTyped
    <3>2. record[c].times[d] <= times[c][d] /\ times[c][d] <= times'[c][d]
      BY ChangedCard DEF ScanInv, TimesGrow
    <3>3. QED
      BY <3>1, <3>2, <1>1
  <2>3. ASSUME scan.pc # "idle", NEW d \in Folders
        PROVE scan'.times[d] <= times'[Home][d] /\ (Timed(d)' => record'[Home].times[d] <= scan'.times[d])
    <3>1. scan.times[d] \in Nat /\ times[Home][d] \in Nat /\ times'[Home][d] \in Nat
      BY <2>1, <2>3, ChangedCard DEF Scanning, ScanInv, ScanTyped
    <3>2. scan.times[d] <= times[Home][d] /\ times[Home][d] <= times'[Home][d]
      BY <2>1, <2>3, ChangedCard DEF ScanInv, TimesGrow
    <3>3. Timed(d) => record[Home].times[d] <= scan.times[d]
      BY <2>3 DEF ScanInv, TimesGrow
    <3>4. QED
      BY <3>1, <3>2, <3>3, <1>1 DEF Timed
  <2>4. QED
    BY <2>2, <2>3, <1>1 DEF TimesGrow, ScanInv, Home
<1>5. scan.pc # "idle" => Home \in Cards
  BY DEF ScanInv, ScanTyped, Home
<1>6. scan.pc # "idle" => MissingWasAway'
  BY <1>1, <1>5, ChangedCard DEF ScanInv, ScanTruth, MissingWasAway, There, Home, Scans
<1>7. ASSUME scan.pc # "idle", NEW f \in Files
      PROVE  /\ Home' = Home
             /\ f \notin touched' => f \notin touched /\ disk'[Home][f] = disk[Home][f]
             /\ Steady(f)' => Steady(f) /\ (There(f)' <=> There(f))
  <2>1. Home' = Home /\ scan' = scan
    BY <1>1 DEF Home
  <2>2. f \notin touched' => f \notin touched /\ disk'[Home][f] = disk[Home][f]
    BY <1>5, <1>7, ChangedCard DEF Scans, Home
  <2>3. ASSUME StampsFolders, Timed(FolderOf[f]), scan.times[FolderOf[f]] = times'[Home][FolderOf[f]]
        PROVE Steady(f) /\ (disk'[Home][f] # 0 <=> disk[Home][f] # 0)
    <3>1. FolderOf[f] \in Folders
      BY FoldersOfFiles
    <3>2. times[Home][FolderOf[f]] <= times'[Home][FolderOf[f]] /\ scan.times[FolderOf[f]] <= times[Home][FolderOf[f]]
      BY <3>1, <1>5, <1>7, ChangedCard DEF ScanInv, TimesGrow
    <3>3. times[Home][FolderOf[f]] \in Nat /\ times'[Home][FolderOf[f]] \in Nat /\ scan.times[FolderOf[f]] \in Nat
      BY <3>1, <1>5, <1>7, ChangedCard DEF ScanInv, ScanTyped, Scanning
    <3>4. times'[Home][FolderOf[f]] = times[Home][FolderOf[f]] /\ scan.times[FolderOf[f]] = times[Home][FolderOf[f]]
      BY <3>2, <3>3, <2>3
    <3>5. CASE k = Home /\ f = g
      BY <3>5, <3>4, <2>3, ChangedCard DEF Steady
    <3>6. CASE ~(k = Home /\ f = g)
      BY <3>6, <3>4, <2>3, <1>5, <1>7, ChangedCard DEF Steady
    <3>7. QED
      BY <3>5, <3>6
  <2>4. Steady(f)' => Steady(f) /\ (There(f)' <=> There(f))
    BY <2>1, <2>2, <2>3 DEF Steady, There, Timed
  <2>5. QED
    BY <2>1, <2>2, <2>4
<1>8. (SeenHaveRows /\ Covered)' /\ MissingWasAway'
  BY <1>1, <1>6, ChangedCard DEF ScanInv, ScanTruth, SeenHaveRows, Covered, MissingWasAway, UnderWay, Carried, Tagging, Row, Home,
     Walking
<1>9. EntriesAreTrue'
  <2>1. SUFFICES ASSUME scan.pc \in Walking, NEW e \in Carried
                 PROVE  /\ e[2] # 0
                        /\ Steady(e[1])' => There(e[1])'
                        /\ e[1] \notin touched' => e[2] = (disk[Home][e[1]])'
    BY <1>1 DEF EntriesAreTrue, Carried, Tagging
  <2>2. e[1] \in Files
    BY <2>1 DEF ScanInv, ScanTyped, Scanning, Carried, Tagging, ScanOrder, Batches, Entries
  <2>3. scan.pc # "idle"
    BY <2>1 DEF Walking
  <2>4. QED
    BY <1>7, <2>1, <2>2, <2>3 DEF ScanInv, ScanTruth, EntriesAreTrue
<1>10. (SeenAreThere /\ SeenAreExact)'
  <2>1. ASSUME scan.pc \in Walking, NEW f \in Files, f \in seen
        PROVE  /\ Trusted /\ Steady(f)' => Unread(f)' \/ There(f)'
               /\ scan.mode # "quick" /\ f \notin touched' => Unread(f)' \/ Row(f)' = (disk[Home][f])'
    <3>1. scan.pc # "idle"
      BY <2>1 DEF Walking
    <3>2. (Unread(f)' <=> Unread(f)) /\ Row(f)' = Row(f) /\ Home' = Home
      BY <1>1, <1>7, <3>1 DEF Unread, Row, Home
    <3>3. Trusted /\ Steady(f) => Unread(f) \/ There(f)
      BY <2>1 DEF ScanInv, ScanTruth, SeenAreThere
    <3>4. scan.mode # "quick" /\ f \notin touched => Unread(f) \/ Row(f) = disk[Home][f]
      BY <2>1 DEF ScanInv, ScanTruth, SeenAreExact
    <3>5. QED
      BY <1>7, <2>1, <3>1, <3>2, <3>3, <3>4
  <2>2. QED
    BY <2>1, <1>1 DEF SeenAreThere, SeenAreExact, Trusted
<1>11. (NoneForgotten /\ SkippedAgree /\ PrunedAgree)'
  <2>1. SUFFICES ASSUME scan.pc \in Walking \/ scan.pc = "save", NEW f \in Files, Steady(f)'
                 PROVE  /\ scan.pc \in Walking /\ scan.complete /\ Trusted' /\ There(f)'
                             => Unread(f)' \/ f \in seen' \/ UnderWay(f)'
                        /\ scan.pc \in Walking /\ StampsFolders /\ f \in scan.skipped => Agrees(f)'
                        /\ scan.pc = "save" /\ scan.complete /\ StampsFolders => Agrees(f)'
    <3>1. scan \in Scanning
      BY DEF ScanInv, ScanTyped
    <3>2. scan.skipped \subseteq Files
      BY <3>1 DEF Scanning
    <3>3. QED
      BY <3>2, <2>1, <1>1 DEF NoneForgotten, SkippedAgree, PrunedAgree
  <2>2. scan.pc # "idle"
    BY <2>1 DEF Walking
  <2>3. Home' = Home /\ Steady(f) /\ (There(f)' <=> There(f))
    BY <1>7, <2>1, <2>2
  <2>4. (Unread(f)' <=> Unread(f)) /\ Row(f)' = Row(f) /\ (UnderWay(f)' <=> UnderWay(f)) /\ (Trusted' <=> Trusted)
    BY <2>3, <1>1 DEF Unread, Row, UnderWay, Carried, Tagging, Trusted
  <2>5. QED
    BY <1>1, <2>1, <2>3, <2>4 DEF ScanInv, ScanTruth, NoneForgotten, SkippedAgree, PrunedAgree, Agrees
<1>12. RecordsHold'
  <2>1. SUFFICES ASSUME StampsFolders, NEW c \in Cards, NEW f \in Files,
                        record[c].known, record[c].times[FolderOf[f]] = times'[c][FolderOf[f]]
                 PROVE  <<c, f>> \in lost \/ (rows[c][f] # 0 <=> disk'[c][f] # 0)
    BY <1>1 DEF RecordsHold
  <2>2. FolderOf[f] \in Folders
    BY FoldersOfFiles
  <2>3. record[c].times[FolderOf[f]] <= times[c][FolderOf[f]] /\ times[c][FolderOf[f]] <= times'[c][FolderOf[f]]
    BY <2>2, ChangedCard DEF ScanInv, TimesGrow
  <2>4. times[c][FolderOf[f]] \in Nat /\ times'[c][FolderOf[f]] \in Nat /\ record[c].times[FolderOf[f]] \in Nat
    BY <2>2, ChangedCard DEF ScanInv, ScanTyped, Records
  <2>5. times'[c][FolderOf[f]] = times[c][FolderOf[f]] /\ record[c].times[FolderOf[f]] = times[c][FolderOf[f]]
    BY <2>1, <2>3, <2>4
  <2>6. <<c, f>> \in lost \/ (rows[c][f] # 0 <=> disk[c][f] # 0)
    BY <2>1, <2>5 DEF ScanInv, ScanTruth, RecordsHold
  <2>7. disk'[c][f] # 0 <=> disk[c][f] # 0
    <3>1. CASE c = k /\ f = g
      BY <3>1, <2>1, <2>5, ChangedCard
    <3>2. CASE ~(c = k /\ f = g)
      BY <3>2, ChangedCard
    <3>3. QED
      BY <3>1, <3>2
  <2>8. QED
    BY <2>6, <2>7
<1>13. QED
  BY <1>2, <1>3, <1>4, <1>8, <1>9, <1>10, <1>11, <1>12 DEF ScanInv, ScanTruth
-----------------------------------------------------------------------------
LEMMA BeginScanKeepsIt == ASSUME ScanAssumption, ScanInv, BeginScan PROVE ScanInv'
<1> DEFINE s == request.src
           rec == record[s.card]
           trusted == IF request.mode = "quick" /\ rec.known /\ rec.free = Free(s.card) THEN rec ELSE NoRecord
<1>1. UNCHANGED <<disk, times, mount, rows, record, lost>> /\ request # NoRequest /\ request' = NoRequest
  BY DEF BeginScan, cards
<1>2. CASE s.card = NoCard \/ ~Current(s)
  <2>1. scan' = NoScan
    BY <1>2 DEF BeginScan, EndsWith
  <2>2. QED
    BY <1>1, <2>1, ScanEnds
<1>3. CASE s.card # NoCard /\ Current(s)
  <2>1. s = mount /\ s \in ScanSources /\ s.card \in Cards
    BY <1>3 DEF Current, ScanInv, ScanTyped, ScanSources
  <2>2. request.mode \in Modes
    BY <1>1 DEF ScanInv, ScanTyped
  <2>3. trusted \in Records /\ (trusted.known => trusted = rec) /\ (request.mode # "quick" => ~trusted.known)
    BY <2>1, NoScanTyped DEF ScanInv, ScanTyped, NoRecord
  <2>4. Free(s.card) \in Nat
    BY <2>1, CardsAreFinite
  <2>5. /\ scan' = [NoScan EXCEPT !.pc = "open", !.src = s, !.mode = request.mode, !.free = Free(s.card),
                                  !.known = trusted]
        /\ seen' = {} /\ touched' = {} /\ absent' = Files \ Present(s.card)
    BY <1>3 DEF BeginScan, Becomes
  <2> HIDE DEF s, trusted
  <2>6. /\ scan'.pc = "open" /\ scan'.src = s /\ scan'.mode = request.mode /\ scan'.known = trusted
        /\ scan'.todo = {} /\ scan'.listed = {} /\ scan'.batch = {} /\ scan'.fresh = {} /\ scan'.skipped = {}
        /\ \A d \in Folders : scan'.times[d] = 0
        /\ scan' \in Scanning
    BY <2>1, <2>2, <2>3, <2>4, <2>5, NoScanTyped DEF Scanning, ScanStages, NoScan
  <2>7. ScanTyped'
    BY <1>1, <2>1, <2>6 DEF ScanInv, ScanTyped, NoRequest
  <2>8. ScanOrder'
    BY <2>3, <2>5, <2>6 DEF ScanOrder, Blank, Timed, Walking
  <2>9. TimesGrow'
    <3>1. \A d \in Folders : times[s.card][d] \in Nat
      BY <2>1 DEF ScanInv, ScanTyped
    <3>2. \A d \in Folders : scan'.times[d] <= times[s.card][d] /\ ~Timed(d)'
      BY <2>6, <3>1 DEF Timed
    <3>3. trusted.known => trusted = record[s.card]
      BY <2>3 DEF s
    <3>4. QED
      BY <1>1, <2>6, <3>2, <3>3 DEF ScanInv, TimesGrow, Home
  <2>10. MissingWasAway'
    BY <1>1, <2>5, <2>6 DEF MissingWasAway, Present, There, Home
  <2>11. QED
    BY <1>1, <2>6, <2>7, <2>8, <2>9, <2>10 DEF ScanInv, ScanTruth, Covered, EntriesAreTrue, SeenHaveRows,
       SeenAreThere, SeenAreExact, NoneForgotten, SkippedAgree, PrunedAgree, RecordsHold, Walking
<1>4. QED
  BY <1>2, <1>3

(* Steps of the scan that leave the times taken so far. *)
GoesOn ==
  /\ UNCHANGED <<disk, times, touched, absent, record, mount, request>>
  /\ scan.pc # "idle" /\ scan' \in Scanning /\ scan'.pc # "idle"
  /\ scan'.src = scan.src /\ scan'.mode = scan.mode /\ scan'.known = scan.known
LEMMA SameCard ==
  ASSUME ScanInv, GoesOn
  PROVE  /\ Home' = Home /\ Home \in Cards /\ MissingWasAway' /\ (Trusted' <=> Trusted)
         /\ \A f \in Files : (There(f)' <=> There(f)) /\ (disk[Home][f])' = disk[Home][f]
         /\ rows' \in [Cards -> [Files -> 0..9]] => ScanTyped'
         /\ scan'.times = scan.times => /\ TimesGrow' /\ \A d : Timed(d)' <=> Timed(d)
                                        /\ \A f \in Files : Steady(f)' <=> Steady(f)
<1>1. Home' = Home /\ Home \in Cards
  BY DEF GoesOn, ScanInv, ScanTyped, Home
<1>2. MissingWasAway' /\ \A f \in Files : (There(f)' <=> There(f)) /\ (disk[Home][f])' = disk[Home][f]
  BY <1>1 DEF GoesOn, ScanInv, ScanTruth, MissingWasAway, There
<1>3. rows' \in [Cards -> [Files -> 0..9]] => ScanTyped'
  BY DEF GoesOn, ScanInv, ScanTyped
<1>4. ASSUME scan'.times = scan.times
      PROVE  TimesGrow' /\ (\A d : Timed(d)' <=> Timed(d)) /\ \A f \in Files : Steady(f)' <=> Steady(f)
  <2>1. \A d : Timed(d)' <=> Timed(d)
    BY <1>4 DEF Timed
  <2>2. \A f \in Files : Steady(f)' <=> Steady(f)
    BY <1>1, <1>4, <2>1 DEF GoesOn, Steady
  <2>3. TimesGrow'
    BY <1>1, <1>4, <2>1 DEF GoesOn, ScanInv, TimesGrow
  <2>4. QED
    BY <2>1, <2>2, <2>3
<1>5. QED
  BY <1>1, <1>2, <1>3, <1>4 DEF GoesOn, Trusted

LEMMA OpenRootKeepsIt == ASSUME ScanAssumption, ScanInv, OpenRoot PROVE ScanInv'
<1>1. UNCHANGED <<disk, times, mount, rows, record, lost, request, seen, touched, absent>> /\ scan.pc = "open"
  BY DEF OpenRoot, ScanKeeps, cards, library, past
<1>2. CASE mount # scan.src
  BY <1>1, <1>2, ScanEnds DEF OpenRoot, EndsWith
<1>3. CASE mount = scan.src
  <2>1. scan' = [scan EXCEPT !.pc = "walk", !.todo = Folders] /\ scan \in Scanning
    BY <1>3 DEF OpenRoot, Becomes, ScanInv, ScanTyped
  <2>2. /\ scan'.pc = "walk" /\ scan'.todo = Folders /\ scan' \in Scanning
        /\ scan'.src = scan.src /\ scan'.mode = scan.mode /\ scan'.known = scan.known /\ scan'.times = scan.times
        /\ scan'.listed = scan.listed /\ scan'.fresh = scan.fresh /\ scan'.skipped = scan.skipped
    BY <2>1 DEF Scanning, ScanStages, Walking
  <2>3. GoesOn
    BY <1>1, <2>2 DEF GoesOn
  <2>4. seen = {} /\ scan.listed = {} /\ scan.fresh = {} /\ scan.skipped = {} /\ (\A d \in Folders : ~Timed(d))
        /\ (scan.mode # "quick" => ~scan.known.known)
    BY <1>1 DEF ScanInv, ScanOrder, Blank
  <2>5. Carried' = {} /\ seen' = {}
    BY <1>1, <2>2, <2>4 DEF Carried, Tagging
  <2>6. ScanTyped' /\ TimesGrow' /\ MissingWasAway'
    BY <1>1, <2>2, <2>3, SameCard DEF ScanInv, ScanTyped
  <2>7. ScanOrder'
    BY <2>2, <2>3, <2>4, <2>5, SameCard DEF ScanOrder, Ahead, Batches, Walking
  <2>8. (Covered /\ NoneForgotten)'
    BY <2>2, FoldersOfFiles DEF Covered, NoneForgotten, UnderWay
  <2>9. (EntriesAreTrue /\ SeenHaveRows /\ SeenAreThere /\ SeenAreExact)'
    BY <2>5 DEF EntriesAreTrue, SeenHaveRows, SeenAreThere, SeenAreExact
  <2>10. (SkippedAgree /\ PrunedAgree /\ RecordsHold)'
    BY <1>1, <2>2, <2>4 DEF SkippedAgree, PrunedAgree, RecordsHold, ScanInv, ScanTruth
  <2>11. QED
    BY <2>6, <2>7, <2>8, <2>9, <2>10 DEF ScanInv, ScanTruth
<1>4. QED
  BY <1>2, <1>3
-----------------------------------------------------------------------------
(* The card went away: nothing more is read, and the walk is not complete.  *)
LEMMA GivesUpKeepsIt ==
  ASSUME ScanAssumption, ScanInv, GoesOn, scan.pc = "walk", scan'.pc = "walk", scan'.times = scan.times,
         scan'.todo = {}, ~scan'.complete, scan'.listed \subseteq scan.listed, scan'.fresh = scan.fresh,
         scan'.skipped = scan.skipped, UNCHANGED <<rows, seen, lost>>
  PROVE  ScanInv'
<1>1. ScanTyped' /\ TimesGrow' /\ MissingWasAway'
  BY SameCard DEF ScanInv, ScanTyped
<1>2. Carried' \subseteq Carried /\ Carried \subseteq Entries
  BY DEF Carried, Tagging, ScanInv, ScanTyped, Scanning
<1>3. Ahead /\ Batches
  BY DEF ScanInv, ScanOrder, Walking
<1>4. \A d : Timed(d)' <=> Timed(d)
  BY SameCard
<1>5. Ahead'
  BY <1>2, <1>3, <1>4 DEF Ahead, GoesOn
<1>6. ScanOrder'
  BY <1>3, <1>5 DEF ScanOrder, Batches, GoesOn
<1>7. EntriesAreTrue'
  <2>1. \A e \in Carried' : e \in Carried /\ e[1] \in Files
    BY <1>2 DEF Entries
  <2>2. QED
    BY <2>1, SameCard DEF EntriesAreTrue, ScanInv, ScanTruth, Walking, GoesOn
<1>8. \A f \in Files : (Unread(f)' <=> Unread(f)) /\ Row(f)' = Row(f) /\ (Agrees(f)' <=> Agrees(f))
  BY SameCard DEF Unread, Row, Agrees
<1>9. (SeenHaveRows /\ SeenAreThere /\ SeenAreExact /\ SkippedAgree)'
  BY <1>8, SameCard DEF SeenHaveRows, SeenAreThere, SeenAreExact, SkippedAgree, ScanInv, ScanTruth, Walking, GoesOn,
     ScanTyped, Scanning
<1>10. (Covered /\ NoneForgotten /\ PrunedAgree)'
  BY DEF Covered, NoneForgotten, PrunedAgree
<1>11. RecordsHold'
  BY DEF RecordsHold, ScanInv, ScanTruth, GoesOn
<1>12. QED
  BY <1>1, <1>6, <1>7, <1>9, <1>10, <1>11 DEF ScanInv, ScanTruth

(* A folder is entered: its time is taken, and its record or its files.     *)
LEMMA EnteredKeepsIt ==
  ASSUME ScanAssumption, ScanInv, NEW d \in scan.todo, GoesOn, scan.pc = "walk",
         scan'.todo = scan.todo \ {d}, scan'.times = [scan.times EXCEPT ![d] = times[Home][d]],
         scan'.complete = scan.complete, scan'.listed = scan.listed, scan'.fresh = scan.fresh,
         \/ (Skips(d) /\ scan'.pc = "walk" /\ scan'.skipped = scan.skipped \cup In(d))
         \/ (scan'.pc = "read" /\ scan'.skipped = scan.skipped /\ scan'.batch = In(d)),
         UNCHANGED <<rows, seen, lost>>
  PROVE  ScanInv'
<1>1. ScanTyped' /\ MissingWasAway' /\ Home' = Home /\ Home \in Cards /\ (Trusted' <=> Trusted)
  BY SameCard DEF ScanInv, ScanTyped
<1>2. scan \in Scanning /\ d \in Folders /\ scan.times \in [Folders -> Nat] /\ scan.todo \subseteq Folders
  BY DEF ScanInv, ScanTyped, Scanning
<1>3. times[Home][d] \in Nat \ {0}
  BY <1>1, <1>2 DEF ScanInv, ScanTyped
<1>4. Ahead /\ Batches /\ ~Timed(d)
  BY DEF ScanInv, ScanOrder, Walking, Ahead
<1>5. scan'.times[d] = times[Home][d] /\ Timed(d)' /\ \A k \in Folders \ {d} : scan'.times[k] = scan.times[k] /\ (Timed(k)' <=> Timed(k))
  BY <1>2, <1>3 DEF Timed
<1>6. \A f \in Files : FolderOf[f] \in Folders /\ (f \in In(d) <=> FolderOf[f] = d)
  BY FoldersOfFiles DEF In
<1>7. Carried' = Carried /\ Carried \subseteq Entries
  BY <1>2 DEF Carried, Tagging, Scanning
<1>8. \A e \in Carried : e[1] \in Files /\ e[1] \notin In(d)
  <2>1. \A e \in Carried : e[1] \in Files /\ Timed(FolderOf[e[1]])
    BY <1>4, <1>7 DEF Ahead, Entries
  <2>2. QED
    BY <2>1, <1>4, <1>6
<1>9. \A f \in In(d) : f \in Files /\ f \notin seen /\ f \notin scan.skipped
  BY <1>4 DEF Ahead, In
<1>10. \A f \in Files \ In(d) : Steady(f)' <=> Steady(f)
  BY <1>1, <1>5, <1>6 DEF Steady, GoesOn
<1>11. \A f \in Files : /\ (Unread(f)' <=> Unread(f)) /\ Row(f)' = Row(f) /\ (There(f)' <=> There(f))
                        /\ (disk[Home][f])' = disk[Home][f] /\ (Agrees(f)' <=> Agrees(f))
  BY <1>1, SameCard DEF Unread, Row, Agrees
<1>12. TimesGrow'
  <2>1. record[Home].times[d] <= times[Home][d] /\ scan'.times[d] <= times[Home][d]
    BY <1>1, <1>2, <1>3, <1>5 DEF ScanInv, TimesGrow
  <2>2. \A k \in Folders \ {d} : /\ scan'.times[k] <= times[Home][k]
                                 /\ Timed(k)' => record[Home].times[k] <= scan'.times[k]
    BY <1>5 DEF ScanInv, TimesGrow
  <2>3. \A k \in Folders : /\ scan'.times[k] <= times[Home][k]
                           /\ Timed(k)' => record[Home].times[k] <= scan'.times[k]
    BY <2>1, <2>2, <1>5
  <2>4. QED
    BY <2>3, <1>1 DEF GoesOn, ScanInv, TimesGrow
<1>13. Ahead'
  <2>1. \A f \in Files : ~Timed(FolderOf[f])' => f \notin seen' /\ f \notin scan'.skipped
    BY <1>4, <1>5, <1>6 DEF Ahead
  <2>2. \A e \in Carried' : Timed(FolderOf[e[1]])'
    BY <1>4, <1>5, <1>6, <1>7, <1>8 DEF Ahead
  <2>3. \A k \in scan'.todo : ~Timed(k)'
    BY <1>2, <1>4, <1>5 DEF Ahead
  <2>4. scan'.complete => \A k \in Folders \ scan'.todo : Timed(k)'
    BY <1>4, <1>5 DEF Ahead
  <2>5. QED
    BY <2>1, <2>2, <2>3, <2>4 DEF Ahead
<1>14. Batches'
  <2>1. scan'.pc = "read" => scan'.batch \subseteq Files /\ \A f \in scan'.batch : Timed(FolderOf[f])'
    BY <1>5, <1>6, <1>9
  <2>2. scan'.mode # "quick" => scan'.skipped = {} /\ ~scan'.known.known
    BY <1>4 DEF Batches, Skips, GoesOn
  <2>3. QED
    BY <2>1, <2>2, <1>4 DEF Batches
<1>15. ScanOrder'
  BY <1>13, <1>14 DEF ScanOrder
<1>16. EntriesAreTrue'
  BY <1>7, <1>8, <1>10, <1>11 DEF EntriesAreTrue, ScanInv, ScanTruth, Walking, GoesOn
<1>17. (SeenHaveRows /\ SeenAreThere /\ SeenAreExact)'
  BY <1>1, <1>9, <1>10, <1>11 DEF SeenHaveRows, SeenAreThere, SeenAreExact, ScanInv, ScanTruth, Walking, GoesOn
<1>18. \A f \in Files : UnderWay(f) \/ f \in In(d) => UnderWay(f)'
  BY <1>6, <1>7 DEF UnderWay
<1>19. Covered'
  BY <1>11, <1>18 DEF Covered, ScanInv, ScanTruth, Walking, GoesOn
<1>20. NoneForgotten'
  <2>1. ASSUME scan.complete, Trusted, NEW f \in Files, Steady(f)', There(f)'
        PROVE  Unread(f)' \/ f \in seen' \/ UnderWay(f)'
    <3>1. CASE f \in In(d)
      BY <3>1, <1>18
    <3>2. CASE f \notin In(d)
      BY <3>2, <2>1, <1>10, <1>11, <1>18 DEF ScanInv, ScanTruth, NoneForgotten, Walking
    <3>3. QED
      BY <3>1, <3>2
  <2>2. QED
    BY <2>1, <1>1 DEF NoneForgotten
<1>21. SkippedAgree'
  <2>1. ASSUME StampsFolders, NEW f \in scan'.skipped, Steady(f)' PROVE Agrees(f)'
    <3>1. CASE f \in scan.skipped
      <4>1. f \in Files /\ f \notin In(d)
        BY <3>1, <1>2, <1>9 DEF Scanning
      <4>2. QED
        BY <3>1, <4>1, <2>1, <1>10, <1>11 DEF ScanInv, ScanTruth, SkippedAgree, Walking
    <3>2. CASE f \notin scan.skipped
      <4>1. Skips(d) /\ f \in In(d)
        BY <3>2, <2>1
      <4>2. record[Home].known /\ record[Home].times[d] = times[Home][d]
        BY <4>1 DEF Skips, ScanInv, TimesGrow, Home
      <4>3. Agrees(f)
        BY <4>1, <4>2, <2>1, <1>1, <1>6, <1>9 DEF ScanInv, ScanTruth, RecordsHold, Agrees, Unread, Row, There
      <4>4. QED
        BY <4>1, <4>3, <1>9, <1>11
    <3>3. QED
      BY <3>1, <3>2
  <2>2. QED
    BY <2>1 DEF SkippedAgree
<1>22. PrunedAgree' /\ RecordsHold'
  BY DEF PrunedAgree, RecordsHold, ScanInv, ScanTruth, GoesOn
<1>23. QED
  BY <1>1, <1>12, <1>15, <1>16, <1>17, <1>19, <1>20, <1>21, <1>22 DEF ScanInv, ScanTruth

LEMMA EnterFolderKeepsIt == ASSUME ScanAssumption, ScanInv, NEW d \in Folders, EnterFolder(d) PROVE ScanInv'
<1>1. /\ UNCHANGED <<disk, times, mount, rows, record, lost, request, seen, touched, absent>>
      /\ scan.pc = "walk" /\ d \in scan.todo
  BY DEF EnterFolder, ScanKeeps, cards, library, past
<1>2. scan \in Scanning /\ Home \in Cards
  BY <1>1 DEF ScanInv, ScanTyped, Home
<1>3. CASE ~Current(scan.src)
  <2>1. scan' = [scan EXCEPT !.todo = {}, !.complete = FALSE]
    BY <1>3 DEF EnterFolder, Becomes
  <2>2. /\ scan' \in Scanning /\ scan'.pc = "walk" /\ scan'.src = scan.src /\ scan'.mode = scan.mode
        /\ scan'.known = scan.known /\ scan'.times = scan.times /\ scan'.todo = {} /\ ~scan'.complete
        /\ scan'.listed = scan.listed /\ scan'.fresh = scan.fresh /\ scan'.skipped = scan.skipped
    BY <1>1, <1>2, <2>1 DEF Scanning
  <2>3. GoesOn
    BY <1>1, <2>2 DEF GoesOn
  <2>4. QED
    BY <1>1, <2>2, <2>3, GivesUpKeepsIt
<1>4. CASE Current(scan.src)
  <2> DEFINE now == [scan.times EXCEPT ![d] = times[Home][d]]
  <2>1. times[Home][d] \in Nat /\ In(d) \subseteq Files /\ now \in [Folders -> Nat]
    BY <1>2 DEF ScanInv, ScanTyped, In, Scanning
  <2>2. Entered(d) = [scan EXCEPT !.todo = @ \ {d}, !.times = now]
    BY <1>2 DEF Entered, Home, Scanning
  <2> HIDE DEF now
  <2>3. CASE Skips(d)
    <3>1. scan' = [Entered(d) EXCEPT !.skipped = @ \cup In(d)]
      BY <1>4, <2>3 DEF EnterFolder, Becomes
    <3>2. /\ scan' \in Scanning /\ scan'.pc = "walk" /\ scan'.src = scan.src /\ scan'.mode = scan.mode
          /\ scan'.known = scan.known /\ scan'.times = now /\ scan'.todo = scan.todo \ {d}
          /\ scan'.complete = scan.complete /\ scan'.listed = scan.listed /\ scan'.fresh = scan.fresh
          /\ scan'.skipped = scan.skipped \cup In(d)
      BY <1>1, <1>2, <2>1, <2>2, <3>1, ZenonT(60) DEF Scanning
    <3>3. GoesOn
      BY <1>1, <3>2 DEF GoesOn
    <3>4. QED
      BY <1>1, <2>3, <3>2, <3>3, EnteredKeepsIt DEF now
  <2>4. CASE ~Skips(d)
    <3>1. scan' = [Entered(d) EXCEPT !.pc = "read", !.batch = In(d)]
      BY <1>4, <2>4 DEF EnterFolder, Becomes
    <3>2. /\ scan' \in Scanning /\ scan'.pc = "read" /\ scan'.src = scan.src /\ scan'.mode = scan.mode
          /\ scan'.known = scan.known /\ scan'.times = now /\ scan'.todo = scan.todo \ {d}
          /\ scan'.complete = scan.complete /\ scan'.listed = scan.listed /\ scan'.fresh = scan.fresh
          /\ scan'.skipped = scan.skipped /\ scan'.batch = In(d)
      BY <1>1, <1>2, <2>1, <2>2, <3>1, ZenonT(60) DEF Scanning, ScanStages, Walking
    <3>3. GoesOn
      BY <1>1, <3>2 DEF GoesOn
    <3>4. QED
      BY <1>1, <3>2, <3>3, EnteredKeepsIt DEF now
  <2>5. QED
    BY <2>3, <2>4
<1>5. QED
  BY <1>3, <1>4
-----------------------------------------------------------------------------
LEMMA ReadFolderKeepsIt == ASSUME ScanAssumption, ScanInv, ReadFolder PROVE ScanInv'
<1> DEFINE read == IF mount = scan.src
                     THEN {<<f, disk[Home][f]>> : f \in scan.batch \cap Present(Home)} ELSE {}
<1>1. UNCHANGED <<disk, times, mount, rows, record, lost, request, seen, touched, absent>> /\ scan.pc = "read"
  BY DEF ReadFolder, ScanKeeps, cards, library, past
<1>2. scan \in Scanning /\ Home \in Cards /\ Ahead /\ Batches
  BY <1>1 DEF ScanInv, ScanTyped, Home, ScanOrder, Walking
<1>3. scan.batch \subseteq Files /\ \A f \in scan.batch : Timed(FolderOf[f])
  BY <1>1, <1>2 DEF Batches
<1>4. \A f \in Files : disk[Home][f] \in 0..9 /\ (f \in Present(Home) <=> There(f))
  BY <1>2 DEF ScanInv, ScanTyped, Present, There
<1>5. read \subseteq Entries /\ \A e \in read : e[1] \in scan.batch /\ There(e[1]) /\ e[2] = disk[Home][e[1]]
  BY <1>3, <1>4 DEF Entries
<1>6. scan' = [scan EXCEPT !.pc = "walk", !.batch = {}, !.listed = @ \cup read, !.complete = @ /\ mount = scan.src]
  BY DEF ReadFolder, Becomes, Home
<1>7. mount = scan.src => \A f \in scan.batch : There(f) => <<f, disk[Home][f]>> \in read
  BY <1>3, <1>4
<1> HIDE DEF read
<1>8. /\ scan' \in Scanning /\ scan'.pc = "walk" /\ scan'.src = scan.src /\ scan'.mode = scan.mode
      /\ scan'.known = scan.known /\ scan'.times = scan.times /\ scan'.todo = scan.todo
      /\ (scan'.complete <=> scan.complete /\ mount = scan.src) /\ scan'.listed = scan.listed \cup read
      /\ scan'.fresh = scan.fresh /\ scan'.skipped = scan.skipped
  BY <1>2, <1>5, <1>6 DEF Scanning, ScanStages, Walking
<1>9. GoesOn
  BY <1>1, <1>8 DEF GoesOn
<1>10. ScanTyped' /\ TimesGrow' /\ MissingWasAway' /\ (Trusted' <=> Trusted)
  BY <1>1, <1>8, <1>9, SameCard DEF ScanInv, ScanTyped
<1>11. Carried' = Carried \cup read /\ Carried \subseteq Entries
  BY <1>1, <1>2, <1>8 DEF Carried, Tagging, Scanning
<1>12. \A d : Timed(d)' <=> Timed(d)
  BY <1>8, <1>9, SameCard
<1>13. Ahead'
  BY <1>1, <1>2, <1>3, <1>5, <1>8, <1>11, <1>12 DEF Ahead
<1>14. ScanOrder'
  BY <1>1, <1>2, <1>8, <1>13 DEF ScanOrder, Batches
<1>15. \A f \in Files : /\ (Unread(f)' <=> Unread(f)) /\ Row(f)' = Row(f) /\ (There(f)' <=> There(f))
                        /\ (Steady(f)' <=> Steady(f)) /\ (disk[Home][f])' = disk[Home][f] /\ (Agrees(f)' <=> Agrees(f))
  BY <1>1, <1>8, <1>9, SameCard DEF Unread, Row, Agrees
<1>16. EntriesAreTrue'
  <2>1. ASSUME NEW e \in Carried'
        PROVE  e[2] # 0 /\ (Steady(e[1])' => There(e[1])') /\ (e[1] \notin touched' => e[2] = (disk[Home][e[1]])')
    <3>1. CASE e \in Carried
      BY <3>1, <1>1, <1>11, <1>15 DEF Entries, EntriesAreTrue, ScanInv, ScanTruth, Walking
    <3>2. CASE e \in read
      BY <3>2, <1>3, <1>5, <1>15 DEF There
    <3>3. QED
      BY <3>1, <3>2, <1>11
  <2>2. QED
    BY <2>1 DEF EntriesAreTrue
<1>17. (SeenHaveRows /\ SeenAreThere /\ SeenAreExact /\ SkippedAgree)'
  BY <1>1, <1>2, <1>8, <1>10, <1>15 DEF SeenHaveRows, SeenAreThere, SeenAreExact, SkippedAgree, ScanInv, ScanTruth,
     Walking, Scanning
<1>18. ASSUME scan'.complete, NEW f \in Files, UnderWay(f) PROVE UnderWay(f)' \/ (~There(f) /\ f \in absent)
  <2>1. CASE f \in scan.batch /\ There(f)
    <3>1. <<f, disk[Home][f]>> \in Carried'
      BY <2>1, <1>7, <1>8, <1>11, <1>18
    <3>2. QED
      BY <3>1 DEF UnderWay
  <2>2. CASE f \in scan.batch /\ ~There(f)
    BY <2>2, <1>1 DEF ScanInv, ScanTruth, MissingWasAway
  <2>3. CASE f \notin scan.batch
    BY <2>3, <1>1, <1>8, <1>11, <1>18 DEF UnderWay
  <2>4. QED
    BY <2>1, <2>2, <2>3
<1>19. (Covered /\ NoneForgotten)'
  BY <1>1, <1>8, <1>10, <1>15, <1>18 DEF Covered, NoneForgotten, ScanInv, ScanTruth, Walking
<1>20. PrunedAgree' /\ RecordsHold'
  BY <1>1, <1>8 DEF PrunedAgree, RecordsHold, ScanInv, ScanTruth
<1>21. QED
  BY <1>10, <1>14, <1>16, <1>17, <1>19, <1>20 DEF ScanInv, ScanTruth

LEMMA ProbeKeepsIt == ASSUME ScanAssumption, ScanInv, Probe PROVE ScanInv'
<1>1. UNCHANGED <<disk, times, mount, rows, record, lost, request, touched, absent>> /\ scan.pc = "walk"
  BY DEF Probe, ScanKeeps, cards, past
<1>2. scan \in Scanning /\ Home \in Cards /\ Ahead /\ Batches
  BY <1>1 DEF ScanInv, ScanTyped, Home, ScanOrder, Walking
<1>3. CASE ~Current(scan.src)
  <2>1. scan' = [scan EXCEPT !.listed = {}, !.todo = {}, !.complete = FALSE] /\ seen' = seen
    BY <1>3 DEF Probe, Becomes
  <2>2. /\ scan' \in Scanning /\ scan'.pc = "walk" /\ scan'.src = scan.src /\ scan'.mode = scan.mode
        /\ scan'.known = scan.known /\ scan'.times = scan.times /\ scan'.todo = {} /\ ~scan'.complete
        /\ scan'.listed = {} /\ scan'.fresh = scan.fresh /\ scan'.skipped = scan.skipped
    BY <1>1, <1>2, <2>1 DEF Scanning
  <2>3. GoesOn
    BY <1>1, <2>2 DEF GoesOn
  <2>4. QED
    BY <1>1, <2>1, <2>2, <2>3, GivesUpKeepsIt
<1>4. CASE Current(scan.src)
  <2> DEFINE rest == {e \in scan.listed : ~Reused(e)}
             reused == {e[1] : e \in {x \in scan.listed : Reused(x)}}
  <2>1. scan' = [scan EXCEPT !.pc = "tags", !.listed = {}, !.batch = rest] /\ seen' = seen \cup reused
    BY <1>4 DEF Probe, Becomes
  <2>2. rest \subseteq scan.listed /\ scan.listed \subseteq Entries
    BY <1>2 DEF Scanning
  <2>3. \A e \in scan.listed : e \in rest \/ (e[1] \in reused /\ Row(e[1]) = e[2])
    BY DEF Reused, Row, Home
  <2>4. \A f \in reused : \E e \in scan.listed : f = e[1] /\ Row(f) = e[2]
    BY DEF Reused, Row, Home
  <2> HIDE DEF rest, reused
  <2>5. /\ scan' \in Scanning /\ scan'.pc = "tags" /\ scan'.src = scan.src /\ scan'.mode = scan.mode
        /\ scan'.known = scan.known /\ scan'.times = scan.times /\ scan'.todo = scan.todo
        /\ scan'.complete = scan.complete /\ scan'.listed = {} /\ scan'.fresh = scan.fresh
        /\ scan'.skipped = scan.skipped /\ scan'.batch = rest
    BY <1>2, <2>1, <2>2 DEF Scanning, ScanStages, Walking
  <2>6. GoesOn
    BY <1>1, <2>5 DEF GoesOn
  <2>7. ScanTyped' /\ TimesGrow' /\ MissingWasAway' /\ (Trusted' <=> Trusted)
    BY <1>1, <2>5, <2>6, SameCard DEF ScanInv, ScanTyped
  <2>8. Carried = scan.listed /\ Carried' = rest
    BY <1>1, <1>2, <2>5 DEF Carried, Tagging, Batches
  <2>9. \A d : Timed(d)' <=> Timed(d)
    BY <2>5, <2>6, SameCard
  <2>10. Ahead'
    <3>1. \A f \in reused : Timed(FolderOf[f])
      BY <1>2, <2>4, <2>8 DEF Ahead
    <3>2. QED
      BY <1>2, <2>1, <2>2, <2>5, <2>8, <2>9, <3>1 DEF Ahead
  <2>11. ScanOrder'
    BY <1>1, <1>2, <2>2, <2>5, <2>10 DEF ScanOrder, Batches
  <2>12. \A f \in Files : /\ (Unread(f)' <=> Unread(f)) /\ Row(f)' = Row(f) /\ (There(f)' <=> There(f))
                          /\ (Steady(f)' <=> Steady(f)) /\ (disk[Home][f])' = disk[Home][f]
                          /\ (Agrees(f)' <=> Agrees(f))
    BY <1>1, <2>5, <2>6, SameCard DEF Unread, Row, Agrees
  <2>13. \A e \in scan.listed : /\ e[1] \in Files /\ e[2] # 0 /\ (Steady(e[1]) => There(e[1]))
                                /\ (e[1] \notin touched => e[2] = disk[Home][e[1]])
    BY <1>1, <2>2, <2>8 DEF Entries, EntriesAreTrue, ScanInv, ScanTruth, Walking
  <2>14. EntriesAreTrue'
    BY <1>1, <2>2, <2>8, <2>12, <2>13 DEF EntriesAreTrue
  <2>15. ASSUME NEW f \in Files, f \in seen'
         PROVE  /\ Row(f) # 0
                /\ Trusted /\ Steady(f) => Unread(f) \/ There(f)
                /\ scan.mode # "quick" /\ f \notin touched => Unread(f) \/ Row(f) = disk[Home][f]
    <3>1. CASE f \in seen
      BY <3>1, <1>1 DEF ScanInv, ScanTruth, SeenHaveRows, SeenAreThere, SeenAreExact, Walking
    <3>2. CASE f \in reused
      <4>1. PICK e \in scan.listed : f = e[1] /\ Row(f) = e[2]
        BY <3>2, <2>4
      <4>2. QED
        BY <4>1, <2>13
    <3>3. QED
      BY <2>1, <2>15, <3>1, <3>2
  <2>16. (SeenHaveRows /\ SeenAreThere /\ SeenAreExact)'
    BY <1>1, <2>5, <2>7, <2>12, <2>15 DEF SeenHaveRows, SeenAreThere, SeenAreExact
  <2>17. SkippedAgree'
    BY <1>1, <1>2, <2>5, <2>12 DEF SkippedAgree, ScanInv, ScanTruth, Walking, Scanning
  <2>18. ASSUME NEW f \in Files, UnderWay(f) PROVE UnderWay(f)' \/ f \in seen'
    <3>1. ASSUME NEW e \in scan.listed, e[1] = f PROVE UnderWay(f)' \/ f \in seen'
      BY <3>1, <2>1, <2>3, <2>8 DEF UnderWay
    <3>2. CASE FolderOf[f] \in scan.todo \/ f \in scan.skipped
      BY <3>2, <2>5 DEF UnderWay
    <3>3. QED
      BY <1>1, <2>8, <2>18, <3>1, <3>2 DEF UnderWay
  <2>19. (Covered /\ NoneForgotten)'
    BY <1>1, <2>1, <2>5, <2>7, <2>12, <2>18 DEF Covered, NoneForgotten, ScanInv, ScanTruth, Walking
  <2>20. PrunedAgree' /\ RecordsHold'
    BY <1>1, <2>5 DEF PrunedAgree, RecordsHold, ScanInv, ScanTruth
  <2>21. QED
    BY <2>7, <2>11, <2>14, <2>16, <2>17, <2>19, <2>20 DEF ScanInv, ScanTruth
<1>5. QED
  BY <1>3, <1>4
-----------------------------------------------------------------------------
LEMMA ReadTagsKeepsIt == ASSUME ScanAssumption, ScanInv, ReadTags PROVE ScanInv'
<1>1. UNCHANGED <<disk, times, mount, rows, record, request, touched, absent>> /\ scan.pc = "tags"
  BY DEF ReadTags, ScanKeeps, cards
<1>2. scan \in Scanning /\ Home \in Cards /\ Ahead /\ Batches
  BY <1>1 DEF ScanInv, ScanTyped, Home, ScanOrder, Walking
<1>3. scan.batch \subseteq Entries /\ scan.fresh = {}
  BY <1>1, <1>2 DEF Batches
<1>4. PICK read \in [scan.batch -> {"ok", "failed", "changed"}] :
        LET bad == {e \in scan.batch : read[e] = "failed"} IN
        /\ lost' = lost \cup {<<Home, e[1]>> : e \in bad}
        /\ seen' = seen \cup Retained(bad)
        /\ scan' = [scan EXCEPT !.pc = "publish", !.batch = {}, !.fresh = {e \in scan.batch : read[e] = "ok"},
                                !.complete = @ /\ \A e \in scan.batch : read[e] # "changed"]
  BY DEF ReadTags, Becomes, Home
<1> DEFINE bad == {e \in scan.batch : read[e] = "failed"}
           ok == {e \in scan.batch : read[e] = "ok"}
           retained == Retained(bad)
<1>5. /\ lost' = lost \cup {<<Home, e[1]>> : e \in bad} /\ seen' = seen \cup retained
      /\ scan' = [scan EXCEPT !.pc = "publish", !.batch = {}, !.fresh = ok,
                              !.complete = @ /\ \A e \in scan.batch : read[e] # "changed"]
  BY <1>4
<1>6. bad \subseteq scan.batch /\ ok \subseteq scan.batch
      /\ (\A e \in scan.batch : e \in ok \/ e \in bad \/ read[e] = "changed")
  OBVIOUS
<1>7. /\ \A f \in retained : (\E e \in bad : e[1] = f) /\ Row(f) # 0
      /\ \A e \in bad : Row(e[1]) = 0 \/ e[1] \in retained
  BY DEF Retained, Row, Home
<1> HIDE DEF bad, ok, retained
<1>8. /\ scan' \in Scanning /\ scan'.pc = "publish" /\ scan'.src = scan.src /\ scan'.mode = scan.mode
      /\ scan'.known = scan.known /\ scan'.times = scan.times /\ scan'.todo = scan.todo
      /\ (scan'.complete => scan.complete /\ \A e \in scan.batch : e \in ok \/ e \in bad)
      /\ scan'.listed = scan.listed /\ scan'.fresh = ok /\ scan'.skipped = scan.skipped
  BY <1>2, <1>3, <1>5, <1>6 DEF Scanning, ScanStages, Walking
<1>9. GoesOn
  BY <1>1, <1>8 DEF GoesOn
<1>10. ScanTyped' /\ TimesGrow' /\ MissingWasAway' /\ (Trusted' <=> Trusted) /\ Home' = Home
  BY <1>1, <1>8, <1>9, SameCard DEF ScanInv, ScanTyped
<1>11. Carried = scan.listed \cup scan.batch /\ Carried' = scan.listed \cup ok /\ Carried \subseteq Entries
  BY <1>1, <1>2, <1>3, <1>8 DEF Carried, Tagging, Scanning
<1>12. \A d : Timed(d)' <=> Timed(d)
  BY <1>8, <1>9, SameCard
<1>13. \A e \in Carried : e[1] \in Files
  BY <1>11 DEF Entries
<1>14. \A f \in retained : Timed(FolderOf[f])
  BY <1>2, <1>6, <1>7, <1>11 DEF Ahead
<1>15. Ahead'
  BY <1>2, <1>5, <1>6, <1>8, <1>11, <1>12, <1>14 DEF Ahead
<1>16. ScanOrder'
  BY <1>1, <1>2, <1>8, <1>15 DEF ScanOrder, Batches
<1>17. \A f \in Files : /\ (Unread(f) => Unread(f)') /\ Row(f)' = Row(f) /\ (There(f)' <=> There(f))
                        /\ (Steady(f)' <=> Steady(f)) /\ (disk[Home][f])' = disk[Home][f] /\ (Agrees(f) => Agrees(f)')
  BY <1>1, <1>5, <1>8, <1>9, <1>10, SameCard DEF Unread, Row, Agrees
<1>18. \A e \in bad : Unread(e[1])'
  BY <1>5, <1>10 DEF Unread
<1>19. EntriesAreTrue'
  BY <1>1, <1>6, <1>11, <1>13, <1>17 DEF EntriesAreTrue, ScanInv, ScanTruth, Walking
<1>20. ASSUME NEW f \in Files, f \in seen'
       PROVE  /\ Row(f) # 0
              /\ Trusted /\ Steady(f) => Unread(f)' \/ There(f)
              /\ scan.mode # "quick" /\ f \notin touched => Unread(f)' \/ Row(f) = disk[Home][f]
  <2>1. CASE f \in seen
    BY <2>1, <1>1, <1>17 DEF ScanInv, ScanTruth, SeenHaveRows, SeenAreThere, SeenAreExact, Walking
  <2>2. CASE f \in retained
    BY <2>2, <1>7, <1>18
  <2>3. QED
    BY <1>5, <1>20, <2>1, <2>2
<1>21. (SeenHaveRows /\ SeenAreThere /\ SeenAreExact)'
  BY <1>1, <1>8, <1>10, <1>17, <1>20 DEF SeenHaveRows, SeenAreThere, SeenAreExact
<1>22. SkippedAgree'
  BY <1>1, <1>2, <1>8, <1>17 DEF SkippedAgree, ScanInv, ScanTruth, Walking, Scanning
<1>23. ASSUME scan'.complete, NEW f \in Files, UnderWay(f)
       PROVE  /\ UnderWay(f)' \/ f \in seen' \/ Row(f) = 0
              /\ UnderWay(f)' \/ Unread(f)'
  <2>1. ASSUME NEW e \in scan.batch, e[1] = f
        PROVE  UnderWay(f)' \/ ((f \in seen' \/ Row(f) = 0) /\ Unread(f)')
    <3>1. CASE e \in ok
      BY <3>1, <2>1, <1>11 DEF UnderWay
    <3>2. CASE e \in bad
      BY <3>2, <2>1, <1>5, <1>7, <1>18
    <3>3. QED
      BY <3>1, <3>2, <1>8, <1>23
  <2>2. CASE FolderOf[f] \in scan.todo \/ f \in scan.skipped \/ \E e \in scan.listed : e[1] = f
    BY <2>2, <1>8, <1>11 DEF UnderWay
  <2>3. QED
    BY <1>1, <1>11, <1>23, <2>1, <2>2 DEF UnderWay
<1>24. Covered'
  BY <1>1, <1>5, <1>8, <1>17, <1>23 DEF Covered, ScanInv, ScanTruth, Walking
<1>25. NoneForgotten'
  BY <1>1, <1>5, <1>8, <1>10, <1>17, <1>23 DEF NoneForgotten, ScanInv, ScanTruth, Walking
<1>26. PrunedAgree'
  BY <1>8 DEF PrunedAgree
<1>27. RecordsHold'
  BY <1>1, <1>5 DEF RecordsHold, ScanInv, ScanTruth
<1>28. QED
  BY <1>10, <1>16, <1>19, <1>21, <1>22, <1>24, <1>25, <1>26, <1>27 DEF ScanInv, ScanTruth

(* The database write of a batch, and the batch that is not written.        *)
LEMMA NotPublishedKeepsIt ==
  ASSUME ScanAssumption, ScanInv, GoesOn, scan.pc = "publish", scan'.pc = "walk", scan'.times = scan.times,
         scan'.todo = scan.todo, scan'.listed = scan.listed, scan'.fresh = {}, scan'.skipped = scan.skipped,
         scan'.complete => scan.complete /\ scan.fresh = {}, UNCHANGED <<rows, seen, lost>>
  PROVE  ScanInv'
<1>1. ScanTyped' /\ TimesGrow' /\ MissingWasAway' /\ (Trusted' <=> Trusted)
  BY SameCard DEF ScanInv, ScanTyped
<1>2. Carried' \subseteq Carried /\ Carried \subseteq Entries /\ (scan'.complete => Carried' = Carried)
  BY DEF Carried, Tagging, ScanInv, ScanTyped, Scanning
<1>3. Ahead /\ Batches
  BY DEF ScanInv, ScanOrder, Walking
<1>4. Ahead'
  BY <1>2, <1>3, SameCard DEF Ahead, GoesOn
<1>5. ScanOrder'
  BY <1>3, <1>4 DEF ScanOrder, Batches, GoesOn
<1>6. EntriesAreTrue'
  <2>1. \A e \in Carried' : e \in Carried /\ e[1] \in Files
    BY <1>2 DEF Entries
  <2>2. QED
    BY <2>1, SameCard DEF EntriesAreTrue, ScanInv, ScanTruth, Walking, GoesOn
<1>7. \A f \in Files : (Unread(f)' <=> Unread(f)) /\ Row(f)' = Row(f) /\ (Agrees(f)' <=> Agrees(f))
  BY SameCard DEF Unread, Row, Agrees
<1>8. (SeenHaveRows /\ SeenAreThere /\ SeenAreExact /\ SkippedAgree)'
  BY <1>7, SameCard DEF SeenHaveRows, SeenAreThere, SeenAreExact, SkippedAgree, ScanInv, ScanTruth, Walking, GoesOn,
     ScanTyped, Scanning
<1>9. scan'.complete => \A f \in Files : UnderWay(f) => UnderWay(f)'
  BY <1>2 DEF UnderWay
<1>10. (Covered /\ NoneForgotten /\ PrunedAgree)'
  BY <1>1, <1>7, <1>9, SameCard DEF Covered, NoneForgotten, PrunedAgree, ScanInv, ScanTruth, Walking, GoesOn
<1>11. RecordsHold'
  BY DEF RecordsHold, ScanInv, ScanTruth, GoesOn
<1>12. QED
  BY <1>1, <1>5, <1>6, <1>8, <1>10, <1>11 DEF ScanInv, ScanTruth

FreshFiles == {e[1] : e \in scan.fresh}
LEMMA WrittenRows ==
  ASSUME ScanTyped, scan.pc = "publish"
  PROVE  /\ Written \in [Cards -> [Files -> 0..9]]
         /\ \A c \in Cards, f \in Files : c # Home \/ f \notin FreshFiles => Written[c][f] = rows[c][f]
         /\ \A f \in FreshFiles : f \in Files /\ \E e \in scan.fresh : e[1] = f /\ Written[Home][f] = e[2]
<1>1. scan \in Scanning /\ Home \in Cards /\ scan.fresh \subseteq Entries
  BY DEF ScanTyped, Scanning, Home
<1>2. \A f \in Files : /\ Fresh(f) = {} <=> f \notin FreshFiles
                       /\ \A v \in Fresh(f) : \E e \in scan.fresh : e[1] = f /\ v = e[2]
  BY <1>1 DEF Fresh, FreshFiles
<1> DEFINE row(f) == IF Fresh(f) = {} THEN rows[Home][f] ELSE CHOOSE v \in Fresh(f) : TRUE
<1>3. \A f \in Files : row(f) \in 0..9
  BY <1>1, <1>2 DEF Entries, ScanTyped
<1>4. Written = [rows EXCEPT ![Home] = [f \in Files |-> row(f)]]
  BY <1>1, SMTT(30) DEF Written, Home, ScanTyped
<1>5. \A f \in FreshFiles : f \in Files /\ \E e \in scan.fresh : e[1] = f /\ row(f) = e[2]
  BY <1>1, <1>2 DEF FreshFiles, Entries
<1>6. \A f \in Files : f \notin FreshFiles => row(f) = rows[Home][f]
  BY <1>2, SMTT(30)
<1> HIDE DEF row
<1>7. rows \in [Cards -> [Files -> 0..9]]
  BY DEF ScanTyped
<1>8. Written \in [Cards -> [Files -> 0..9]] /\ (\A f \in Files : Written[Home][f] = row(f))
      /\ \A c \in Cards : c # Home => Written[c] = rows[c]
  BY <1>1, <1>3, <1>4, <1>7
<1>9. QED
  BY <1>5, <1>6, <1>8

LEMMA PublishedKeepsIt ==
  ASSUME ScanAssumption, ScanInv, GoesOn, scan.pc = "publish", scan'.pc = "walk", scan'.times = scan.times,
         scan'.todo = scan.todo, scan'.listed = scan.listed, scan'.fresh = {}, scan'.skipped = scan.skipped,
         scan'.complete = scan.complete, rows' = Written, seen' = seen \cup FreshFiles,
         lost' = lost \ {<<Home, e[1]>> : e \in scan.fresh}
  PROVE  ScanInv'
<1>1. scan \in Scanning /\ Home \in Cards /\ Ahead /\ Batches
  BY DEF ScanInv, ScanTyped, Home, ScanOrder, Walking
<1>2. rows' \in [Cards -> [Files -> 0..9]]
  BY WrittenRows DEF ScanInv
<1>3. ScanTyped' /\ TimesGrow' /\ MissingWasAway' /\ (Trusted' <=> Trusted) /\ Home' = Home
  BY <1>2, SameCard
<1>4. Carried = scan.listed \cup scan.fresh /\ Carried' = scan.listed /\ Carried \subseteq Entries
  BY <1>1 DEF Carried, Tagging, Scanning
<1>5. \A d : Timed(d)' <=> Timed(d)
  BY SameCard
<1>6. \A f \in FreshFiles : f \in Files /\ Timed(FolderOf[f])
  BY <1>1, <1>4, WrittenRows DEF Ahead, FreshFiles, ScanInv
<1>7. Ahead'
  BY <1>1, <1>4, <1>5, <1>6 DEF Ahead
<1>8. ScanOrder'
  BY <1>1, <1>7 DEF ScanOrder, Batches, GoesOn
<1>9. \A f \in Files : /\ (There(f)' <=> There(f)) /\ (Steady(f)' <=> Steady(f))
                       /\ (disk[Home][f])' = disk[Home][f]
  BY SameCard
<1>10. \A e \in Carried : /\ e[1] \in Files /\ e[2] # 0 /\ (Steady(e[1]) => There(e[1]))
                          /\ (e[1] \notin touched => e[2] = disk[Home][e[1]])
  BY <1>4 DEF Entries, EntriesAreTrue, ScanInv, ScanTruth, Walking
<1>11. \A f \in FreshFiles : /\ Row(f)' # 0 /\ (Steady(f) => There(f))
                             /\ (f \notin touched => Row(f)' = disk[Home][f])
  <2>1. ASSUME NEW f \in FreshFiles
        PROVE  Row(f)' # 0 /\ (Steady(f) => There(f)) /\ (f \notin touched => Row(f)' = disk[Home][f])
    <3>1. PICK e \in scan.fresh : e[1] = f /\ Written[Home][f] = e[2]
      BY WrittenRows DEF ScanInv
    <3>2. Row(f)' = e[2] /\ e \in Carried
      BY <3>1, <1>3, <1>4 DEF Row
    <3>3. QED
      BY <3>1, <3>2, <1>10
  <2>2. QED
    BY <2>1
<1>12. \A f \in Files : f \notin FreshFiles =>
         (Unread(f)' <=> Unread(f)) /\ Row(f)' = Row(f) /\ (Agrees(f)' <=> Agrees(f))
  <2>1. \A f \in Files : f \notin FreshFiles => (Unread(f)' <=> Unread(f))
    BY <1>3 DEF Unread, FreshFiles
  <2>2. \A f \in Files : f \notin FreshFiles => Row(f)' = Row(f)
    BY <1>1, <1>3, WrittenRows DEF Row, ScanInv
  <2>3. QED
    BY <2>1, <2>2, <1>9 DEF Agrees
<1>13. EntriesAreTrue'
  BY <1>4, <1>9, <1>10 DEF EntriesAreTrue, GoesOn
<1>14. ASSUME NEW f \in Files, f \in seen'
       PROVE  /\ Row(f)' # 0
              /\ Trusted /\ Steady(f) => Unread(f)' \/ There(f)
              /\ scan.mode # "quick" /\ f \notin touched => Unread(f)' \/ Row(f)' = disk[Home][f]
  <2>1. CASE f \in FreshFiles
    BY <2>1, <1>11
  <2>2. CASE f \notin FreshFiles
    BY <2>2, <1>12, <1>14 DEF ScanInv, ScanTruth, SeenHaveRows, SeenAreThere, SeenAreExact, Walking
  <2>3. QED
    BY <2>1, <2>2
<1>15. (SeenHaveRows /\ SeenAreThere /\ SeenAreExact)'
  BY <1>3, <1>9, <1>14 DEF SeenHaveRows, SeenAreThere, SeenAreExact, GoesOn
<1>16. \A f \in Files : UnderWay(f) => UnderWay(f)' \/ f \in FreshFiles
  BY <1>4 DEF UnderWay, FreshFiles
<1>17. Covered'
  BY <1>12, <1>16 DEF Covered, ScanInv, ScanTruth, Walking, GoesOn
<1>18. NoneForgotten'
  BY <1>3, <1>9, <1>12, <1>16 DEF NoneForgotten, ScanInv, ScanTruth, Walking, GoesOn
<1>19. SkippedAgree' /\ PrunedAgree'
  <2>1. ASSUME StampsFolders, NEW f \in scan.skipped, Steady(f)' PROVE Agrees(f)'
    <3>1. f \in Files
      BY <1>1 DEF Scanning
    <3>2. CASE f \in FreshFiles
      BY <3>1, <3>2, <2>1, <1>9, <1>11 DEF Agrees
    <3>3. CASE f \notin FreshFiles
      BY <3>1, <3>3, <2>1, <1>9, <1>12 DEF SkippedAgree, ScanInv, ScanTruth, Walking
    <3>4. QED
      BY <3>2, <3>3
  <2>2. QED
    BY <2>1 DEF SkippedAgree, PrunedAgree
<1>20. RecordsHold'
  <2>1. SUFFICES ASSUME StampsFolders, NEW c \in Cards, NEW f \in Files,
                        record[c].known, record[c].times[FolderOf[f]] = times[c][FolderOf[f]]
                 PROVE  <<c, f>> \in lost' \/ (rows'[c][f] # 0 <=> disk[c][f] # 0)
    BY DEF RecordsHold, GoesOn
  <2>2. <<c, f>> \in lost \/ (rows[c][f] # 0 <=> disk[c][f] # 0)
    BY <2>1 DEF ScanInv, ScanTruth, RecordsHold
  <2>3. CASE c = Home /\ f \in FreshFiles
    <3>1. FolderOf[f] \in Folders /\ Timed(FolderOf[f])
      BY <2>3, <1>6, FoldersOfFiles
    <3>2. record[c].times[FolderOf[f]] <= scan.times[FolderOf[f]] /\ scan.times[FolderOf[f]] <= times[c][FolderOf[f]]
      BY <2>3, <3>1 DEF ScanInv, TimesGrow
    <3>3. scan.times[FolderOf[f]] \in Nat /\ times[c][FolderOf[f]] \in Nat
      BY <1>1, <3>1 DEF Scanning, ScanInv, ScanTyped
    <3>4. Steady(f)
      BY <2>1, <2>3, <3>1, <3>2, <3>3 DEF Steady
    <3>5. QED
      BY <2>3, <3>4, <1>3, <1>11 DEF Row, There
  <2>4. CASE ~(c = Home /\ f \in FreshFiles)
    <3>1. rows'[c][f] = rows[c][f]
      BY <2>4, WrittenRows DEF ScanInv
    <3>2. <<c, f>> \in lost => <<c, f>> \in lost'
      BY <2>4 DEF FreshFiles
    <3>3. QED
      BY <2>2, <3>1, <3>2
  <2>5. QED
    BY <2>3, <2>4
<1>21. QED
  BY <1>3, <1>8, <1>13, <1>15, <1>17, <1>18, <1>19, <1>20 DEF ScanInv, ScanTruth

LEMMA PublishKeepsIt == ASSUME ScanAssumption, ScanInv, Publish PROVE ScanInv'
<1>1. UNCHANGED <<disk, times, mount, record, request, touched, absent>> /\ scan.pc = "publish"
  BY DEF Publish, ScanKeeps, cards
<1>2. scan \in Scanning
  BY DEF ScanInv, ScanTyped
<1>3. CASE /\ scan' = [scan EXCEPT !.pc = "walk", !.fresh = {}, !.complete = @ /\ scan.fresh = {}]
           /\ UNCHANGED <<rows, seen, lost>>
  <2>1. /\ scan' \in Scanning /\ scan'.pc = "walk" /\ scan'.src = scan.src /\ scan'.mode = scan.mode
        /\ scan'.known = scan.known /\ scan'.times = scan.times /\ scan'.todo = scan.todo
        /\ (scan'.complete => scan.complete /\ scan.fresh = {})
        /\ scan'.listed = scan.listed /\ scan'.fresh = {} /\ scan'.skipped = scan.skipped
    BY <1>2, <1>3 DEF Scanning, ScanStages, Walking
  <2>2. GoesOn
    BY <1>1, <2>1 DEF GoesOn
  <2>3. QED
    BY <1>1, <1>3, <2>1, <2>2, NotPublishedKeepsIt
<1>4. CASE /\ scan' = [scan EXCEPT !.pc = "walk", !.fresh = {}]
           /\ rows' = Written /\ seen' = seen \cup {e[1] : e \in scan.fresh}
           /\ lost' = lost \ {<<scan.src.card, e[1]>> : e \in scan.fresh}
  <2>1. /\ scan' \in Scanning /\ scan'.pc = "walk" /\ scan'.src = scan.src /\ scan'.mode = scan.mode
        /\ scan'.known = scan.known /\ scan'.times = scan.times /\ scan'.todo = scan.todo
        /\ scan'.complete = scan.complete
        /\ scan'.listed = scan.listed /\ scan'.fresh = {} /\ scan'.skipped = scan.skipped
    BY <1>2, <1>4 DEF Scanning, ScanStages, Walking
  <2>2. GoesOn
    BY <1>1, <2>1 DEF GoesOn
  <2>3. QED
    BY <1>1, <1>4, <2>1, <2>2, PublishedKeepsIt DEF FreshFiles, Home
<1>5. CASE scan' = NoScan /\ UNCHANGED <<rows, seen, lost>>
  BY <1>1, <1>5, ScanEnds
<1>6. QED
  BY <1>3, <1>4, <1>5 DEF Publish, Becomes, EndsWith

-----------------------------------------------------------------------------
LEMMA SeenFoldersKeepsIt == ASSUME ScanAssumption, ScanInv, SeenFolders PROVE ScanInv'
<1>1. UNCHANGED <<disk, times, mount, rows, record, lost, request, touched, absent>>
      /\ scan.pc = "walk" /\ scan.todo = {} /\ scan.listed = {}
  BY DEF SeenFolders, ScanKeeps, cards, past
<1>2. scan \in Scanning /\ Home \in Cards /\ Ahead /\ Batches
  BY <1>1 DEF ScanInv, ScanTyped, Home, ScanOrder, Walking
<1>3. seen' = seen \cup {f \in scan.skipped : Row(f) # 0}
  BY DEF SeenFolders, Row, Home
<1>4. scan' = [scan EXCEPT !.pc = "finish", !.complete = @ /\ Current(scan.src)]
  BY DEF SeenFolders, Becomes
<1>5. /\ scan' \in Scanning /\ scan'.pc = "finish" /\ scan'.src = scan.src /\ scan'.mode = scan.mode
      /\ scan'.known = scan.known /\ scan'.times = scan.times /\ scan'.todo = {}
      /\ (scan'.complete => scan.complete) /\ scan'.listed = {} /\ scan'.fresh = scan.fresh
      /\ scan'.skipped = scan.skipped
  BY <1>1, <1>2, <1>4 DEF Scanning, ScanStages, Walking
<1>6. GoesOn
  BY <1>1, <1>5 DEF GoesOn
<1>7. ScanTyped' /\ TimesGrow' /\ MissingWasAway' /\ (Trusted' <=> Trusted)
  BY <1>1, <1>5, <1>6, SameCard DEF ScanInv, ScanTyped
<1>8. Carried = {} /\ Carried' = {}
  BY <1>1, <1>2, <1>5 DEF Carried, Tagging, Batches
<1>9. \A f \in Files : UnderWay(f) => f \in scan.skipped
  BY <1>1, <1>8 DEF UnderWay
<1>10. Ahead' /\ Batches'
  <2>1. \A d : Timed(d)' <=> Timed(d)
    BY <1>5, <1>6, SameCard
  <2>2. QED
    BY <1>1, <1>2, <1>3, <1>5, <1>8, <2>1 DEF Ahead, Batches
<1>11. \A f \in Files : /\ (Unread(f)' <=> Unread(f)) /\ Row(f)' = Row(f) /\ (There(f)' <=> There(f))
                        /\ (Steady(f)' <=> Steady(f)) /\ (disk[Home][f])' = disk[Home][f] /\ (Agrees(f)' <=> Agrees(f))
  BY <1>1, <1>5, <1>6, SameCard DEF Unread, Row, Agrees
<1>12. \A f \in Files : f \in scan.skipped =>
         scan.mode = "quick" /\ (StampsFolders /\ Steady(f) => Agrees(f))
  BY <1>1, <1>2 DEF Batches, ScanInv, ScanTruth, SkippedAgree, Walking
<1>13. ASSUME NEW f \in Files, f \in seen'
       PROVE  /\ Row(f) # 0
              /\ Trusted /\ Steady(f) => Unread(f) \/ There(f)
              /\ scan.mode # "quick" /\ f \notin touched => Unread(f) \/ Row(f) = disk[Home][f]
  <2>1. CASE f \in seen
    BY <2>1, <1>1 DEF ScanInv, ScanTruth, SeenHaveRows, SeenAreThere, SeenAreExact, Walking
  <2>2. CASE f \in scan.skipped /\ Row(f) # 0
    BY <2>2, <1>12 DEF Trusted, Agrees
  <2>3. QED
    BY <1>3, <1>13, <2>1, <2>2
<1>14. (SeenHaveRows /\ SeenAreThere /\ SeenAreExact)'
  BY <1>1, <1>5, <1>7, <1>11, <1>13 DEF SeenHaveRows, SeenAreThere, SeenAreExact
<1>15. Covered'
  BY <1>1, <1>3, <1>5, <1>9, <1>11 DEF Covered, ScanInv, ScanTruth, Walking
<1>16. NoneForgotten'
  <2>1. ASSUME NEW f \in Files, scan.complete, Trusted, Steady(f), There(f) PROVE Unread(f) \/ f \in seen'
    <3>1. Unread(f) \/ f \in seen \/ UnderWay(f)
      BY <1>1, <2>1 DEF NoneForgotten, ScanInv, ScanTruth, Walking
    <3>2. f \in scan.skipped => Unread(f) \/ f \in seen'
      BY <1>3, <1>12, <2>1 DEF Trusted, Agrees
    <3>3. QED
      BY <3>1, <3>2, <1>3, <1>9
  <2>2. QED
    BY <2>1, <1>5, <1>7, <1>11 DEF NoneForgotten
<1>17. (EntriesAreTrue /\ SkippedAgree /\ PrunedAgree /\ RecordsHold)'
  BY <1>1, <1>2, <1>5, <1>8, <1>11 DEF EntriesAreTrue, SkippedAgree, PrunedAgree, RecordsHold, ScanInv, ScanTruth, Walking,
     Scanning
<1>18. ScanOrder'
  BY <1>5, <1>10 DEF ScanOrder
<1>19. QED
  BY <1>7, <1>14, <1>15, <1>16, <1>17, <1>18 DEF ScanInv, ScanTruth

(* What Finish leaves of the rows, and what it prunes. *)
LEMMA FinishPrunes ==
  ASSUME ScanInv, Finish
  PROVE  /\ rows' \in [Cards -> [Files -> 0..9]] /\ Home \in Cards
         /\ \A c \in Cards, f \in Files : c # Home \/ ~Prunes => rows'[c][f] = rows[c][f]
         /\ Prunes => \A f \in Files : rows'[Home][f] = IF f \in seen THEN rows[Home][f] ELSE 0
         /\ \A f \in Files : ~UnderWay(f)
<1>1. scan.pc = "finish" /\ Home \in Cards /\ rows \in [Cards -> [Files -> 0..9]]
  BY DEF Finish, ScanInv, ScanTyped, Home
<1>2. rows' = IF Prunes THEN [rows EXCEPT ![Home] = [f \in Files |-> IF f \in seen THEN rows[Home][f] ELSE 0]] ELSE rows
  BY <1>1 DEF Finish, Home
<1>3. \A f \in Files : ~UnderWay(f)
  BY <1>1 DEF UnderWay, ScanInv, ScanOrder, Batches, Walking, Carried, Tagging
<1>4. QED
  BY <1>1, <1>2, <1>3

LEMMA FinishKeepsIt == ASSUME ScanAssumption, ScanInv, Finish PROVE ScanInv'
<1>1. UNCHANGED <<disk, times, mount, record, lost, request, touched, absent>> /\ scan.pc = "finish" /\ seen' = {}
  BY DEF Finish, ScanKeeps, cards, past
<1>2. scan \in Scanning /\ Home \in Cards /\ Ahead /\ Batches
  BY <1>1 DEF ScanInv, ScanTyped, Home, ScanOrder, Walking
<1>3. scan' = [scan EXCEPT !.pc = "save", !.complete = Prunes]
  BY DEF Finish, Becomes
<1>4. /\ scan' \in Scanning /\ scan'.pc = "save" /\ scan'.src = scan.src /\ scan'.mode = scan.mode
      /\ scan'.known = scan.known /\ scan'.times = scan.times /\ (scan'.complete <=> Prunes)
  BY <1>2, <1>3 DEF Scanning, ScanStages, Prunes, Current
<1>5. GoesOn
  BY <1>1, <1>4 DEF GoesOn
<1>6. ScanTyped' /\ TimesGrow' /\ MissingWasAway' /\ Home' = Home
  BY <1>4, <1>5, FinishPrunes, SameCard
<1>7. ASSUME StampsFolders, Prunes, NEW f \in Files, Steady(f)
      PROVE  Unread(f) \/ (rows'[Home][f] # 0 <=> There(f))
  <2>1. CASE f \in seen
    BY <2>1, <1>1, <1>7, FinishPrunes DEF SeenHaveRows, SeenAreThere, ScanInv, ScanTruth, Walking, Trusted, Row
  <2>2. CASE f \notin seen
    BY <2>2, <1>1, <1>7, FinishPrunes DEF NoneForgotten, ScanInv, ScanTruth, Walking, Trusted, Prunes
  <2>3. QED
    BY <2>1, <2>2
<1>8. PrunedAgree'
  <2>1. \A f \in Files : /\ (Unread(f)' <=> Unread(f)) /\ (There(f)' <=> There(f)) /\ (Steady(f)' <=> Steady(f))
                         /\ Row(f)' = rows'[Home][f]
    BY <1>1, <1>4, <1>5, <1>6, SameCard DEF Unread, Row
  <2>2. QED
    BY <2>1, <1>4, <1>7 DEF PrunedAgree, Agrees
<1>9. RecordsHold'
  <2>1. SUFFICES ASSUME StampsFolders, NEW c \in Cards, NEW f \in Files,
                        record[c].known, record[c].times[FolderOf[f]] = times[c][FolderOf[f]]
                 PROVE  <<c, f>> \in lost \/ (rows'[c][f] # 0 <=> disk[c][f] # 0)
    BY <1>1 DEF RecordsHold
  <2>2. CASE c = Home /\ Prunes
    <3>1. FolderOf[f] \in Folders /\ Timed(FolderOf[f])
      BY <1>1, <1>2, <2>2, FoldersOfFiles DEF Ahead, Batches, Prunes
    <3>2. record[c].times[FolderOf[f]] <= scan.times[FolderOf[f]] /\ scan.times[FolderOf[f]] <= times[c][FolderOf[f]]
      BY <1>1, <2>2, <3>1 DEF ScanInv, TimesGrow
    <3>3. scan.times[FolderOf[f]] \in Nat /\ times[c][FolderOf[f]] \in Nat
      BY <1>2, <3>1 DEF Scanning, ScanInv, ScanTyped
    <3>4. Steady(f)
      BY <2>1, <2>2, <3>1, <3>2, <3>3 DEF Steady
    <3>5. QED
      BY <2>1, <2>2, <3>4, <1>7 DEF There, Unread
  <2>3. CASE ~(c = Home /\ Prunes)
    BY <2>1, <2>3, FinishPrunes DEF ScanInv, ScanTruth, RecordsHold
  <2>4. QED
    BY <2>2, <2>3
<1>10. (Covered /\ EntriesAreTrue /\ SeenHaveRows /\ SeenAreThere /\ SeenAreExact /\ NoneForgotten /\ SkippedAgree)'
       /\ ScanOrder'
  BY <1>4 DEF Covered, EntriesAreTrue, SeenHaveRows, SeenAreThere, SeenAreExact, NoneForgotten, SkippedAgree, ScanOrder,
     Walking
<1>11. QED
  BY <1>6, <1>8, <1>9, <1>10 DEF ScanInv, ScanTruth

LEMMA SaveFoldersKeepsIt == ASSUME ScanAssumption, ScanInv, SaveFolders PROVE ScanInv'
<1>1. UNCHANGED <<disk, times, mount, rows, lost, request, seen, touched, absent>> /\ scan.pc = "save" /\ scan' = NoScan
  BY DEF SaveFolders, ScanKeeps, EndsWith, cards, past
<1>2. scan \in Scanning /\ Home \in Cards /\ record \in [Cards -> Records]
  BY <1>1 DEF ScanInv, ScanTyped, Home
<1> DEFINE saved == IF scan.complete THEN [free |-> scan.free, times |-> scan.times, known |-> TRUE] ELSE NoRecord
<1>3. saved \in Records
  BY <1>2, NoScanTyped DEF Records, Scanning
<1>4. record' = [record EXCEPT ![Home] = saved]
  BY DEF SaveFolders, Home
<1>5. saved.known => scan.complete /\ saved.times = scan.times
  BY DEF NoRecord
<1>6. \A d \in Folders : saved.times[d] <= times[Home][d]
  <2>1. CASE scan.complete
    BY <2>1, <1>1 DEF ScanInv, TimesGrow
  <2>2. CASE ~scan.complete
    BY <2>2, <1>2 DEF NoRecord, ScanInv, ScanTyped
  <2>3. QED
    BY <2>1, <2>2
<1> HIDE DEF saved
<1>7. record' \in [Cards -> Records] /\ record'[Home] = saved /\ \A c \in Cards : c # Home => record'[c] = record[c]
  BY <1>2, <1>3, <1>4
<1>8. scan'.pc = "idle"
  BY <1>1 DEF NoScan
<1>9. ScanTyped'
  BY <1>1, <1>7, <1>8, NoScanTyped DEF ScanInv, ScanTyped
<1>10. TimesGrow'
  <2>1. ASSUME NEW c \in Cards, NEW d \in Folders PROVE record'[c].times[d] <= times[c][d]
    <3>1. CASE c = Home
      BY <3>1, <1>6, <1>7
    <3>2. CASE c # Home
      BY <3>2, <1>7 DEF ScanInv, TimesGrow
    <3>3. QED
      BY <3>1, <3>2
  <2>2. QED
    BY <2>1, <1>1, <1>8 DEF TimesGrow
<1>11. RecordsHold'
  <2>1. SUFFICES ASSUME StampsFolders, NEW c \in Cards, NEW f \in Files,
                        record'[c].known, record'[c].times[FolderOf[f]] = times[c][FolderOf[f]]
                 PROVE  <<c, f>> \in lost \/ (rows[c][f] # 0 <=> disk[c][f] # 0)
    BY <1>1 DEF RecordsHold
  <2>2. CASE c = Home
    <3>1. scan.complete /\ scan.times[FolderOf[f]] = times[Home][FolderOf[f]]
      BY <2>1, <2>2, <1>5, <1>7
    <3>2. times[Home][FolderOf[f]] # 0
      BY <1>2, FoldersOfFiles DEF ScanInv, ScanTyped
    <3>3. Agrees(f)
      BY <1>1, <2>1, <3>1, <3>2 DEF ScanInv, ScanTruth, PrunedAgree, Steady, Timed
    <3>4. QED
      BY <2>2, <3>3 DEF Agrees, Unread, Row, There
  <2>3. CASE c # Home
    BY <2>1, <2>3, <1>7 DEF ScanInv, ScanTruth, RecordsHold
  <2>4. QED
    BY <2>2, <2>3
<1>12. (MissingWasAway /\ Covered /\ EntriesAreTrue /\ SeenHaveRows /\ SeenAreThere /\ SeenAreExact /\ NoneForgotten
         /\ SkippedAgree /\ PrunedAgree)' /\ ScanOrder'
  BY <1>8 DEF MissingWasAway, Covered, EntriesAreTrue, SeenHaveRows, SeenAreThere, SeenAreExact, NoneForgotten,
     SkippedAgree, PrunedAgree, ScanOrder, Walking
<1>13. QED
  BY <1>9, <1>10, <1>11, <1>12 DEF ScanInv, ScanTruth

LEMMA ScanRestarts == ASSUME ScanAssumption, ScanInv, Restart PROVE ScanInv'
<1>1. /\ UNCHANGED <<disk, times, rows, record, lost, mount>> /\ scan' = NoScan /\ request' = NoRequest
  BY DEF Restart, cards, past
<1>2. QED
  BY <1>1, ScanEnds

LEMMA ScanStarts == ASSUME ScanAssumption, ScanInit PROVE ScanInv
<1>1. scan = NoScan /\ scan.pc = "idle" /\ scan.complete = TRUE
  BY DEF ScanInit, NoScan
<1>2. ScanTyped
  <2>1. disk \in [Cards -> [Files -> 0..9]]
    BY DEF ScanInit
  <2>2. mount \in ScanSources /\ request = NoRequest /\ request.mode = "none"
    BY DEF ScanInit, ScanSources, NoRequest
  <2>3. times \in [Cards -> [Folders -> Nat \ {0}]] /\ rows \in [Cards -> [Files -> 0..9]]
    BY DEF ScanInit
  <2>4. record \in [Cards -> Records]
    BY NoScanTyped DEF ScanInit
  <2>5. QED
    BY <1>1, <2>1, <2>2, <2>3, <2>4, NoScanTyped DEF ScanTyped
<1>3. TimesGrow
  BY <1>1 DEF TimesGrow, ScanInit, NoRecord
<1>4. RecordsHold
  BY DEF RecordsHold, ScanInit, NoRecord
<1>5. (MissingWasAway /\ Covered /\ EntriesAreTrue /\ SeenHaveRows /\ SeenAreThere /\ SeenAreExact /\ NoneForgotten
         /\ SkippedAgree /\ PrunedAgree) /\ ScanOrder
  BY <1>1 DEF MissingWasAway, Covered, EntriesAreTrue, SeenHaveRows, SeenAreThere, SeenAreExact, NoneForgotten,
     SkippedAgree, PrunedAgree, ScanOrder, Walking
<1>6. QED
  BY <1>2, <1>3, <1>4, <1>5 DEF ScanInv, ScanTruth

LEMMA ScanSteps == ASSUME ScanAssumption, ScanInv, [ScanNext]_scanVars PROVE ScanInv'
<1>1. CASE UNCHANGED scanVars
  <2>1. UNCHANGED <<disk, times, scan, rows, seen, record, touched, absent, lost, mount, request>>
    BY <1>1 DEF scanVars
  <2>2. QED
    BY <2>1, NoStepOfTheScan DEF ScanInv, ScanTyped
<1>2. CASE CardChanges
  BY <1>2, SlotKeepsIt, ChangeKeepsIt DEF CardChanges
<1>3. CASE MainLoop
  BY <1>3, LoopKeepsIt
<1>4. CASE Scanner
  BY <1>4, BeginScanKeepsIt, OpenRootKeepsIt, EnterFolderKeepsIt, ReadFolderKeepsIt, ProbeKeepsIt, ReadTagsKeepsIt,
     PublishKeepsIt, SeenFoldersKeepsIt, FinishKeepsIt, SaveFoldersKeepsIt DEF Scanner
<1>5. CASE Restart
  BY <1>5, ScanRestarts
<1>6. QED
  BY <1>1, <1>2, <1>3, <1>4, <1>5 DEF ScanNext

-----------------------------------------------------------------------------
(* Which steps write the rows. *)
LEMMA RowsAreWritten ==
  ASSUME [ScanNext]_scanVars
  PROVE  Publish \/ Finish \/ rows' = rows
BY DEF ScanNext, scanVars, CardChanges, Insert, Pull, Change, MainLoop, NoticeSources, OwnerScans, TakeResult,
   PrepareSleep, RestoreSleep, LoopKeeps, Scanner, BeginScan, OpenRoot, EnterFolder, ReadFolder, Probe, ReadTags,
   SeenFolders, SaveFolders, Restart, library
LEMMA RecordsAreWritten ==
  ASSUME [ScanNext]_scanVars
  PROVE  SaveFolders \/ record' = record
BY DEF ScanNext, scanVars, CardChanges, Insert, Pull, Change, MainLoop, NoticeSources, OwnerScans, TakeResult,
   PrepareSleep, RestoreSleep, LoopKeeps, Scanner, BeginScan, OpenRoot, EnterFolder, ReadFolder, Probe, ReadTags,
   Publish, SeenFolders, Finish, Restart, library

LEMMA OnlyTheGonePruned ==
  ASSUME ScanAssumption, ScanInv, [ScanNext]_scanVars, NEW c \in Cards, NEW f \in Files,
         rows[c][f] # 0, rows'[c][f] = 0
  PROVE  c = scan.src.card /\ f \in absent
<1>1. CASE Publish
  <2>1. scan.pc = "publish" /\ (rows' = rows \/ rows' = Written)
    BY <1>1 DEF Publish, EndsWith
  <2>2. c = Home /\ f \in FreshFiles /\ rows' = Written
    BY <2>1, WrittenRows DEF ScanInv
  <2>3. PICK e \in scan.fresh : e[1] = f /\ Written[Home][f] = e[2]
    BY <2>1, <2>2, WrittenRows DEF ScanInv
  <2>4. e[2] # 0
    BY <2>1, <2>3 DEF EntriesAreTrue, ScanInv, ScanTruth, Walking, Carried
  <2>5. QED
    BY <2>2, <2>3, <2>4
<1>2. CASE Finish
  <2>1. c = Home /\ Prunes /\ f \notin seen
    BY <1>2, FinishPrunes
  <2>2. scan.pc = "finish" /\ scan.complete
    BY <1>2, <2>1 DEF Finish, Prunes
  <2>3. f \in absent
    BY <1>2, <2>1, <2>2, FinishPrunes DEF Covered, ScanInv, ScanTruth, Walking, Row
  <2>4. QED
    BY <2>1, <2>3 DEF Home
<1>3. QED
  BY <1>1, <1>2, RowsAreWritten

LEMMA FullScanIsExact ==
  ASSUME ScanInv, Finish, Prunes, scan.mode # "quick", NEW f \in Files, f \notin touched
  PROVE  Unopened(scan.src.card, f) \/ rows'[scan.src.card][f] = disk[scan.src.card][f]
<1>1. scan.pc = "finish" /\ scan.complete /\ ~UnderWay(f) /\ Steady(f) /\ Trusted
  BY FinishPrunes DEF Finish, Prunes, Steady, Trusted
<1>2. CASE f \in seen
  BY <1>1, <1>2, FinishPrunes DEF SeenAreExact, ScanInv, ScanTruth, Walking, Row, Unread, Home, Unopened
<1>3. CASE f \notin seen
  <2>1. Unread(f) \/ ~There(f)
    BY <1>1, <1>3 DEF NoneForgotten, ScanInv, ScanTruth, Walking
  <2>2. rows'[Home][f] = 0
    BY <1>3, FinishPrunes
  <2>3. QED
    BY <2>1, <2>2 DEF There, Unread, Home, Unopened
<1>4. QED
  BY <1>2, <1>3

LEMMA ScanTellsAll ==
  ASSUME ScanInv, Finish, Prunes, StampsFolders, NEW f \in Files, f \notin touched
  PROVE  Unopened(scan.src.card, f) \/ Told(scan.src.card, f)
<1>1. scan.pc = "finish" /\ scan.complete /\ ~UnderWay(f) /\ Steady(f) /\ Trusted
  BY FinishPrunes DEF Finish, Prunes, Steady, Trusted
<1>2. CASE f \in seen
  BY <1>1, <1>2, FinishPrunes DEF SeenAreThere, SeenHaveRows, ScanInv, ScanTruth, Walking, Row, Unread, There, Home,
     Unopened, Told
<1>3. CASE f \notin seen
  BY <1>1, <1>3, FinishPrunes DEF NoneForgotten, ScanInv, ScanTruth, Walking, Unread, There, Home, Unopened, Told
<1>4. QED
  BY <1>2, <1>3

LEMMA AsleepSteps == ASSUME AsleepIsIdle, [ScanNext]_scanVars PROVE AsleepIsIdle'
<1>1. CASE UNCHANGED <<prepared, scan, request>>
  BY <1>1 DEF AsleepIsIdle
<1>2. ASSUME CardChanges PROVE UNCHANGED <<prepared, scan, request>>
  BY <1>2 DEF CardChanges, Insert, Pull, Change, loop
<1>3. ASSUME MainLoop PROVE AsleepIsIdle'
  BY <1>3 DEF MainLoop, NoticeSources, OwnerScans, TakeResult, PrepareSleep, RestoreSleep, LoopKeeps, Quiet, AsleepIsIdle
<1>4. ASSUME Scanner PROVE ~prepared /\ prepared' = prepared
  BY <1>4 DEF Scanner, BeginScan, OpenRoot, EnterFolder, ReadFolder, Probe, ReadTags, Publish, SeenFolders, Finish,
     SaveFolders, ScanKeeps, AsleepIsIdle
<1>5. ASSUME Restart PROVE AsleepIsIdle'
  BY <1>5 DEF Restart, AsleepIsIdle
<1>6. QED
  BY <1>1, <1>2, <1>3, <1>4, <1>5 DEF ScanNext, scanVars, AsleepIsIdle

(* Pulled, swapped or changed cards, failed writes and restarts: a song leaves *)
(* the library only when its file was away at some moment of the scan that     *)
(* drops it, and a full scan leaves every file it could open as it is there.   *)
THEOREM ScansDropOnlyTheGone ==
  ASSUME ScanAssumption
  PROVE  ScanSpec => PrunesOnlyTheGone /\ ReadIsExact
<1>1. ScanSpec => []ScanInv
  BY ScanStarts, ScanSteps, PTL DEF ScanSpec
<1>2. ASSUME ScanInv, [ScanNext]_scanVars
      PROVE  [\A c \in Cards, f \in Files : rows[c][f] # 0 /\ rows'[c][f] = 0 => c = scan.src.card /\ f \in absent]_scanVars
  BY <1>2, OnlyTheGonePruned
<1>3. ASSUME ScanInv, [ScanNext]_scanVars
      PROVE  [Finish /\ Prunes /\ scan.mode # "quick" => \A f \in Files \ touched :
               Unopened(scan.src.card, f) \/ rows'[scan.src.card][f] = disk[scan.src.card][f]]_scanVars
  BY <1>3, FullScanIsExact
<1>4. QED
  BY <1>1, <1>2, <1>3, PTL DEF ScanSpec, PrunesOnlyTheGone, ReadIsExact

(* Where every system that writes the card stamps its folders, a quick scan,   *)
(* which skips the folders that kept their time, tells the truth as well.      *)
THEOREM LibraryTellsTheTruth ==
  ASSUME ScanAssumption, StampsFolders
  PROVE  ScanSpec => LibraryIsTrue
<1>1. ScanSpec => []ScanInv
  BY ScanStarts, ScanSteps, PTL DEF ScanSpec
<1>2. ASSUME ScanInv, [ScanNext]_scanVars
      PROVE  [Finish /\ Prunes => \A f \in Files \ touched : Unopened(scan.src.card, f) \/ Told(scan.src.card, f)]_scanVars
  BY <1>2, ScanTellsAll
<1>3. ScanSpec => CompleteIsTrue
  BY <1>1, <1>2, PTL DEF ScanSpec, CompleteIsTrue
<1>4. QED
  BY <1>3, ScansDropOnlyTheGone DEF LibraryIsTrue, RecordsAreTrue

(* While sleep is prepared the library and its records are not written.        *)
THEOREM SleepWritesNothing == ScanSpec => SleepIsQuiet
<1>1. ScanInit => AsleepIsIdle
  BY DEF ScanInit, AsleepIsIdle
<1>2. ScanSpec => []AsleepIsIdle
  BY <1>1, AsleepSteps, PTL DEF ScanSpec
<1>3. ASSUME AsleepIsIdle, [ScanNext]_scanVars PROVE [prepared => rows' = rows /\ record' = record]_scanVars
  <2>1. prepared => ~Publish /\ ~Finish /\ ~SaveFolders
    BY <1>3 DEF AsleepIsIdle, Publish, Finish, SaveFolders
  <2>2. QED
    BY <1>3, <2>1, RowsAreWritten, RecordsAreWritten
<1>4. QED
  BY <1>2, <1>3, PTL DEF ScanSpec, SleepIsQuiet

-----------------------------------------------------------------------------
(* The volume: the shape of its settings. *)

Scale == 0..Full
Settings ==
  [volume : Scale, wired : 0..NoVolume, absolute : BOOLEAN, loud : BOOLEAN, level : Levels, out : Peers \cup {Jack}]
HeldVolume == [peer : Peers \cup {None}, reported : Nat, echo : BOOLEAN, unsent : BOOLEAN]
Command == [peer : Peers, level : Nat]
Commands == Seq(Command)
Starts == Seq(Settings)
Musics == {"stopped", "starting", "playing", "paused"}
Amplifiers == Levels \cup {None}
Player ==
  [set : Settings, held : HeldVolume, soft : Scale, music : Musics, kernel : Levels, amp : Amplifiers,
   cmds : Commands, before : Starts, modal : BOOLEAN, fading : BOOLEAN, saved : Settings]
(* While headphones hold the volume, the jack's own is put aside. *)
PutAside(a) == a.held.peer # None => a.set.wired # NoVolume /\ a.set.absolute
(* The stream is no louder than its volume says, when that volume is its own. *)
NotLouder(a) == a.music # "stopped" /\ a.held.peer = None /\ a.set.wired = NoVolume => a.soft <= a.set.volume
VolumeInv ==
  /\ player \in Player /\ PutAside(player) /\ NotLouder(player)
  /\ phones \in [Peers -> Nat] /\ known \in [Peers -> Nat]

-----------------------------------------------------------------------------
(* Rounding stays in its scale. *)
LEMMA Rounds ==
  ASSUME NEW x \in Nat, NEW b \in Nat \ {0}, NEW c \in Nat, x <= c * b
  PROVE  (x + b \div 2) \div b \in 0..c
<1> DEFINE y == x + b \div 2
           q == y \div b
<1>1. b \div 2 \in Nat /\ b \div 2 < b
  OBVIOUS
<1>2. y \in Nat /\ c * b \in Nat /\ y < c * b + b
  BY <1>1
<1>3. q \in Nat /\ q * b <= y
  BY <1>2
<1>4. CASE q <= c
  BY <1>3, <1>4
<1>5. CASE q >= c + 1
  <2>1. q * b >= (c + 1) * b
    BY <1>3, <1>5
  <2>2. (c + 1) * b = c * b + b
    OBVIOUS
  <2>3. QED
    BY <1>2, <1>3, <2>1, <2>2
<1>6. QED
  BY <1>3, <1>4, <1>5

LEMMA Products ==
  ASSUME NEW r \in Nat, NEW a \in Nat, NEW s \in Nat, NEW f \in Nat, r <= a, s <= f
  PROVE  r * s \in Nat /\ r * s <= a * f
<1>1. r * s <= a * s
  OBVIOUS
<1>2. a * s <= a * f
  OBVIOUS
<1>3. QED
  BY <1>1, <1>2

LEMMA Scales ==
  ASSUME VolumeBounds
  PROVE  /\ \A v \in 0..AvrcpFull : ToPercent(v) \in 0..Full
         /\ \A v \in 0..Full : ToAvrcp(v) \in 0..AvrcpFull
         /\ \A v \in 0..AvrcpFull, w \in 0..Full : Takeover(v, w) \in 0..AvrcpFull
<1>1. Full \in Nat \ {0} /\ AvrcpFull \in Nat \ {0} /\ Full * AvrcpFull = AvrcpFull * Full
  BY DEF VolumeBounds
<1>2. ASSUME NEW v \in 0..AvrcpFull PROVE ToPercent(v) \in 0..Full
  <2>1. v * Full \in Nat /\ v * Full <= AvrcpFull * Full
    BY <1>1, Products
  <2>2. (v * Full + AvrcpFull \div 2) \div AvrcpFull \in 0..Full
    BY <1>1, <2>1, Rounds
  <2>3. QED
    BY <2>2 DEF ToPercent
<1>3. ASSUME NEW v \in 0..Full PROVE ToAvrcp(v) \in 0..AvrcpFull
  <2>1. v * AvrcpFull \in Nat /\ v * AvrcpFull <= Full * AvrcpFull
    BY <1>1, Products
  <2>2. (v * AvrcpFull + Full \div 2) \div Full \in 0..AvrcpFull
    BY <1>1, <2>1, Rounds
  <2>3. QED
    BY <2>2 DEF ToAvrcp
<1>4. ASSUME NEW v \in 0..AvrcpFull, NEW w \in 0..Full PROVE Takeover(v, w) \in 0..AvrcpFull
  <2>1. v * w \in Nat /\ v * w <= AvrcpFull * Full
    BY <1>1, Products
  <2>2. (v * w + Full \div 2) \div Full \in 0..AvrcpFull
    BY <1>1, <2>1, Rounds
  <2>3. QED
    BY <2>2 DEF Takeover
<1>5. QED
  BY <1>2, <1>3, <1>4

LEMMA LevelsMove ==
  ASSUME VolumeBounds, NEW v \in 0..Full, NEW from \in Levels, NEW to \in Levels
  PROVE  ForLevel(v, from, to) \in 0..Full
<1>1. Safe[from] \in 1..Full /\ Safe[to] \in 1..Full /\ Full \in Nat \ {0}
  BY DEF VolumeBounds
<1>2. QED
  BY <1>1 DEF ForLevel, Lowest

-----------------------------------------------------------------------------
(* The settings of a player, changed one at a time. *)
LEMMA CapWiredKeeps ==
  ASSUME VolumeBounds, NEW a \in Player
  PROVE  /\ CapWired(a) \in Player /\ CapWired(a).held = a.held /\ CapWired(a).music = a.music
         /\ CapWired(a).set.wired = a.set.wired /\ CapWired(a).set.absolute = a.set.absolute
         /\ CapWired(a).set.out = a.set.out /\ CapWired(a).set.level = a.set.level
         /\ \/ CapWired(a) = a
            \/ /\ WiredSink(a) /\ CapWired(a).soft = Safe[a.set.level] /\ CapWired(a).soft <= a.set.volume
               /\ CapWired(a).set.volume = CapWired(a).soft
<1>1. Safe[a.set.level] \in Scale /\ a.set \in Settings /\ a.set.volume \in Scale /\ a.soft \in Scale
  BY DEF VolumeBounds, Player, Settings, Scale
<1>2. CASE ~(WiredSink(a) /\ a.set.volume > Safe[a.set.level])
  BY <1>2 DEF CapWired
<1>3. CASE WiredSink(a) /\ a.set.volume > Safe[a.set.level]
  <2> DEFINE v == Safe[a.set.level]
             s == [a.set EXCEPT !.volume = v]
  <2>1. CapWired(a) = [a EXCEPT !.set = s, !.soft = v]
    BY <1>3 DEF CapWired
  <2>2. v <= a.set.volume
    BY <1>1, <1>3 DEF Scale
  <2>3. /\ s \in Settings /\ s.volume = v /\ s.wired = a.set.wired /\ s.absolute = a.set.absolute
        /\ s.out = a.set.out /\ s.level = a.set.level /\ v \in Scale
    BY <1>1 DEF Settings
  <2> HIDE DEF s, v
  <2>4. CapWired(a) \in Player
    BY <2>1, <2>3 DEF Player
  <2>5. CapWired(a).set = s /\ CapWired(a).soft = v /\ CapWired(a).held = a.held /\ CapWired(a).music = a.music
    BY <2>1 DEF Player
  <2>6. QED
    BY <1>3, <2>2, <2>3, <2>4, <2>5 DEF v
<1>4. QED
  BY <1>2, <1>3

LEMMA SendKeeps ==
  ASSUME VolumeBounds, NEW a \in Player
  PROVE  /\ Send(a) \in Player /\ Send(a).set = a.set /\ Send(a).soft = a.soft /\ Send(a).music = a.music
         /\ Send(a).held.peer = a.held.peer /\ Send(a).amp = a.amp
<1>1. /\ a.set \in Settings /\ a.held \in HeldVolume /\ a.held.peer \in Peers \cup {None} /\ a.set.volume \in Scale
      /\ a.cmds \in Commands
  BY DEF Player, Settings, HeldVolume
<1>2. CASE a.held.peer = None
  BY <1>2 DEF Send
<1>3. CASE a.held.peer # None
  <2> DEFINE fits == Len(a.cmds) < Room
             level == ToAvrcp(a.set.volume)
             cmd  == [peer |-> a.held.peer, level |-> level]
             h == [a.held EXCEPT !.unsent = ~fits, !.echo = TRUE]
             c == IF fits THEN Append(a.cmds, cmd) ELSE a.cmds
  <2>1. Send(a) = [a EXCEPT !.held = h, !.cmds = c]
    BY <1>3 DEF Send, Player
  <2>2. level \in Nat
    <3>1. level \in 0..AvrcpFull
      BY <1>1, Scales DEF Scale
    <3>2. QED
      BY <3>1 DEF VolumeBounds
  <2> HIDE DEF level
  <2>3. cmd \in Command
    BY <1>1, <1>3, <2>2 DEF Command
  <2>4. h \in HeldVolume /\ h.peer = a.held.peer
    <3>1. (~fits) \in BOOLEAN
      OBVIOUS
    <3> HIDE DEF fits
    <3>2. QED
      BY <1>1, <3>1 DEF HeldVolume
  <2> HIDE DEF cmd, h, fits
  <2>5. c \in Commands
    BY <1>1, <2>3 DEF Commands
  <2> HIDE DEF c
  <2>6. Send(a) \in Player
    BY <2>1, <2>4, <2>5 DEF Player
  <2>7. Send(a).set = a.set /\ Send(a).soft = a.soft /\ Send(a).music = a.music /\ Send(a).held = h /\ Send(a).amp = a.amp
    BY <2>1 DEF Player
  <2>8. QED
    BY <2>4, <2>6, <2>7
<1>4. QED
  BY <1>2, <1>3

LEMMA HolderKnown ==
  ASSUME VolumeBounds, NEW a \in Player, NEW b \in [Peers -> Nat]
  PROVE  /\ Holder(a, b) # None => Holder(a, b) \in Peers /\ Holder(a, b) = a.set.out /\ b[Holder(a, b)] \in 0..AvrcpFull
         /\ a.set.out = Jack => Holder(a, b) = None
<1>1. OwnVolume \subseteq Peers /\ Jack \notin Peers /\ AvrcpFull \in Nat
  BY DEF VolumeBounds
<1>2. CASE a.set.out \in OwnVolume /\ b[a.set.out] <= AvrcpFull
  BY <1>1, <1>2 DEF Holder
<1>3. CASE ~(a.set.out \in OwnVolume /\ b[a.set.out] <= AvrcpFull)
  BY <1>1, <1>3 DEF Holder
<1>4. QED
  BY <1>2, <1>3

(* Headphones that are gone, or no longer the output, give the volume back. *)
LEMMA GiveBackKeeps ==
  ASSUME VolumeBounds, NEW a \in Player, NEW b \in [Peers -> Nat], PutAside(a)
  PROVE  /\ GiveBack(a, b) \in Player /\ GiveBack(a, b).music = a.music /\ GiveBack(a, b).set.out = a.set.out
         /\ \/ GiveBack(a, b) = a /\ (a.held.peer = None \/ Holder(a, b) = a.held.peer)
            \/ /\ a.held.peer # None /\ Holder(a, b) # a.held.peer
               /\ GiveBack(a, b).held.peer = None /\ GiveBack(a, b).soft = GiveBack(a, b).set.volume
<1>1. CASE a.held.peer = None \/ Holder(a, b) = a.held.peer
  BY <1>1 DEF GiveBack
<1>2. CASE a.held.peer # None /\ Holder(a, b) # a.held.peer
  <2>1. /\ a.set \in Settings /\ a.set.wired \in 0..NoVolume /\ a.set.wired # NoVolume /\ a.set.volume \in Scale
        /\ Full \in Nat /\ AvrcpFull \in Nat
    BY <1>2 DEF Player, Settings, PutAside, VolumeBounds
  <2> DEFINE v == IF a.set.wired = NoVolume THEN a.set.volume ELSE a.set.wired
             s == [a.set EXCEPT !.volume = v, !.wired = NoVolume]
             x == [a EXCEPT !.set = s, !.held = NoPeer]
             y == CapWired(x)
  <2>2. GiveBack(a, b) = [y EXCEPT !.soft = y.set.volume]
    BY <1>2 DEF GiveBack
  <2>3. v \in Scale /\ NoVolume \in 0..NoVolume
    BY <2>1 DEF Scale, NoVolume
  <2> HIDE DEF v
  <2>4. s \in Settings /\ s.out = a.set.out
    BY <2>1, <2>3 DEF Settings
  <2>5. NoPeer \in HeldVolume /\ NoPeer.peer = None
    BY <2>1 DEF NoPeer, HeldVolume, Away
  <2> HIDE DEF s
  <2>6. x \in Player /\ x.set = s /\ x.held = NoPeer /\ x.music = a.music
    BY <2>4, <2>5 DEF Player
  <2> HIDE DEF x
  <2>7. y \in Player /\ y.held = NoPeer /\ y.music = a.music /\ y.set.out = a.set.out
    BY <2>4, <2>6, CapWiredKeeps
  <2> HIDE DEF y
  <2>8. y.set.volume \in Scale
    BY <2>7 DEF Player, Settings
  <2> DEFINE u == y.set.volume
             g == [y EXCEPT !.soft = u]
  <2> HIDE DEF u
  <2>9. g \in Player /\ g.soft = u /\ g.set = y.set /\ g.held = y.held /\ g.music = y.music
    BY <2>7, <2>8 DEF Player, u
  <2>10. QED
    BY <1>2, <2>2, <2>5, <2>7, <2>9 DEF u
<1>3. QED
  BY <1>1, <1>2

(* Headphones that report a volume of their own take it over. *)
LEMMA TakeOverKeeps ==
  ASSUME VolumeBounds, NEW a \in Player, NEW b \in [Peers -> Nat], PutAside(a)
  PROVE  /\ TakeOver(a, b) \in Player /\ TakeOver(a, b).music = a.music /\ TakeOver(a, b).set.out = a.set.out
         /\ PutAside(TakeOver(a, b))
         /\ Holder(a, b) = None => TakeOver(a, b) = a
         /\ Holder(a, b) # None /\ a.held.peer = None => TakeOver(a, b).held.peer = Holder(a, b)
         /\ a.held.peer # None =>
              TakeOver(a, b).held.peer = a.held.peer /\ TakeOver(a, b).set.wired = a.set.wired
<1> DEFINE p == Holder(a, b)
<1>1. CASE p = None
  BY <1>1 DEF TakeOver
<1>2. CASE p # None /\ a.held.peer = None
  <2> DEFINE level == Takeover(b[p], IF a.set.absolute THEN Full ELSE a.set.volume)
             v == ToPercent(level)
             u == a.set.volume
             s == [a.set EXCEPT !.wired = u, !.volume = v, !.absolute = TRUE]
             h == [peer |-> p, reported |-> b[p], echo |-> FALSE, unsent |-> level # b[p]]
  <2>1. TakeOver(a, b) = [a EXCEPT !.set = s, !.held = h, !.soft = Full]
    BY <1>2 DEF TakeOver
  <2>2. /\ a.set \in Settings /\ u \in Scale /\ p \in Peers /\ b[p] \in 0..AvrcpFull /\ b[p] \in Nat
        /\ Full \in Scale /\ Full \in Nat
    BY <1>2, HolderKnown DEF Player, Settings, VolumeBounds, Scale
  <2>3. level \in 0..AvrcpFull
    BY <2>2, Scales DEF Scale
  <2>4. v \in Scale
    <3> HIDE DEF level
    <3>1. QED
      BY <2>3, Scales DEF Scale
  <2>5. h \in HeldVolume /\ h.peer = p
    <3> DEFINE t == level # b[p]
    <3>1. t \in BOOLEAN
      OBVIOUS
    <3> HIDE DEF t, level, p
    <3>2. QED
      BY <2>2, <3>1 DEF HeldVolume
  <2>6. u \in 0..NoVolume /\ u # NoVolume
    BY <2>2 DEF Scale, NoVolume
  <2> HIDE DEF u, v, h, p
  <2>7. s \in Settings /\ s.wired = u /\ s.absolute = TRUE /\ s.out = a.set.out
    BY <2>2, <2>4, <2>6 DEF Settings
  <2> HIDE DEF s
  <2> DEFINE w == [a EXCEPT !.set = s, !.held = h, !.soft = Full]
  <2>8. w \in Player /\ w.set = s /\ w.held = h /\ w.music = a.music
    BY <2>2, <2>5, <2>7 DEF Player
  <2> HIDE DEF w
  <2>9. PutAside(w)
    BY <2>6, <2>7, <2>8 DEF PutAside
  <2>10. QED
    BY <1>2, <2>1, <2>5, <2>7, <2>8, <2>9 DEF w, p
<1>3. CASE p # None /\ a.held.peer # None
  <2> DEFINE adopts == ~a.held.echo /\ ~a.held.unsent
             v == IF b[p] # a.held.reported /\ adopts THEN ToPercent(b[p]) ELSE a.set.volume
             s == [a.set EXCEPT !.volume = v]
             h == [a.held EXCEPT !.reported = b[p]]
  <2>1. TakeOver(a, b) = [a EXCEPT !.held = h, !.set = s]
    BY <1>3 DEF TakeOver
  <2>2. /\ a.set \in Settings /\ a.held \in HeldVolume /\ a.set.volume \in Scale
        /\ b[p] \in 0..AvrcpFull /\ b[p] \in Nat
    BY <1>3, HolderKnown DEF Player, Settings
  <2>3. v \in Scale
    <3>1. ToPercent(b[p]) \in Scale
      BY <2>2, Scales DEF Scale
    <3> HIDE DEF adopts, p
    <3>2. QED
      BY <2>2, <3>1
  <2> HIDE DEF v, p
  <2>4. s \in Settings /\ s.wired = a.set.wired /\ s.absolute = a.set.absolute /\ s.out = a.set.out
    BY <2>2, <2>3 DEF Settings
  <2>5. h \in HeldVolume /\ h.peer = a.held.peer
    BY <2>2 DEF HeldVolume
  <2> HIDE DEF s, h
  <2> DEFINE w == [a EXCEPT !.held = h, !.set = s]
  <2>6. w \in Player /\ w.set = s /\ w.held = h /\ w.music = a.music
    BY <2>4, <2>5 DEF Player
  <2> HIDE DEF w
  <2>7. PutAside(w)
    BY <2>4, <2>5, <2>6 DEF PutAside
  <2>8. QED
    BY <1>3, <2>1, <2>4, <2>5, <2>6, <2>7 DEF w, p
<1>4. QED
  BY <1>1, <1>2, <1>3

LEMMA SyncKeeps ==
  ASSUME VolumeBounds, NEW a \in Player, NEW b \in [Peers -> Nat], PutAside(a), NEW w, w = Sync(a, b)
  PROVE  /\ w \in Player /\ PutAside(w) /\ w.music = a.music /\ w.set.out = a.set.out
         /\ w.held.peer # None => a.set.out # Jack
         /\ a.held.peer = None /\ w.held.peer = None => w = a
         /\ a.held.peer # None /\ w.held.peer = None => w.soft = w.set.volume
         /\ a.held.peer # None /\ w.held.peer = a.held.peer => w.set.wired = a.set.wired
<1> DEFINE g == GiveBack(a, b)
           t == TakeOver(g, b)
<1>1. /\ g \in Player /\ g.music = a.music /\ g.set.out = a.set.out
      /\ \/ g = a /\ (a.held.peer = None \/ Holder(a, b) = a.held.peer)
         \/ a.held.peer # None /\ Holder(a, b) # a.held.peer /\ g.held.peer = None /\ g.soft = g.set.volume
  BY GiveBackKeeps
<1>2. Holder(g, b) = Holder(a, b)
  BY <1>1 DEF Holder
<1>3. PutAside(g)
  BY <1>1 DEF PutAside
<1> HIDE DEF g
<1>4. /\ t \in Player /\ t.music = g.music /\ t.set.out = g.set.out /\ PutAside(t)
      /\ Holder(g, b) = None => t = g
      /\ Holder(g, b) # None /\ g.held.peer = None => t.held.peer = Holder(g, b)
      /\ g.held.peer # None => t.held.peer = g.held.peer /\ t.set.wired = g.set.wired
  BY <1>1, <1>3, TakeOverKeeps
<1> HIDE DEF t
<1>5. (w = Send(t) /\ Holder(a, b) # None) \/ w = t
  BY DEF Sync, g, t
<1>6. /\ w \in Player /\ w.set = t.set /\ w.soft = t.soft /\ w.music = t.music /\ w.held.peer = t.held.peer
      /\ w = t \/ Holder(a, b) # None
  BY <1>4, <1>5, SendKeeps
<1>7. PutAside(w)
  BY <1>4, <1>6 DEF PutAside
<1>8. Holder(a, b) # None => a.set.out # Jack
  BY HolderKnown
<1>9. QED
  BY <1>1, <1>2, <1>4, <1>6, <1>7, <1>8

-----------------------------------------------------------------------------
(* Starts, stops and what is written. *)
LEMMA RestoredKeeps ==
  ASSUME NEW a \in Player, PutAside(a), NEW s \in Settings
  PROVE  /\ Restored(a, s) \in Player /\ PutAside(Restored(a, s)) /\ Restored(a, s).music = a.music
         /\ Restored(a, s).soft = a.soft /\ Restored(a, s).held = a.held
         /\ a.held.peer = None => Restored(a, s).set = s
         /\ a.held.peer # None => Restored(a, s).set.wired = a.set.wired
<1> DEFINE held == [s EXCEPT !.volume = a.set.volume, !.wired = a.set.wired, !.absolute = a.set.absolute]
           x == IF a.held.peer = None THEN s ELSE held
           r == [a EXCEPT !.set = x, !.before = <<>>]
<1>1. /\ held \in Settings /\ held.wired = a.set.wired /\ held.absolute = a.set.absolute
  BY DEF Player, Settings
<1>2. x \in Settings
  BY <1>1
<1>3. <<>> \in Starts
  BY DEF Starts
<1>4. Restored(a, s) = r
  BY DEF Restored
<1> HIDE DEF held
<1>5. a.held.peer = None => x = s
  OBVIOUS
<1>6. a.held.peer # None => x.wired = a.set.wired /\ x.absolute = a.set.absolute
  BY <1>1
<1> HIDE DEF x
<1>7. r \in Player /\ r.set = x /\ r.music = a.music /\ r.soft = a.soft /\ r.held = a.held
  BY <1>2, <1>3 DEF Player
<1> HIDE DEF r
<1>8. PutAside(r)
  BY <1>6, <1>7 DEF PutAside
<1>9. QED
  BY <1>4, <1>5, <1>6, <1>7, <1>8

LEMMA StopsKeeps ==
  ASSUME NEW a \in Player, PutAside(a)
  PROVE  /\ Stops(a) \in Player /\ PutAside(Stops(a)) /\ Stops(a).set = a.set /\ Stops(a).held = a.held
         /\ Stops(a).soft = a.soft /\ Stops(a).music = "stopped" /\ Stops(a).amp = None
<1>1. "stopped" \in Musics /\ None \in Amplifiers
  BY DEF Musics, Amplifiers
<1>2. /\ Stops(a) \in Player /\ Stops(a).set = a.set /\ Stops(a).held = a.held
      /\ Stops(a).soft = a.soft /\ Stops(a).music = "stopped" /\ Stops(a).amp = None
  BY <1>1 DEF Player, Stops
<1>3. QED
  BY <1>2 DEF PutAside

LEMMA CheckpointKeeps ==
  ASSUME NEW a \in Player, PutAside(a)
  PROVE  /\ Checkpoint(a) \in Player /\ PutAside(Checkpoint(a)) /\ Checkpoint(a).set = a.set /\ Checkpoint(a).held = a.held
         /\ Checkpoint(a).soft = a.soft /\ Checkpoint(a).music = a.music /\ Checkpoint(a).amp = a.amp
<1>1. a.set \in Settings
  BY DEF Player
<1>2. /\ Checkpoint(a) \in Player /\ Checkpoint(a).set = a.set /\ Checkpoint(a).held = a.held
      /\ Checkpoint(a).soft = a.soft /\ Checkpoint(a).music = a.music /\ Checkpoint(a).amp = a.amp
  BY <1>1 DEF Player, Checkpoint
<1>3. QED
  BY <1>2 DEF PutAside

(* A start refused leaves the stream as loud as it was, by the settings put back; *)
(* one in progress begins as loud as its settings say.                            *)
LEMMA LoadKeeps ==
  ASSUME VolumeBounds, NEW a \in Player, PutAside(a), NEW b \in [Peers -> Nat], NEW s \in Settings,
         NEW fate \in {"refused", "failed", "starts"},
         a.held.peer # None => s.wired # NoVolume,
         a.held.peer = None /\ a.music # "stopped" /\ s.wired = NoVolume => a.soft <= s.volume
  PROVE  /\ Load(a, b, s, fate) \in Player /\ PutAside(Load(a, b, s, fate)) /\ NotLouder(Load(a, b, s, fate))
         /\ \/ Load(a, b, s, fate).amp = None
            \/ a.held.peer = None /\ Load(a, b, s, fate).held.peer = None => Load(a, b, s, fate).soft = a.soft
         /\ Load(a, b, s, fate).held.peer # None => a.set.out # Jack
         /\ a.held.peer # None /\ Load(a, b, s, fate).held.peer = a.held.peer
            => Load(a, b, s, fate).set.wired = a.set.wired
<1> DEFINE w == Load(a, b, s, fate)
           y == Sync(a, b)
           r == Restored(y, s)
<1>1. /\ y \in Player /\ PutAside(y) /\ y.music = a.music /\ y.set.out = a.set.out
      /\ y.held.peer # None => a.set.out # Jack
      /\ a.held.peer = None /\ y.held.peer = None => y = a
      /\ a.held.peer # None /\ y.held.peer = None => y.soft = y.set.volume
      /\ a.held.peer # None /\ y.held.peer = a.held.peer => y.set.wired = a.set.wired
  BY SyncKeeps
<1> HIDE DEF y
<1>2. /\ r \in Player /\ PutAside(r) /\ r.music = y.music /\ r.soft = y.soft /\ r.held = y.held
      /\ y.held.peer = None => r.set = s
      /\ y.held.peer # None => r.set.wired = y.set.wired
  BY <1>1, RestoredKeeps
<1> HIDE DEF r, w
<1>3. CASE fate = "refused"
  <2>1. w = r
    BY <1>3 DEF Load, y, r, w
  <2>2. NotLouder(r)
    <3>1. SUFFICES ASSUME r.music # "stopped", r.held.peer = None, r.set.wired = NoVolume
                   PROVE  r.soft <= r.set.volume
      BY DEF NotLouder
    <3>2. r.set = s /\ y.held.peer = None /\ s.wired = NoVolume
      BY <1>2, <3>1
    <3>3. a.held.peer = None /\ y = a
      BY <1>1, <3>2
    <3>4. QED
      BY <1>2, <3>1, <3>2, <3>3
  <2>3. QED
    BY <1>1, <1>2, <2>1, <2>2 DEF w
<1>4. CASE fate = "failed"
  <2> DEFINE t == Stops(r)
  <2>1. t \in Player /\ PutAside(t) /\ t.set = r.set /\ t.held = r.held /\ t.music = "stopped" /\ t.amp = None
    BY <1>2, StopsKeeps
  <2>2. w = Checkpoint(t)
    BY <1>4 DEF Load, y, r, w
  <2> HIDE DEF t
  <2>3. w \in Player /\ PutAside(w) /\ w.set = t.set /\ w.held = t.held /\ w.music = "stopped" /\ w.amp = None
    BY <2>1, <2>2, CheckpointKeeps
  <2>4. NotLouder(w)
    BY <2>3 DEF NotLouder
  <2>5. QED
    BY <1>1, <1>2, <2>1, <2>3, <2>4 DEF w
<1>5. CASE fate = "starts"
  <2> DEFINE t == Stops(y)
             v == SinkVolume(y)
             x == [t EXCEPT !.soft = v, !.music = "starting", !.before = <<s>>]
  <2>1. t \in Player /\ PutAside(t) /\ t.set = y.set /\ t.held = y.held /\ t.amp = None
    BY <1>1, StopsKeeps
  <2>2. w = x
    BY <1>5 DEF Load, y, w
  <2>3. v \in Scale
    BY <1>1 DEF SinkVolume, Player, Settings, Scale, VolumeBounds
  <2>4. y.held.peer = None => v = y.set.volume
    BY DEF SinkVolume
  <2>5. <<s>> \in Starts /\ "starting" \in Musics
    BY DEF Starts, Musics
  <2> HIDE DEF t, v
  <2>6. x \in Player /\ x.set = t.set /\ x.held = t.held /\ x.amp = t.amp /\ x.soft = v
    BY <2>1, <2>3, <2>5 DEF Player
  <2> HIDE DEF x
  <2>7. PutAside(x)
    BY <2>1, <2>6 DEF PutAside
  <2>8. v <= v
    BY <2>3 DEF Scale
  <2>9. NotLouder(x)
    BY <2>1, <2>4, <2>6, <2>8 DEF NotLouder
  <2>10. QED
    BY <1>1, <2>1, <2>2, <2>6, <2>7, <2>9 DEF w
<1>6. QED
  BY <1>3, <1>4, <1>5 DEF w

-----------------------------------------------------------------------------
(* A start in progress is one of music that has not stopped. *)
Underway(a) == a.before # <<>> => a.music # "stopped"
Waits == {"before", "music", "held", "set", "soft"}
Alike(a, b) == DOMAIN a = DOMAIN b /\ a.before = b.before /\ a.music = b.music

LEMMA VolumeWaits ==
  ASSUME NEW a, Waits \subseteq DOMAIN a, NEW b, NEW s
  PROVE  /\ Waits \subseteq DOMAIN CapWired(a) /\ CapWired(a).before = a.before /\ CapWired(a).music = a.music
         /\ Waits \subseteq DOMAIN Send(a) /\ Send(a).before = a.before /\ Send(a).music = a.music
         /\ Waits \subseteq DOMAIN GiveBack(a, b) /\ GiveBack(a, b).before = a.before /\ GiveBack(a, b).music = a.music
         /\ Waits \subseteq DOMAIN TakeOver(a, b) /\ TakeOver(a, b).before = a.before /\ TakeOver(a, b).music = a.music
BY DEF CapWired, Send, GiveBack, TakeOver, Waits

LEMMA SyncWaits ==
  ASSUME NEW a, Waits \subseteq DOMAIN a, NEW b
  PROVE  Waits \subseteq DOMAIN Sync(a, b) /\ Sync(a, b).before = a.before /\ Sync(a, b).music = a.music
<1> DEFINE g == GiveBack(a, b)
           t == TakeOver(g, b)
<1>1. Waits \subseteq DOMAIN g /\ g.before = a.before /\ g.music = a.music
  BY VolumeWaits
<1> HIDE DEF g
<1>2. Waits \subseteq DOMAIN t /\ t.before = g.before /\ t.music = g.music
  BY <1>1, VolumeWaits
<1> HIDE DEF t
<1>3. Waits \subseteq DOMAIN Send(t) /\ Send(t).before = t.before /\ Send(t).music = t.music
  BY <1>2, VolumeWaits
<1>4. Sync(a, b) = Send(t) \/ Sync(a, b) = t
  BY DEF Sync, g, t
<1>5. QED
  BY <1>1, <1>2, <1>3, <1>4

LEMMA StartWaits ==
  ASSUME NEW a, Waits \subseteq DOMAIN a, NEW s
  PROVE  /\ Waits \subseteq DOMAIN Restored(a, s) /\ Restored(a, s).before = <<>>
         /\ Waits \subseteq DOMAIN Stops(a) /\ Stops(a).before = a.before
         /\ Waits \subseteq DOMAIN Checkpoint(a) /\ Checkpoint(a).before = a.before /\ Checkpoint(a).music = a.music
BY DEF Restored, Stops, Checkpoint, Waits

LEMMA RestartWaits ==
  ASSUME NEW a, Waits \subseteq DOMAIN a, NEW s
  PROVE  /\ Waits \subseteq DOMAIN Checkpoint(Stops(Restored(a, s)))
         /\ Checkpoint(Stops(Restored(a, s))).before = <<>>
<1> DEFINE r == Restored(a, s)
           t == Stops(r)
<1>1. Waits \subseteq DOMAIN r /\ r.before = <<>>
  BY StartWaits
<1> HIDE DEF r
<1>2. Waits \subseteq DOMAIN t /\ t.before = <<>>
  BY <1>1, StartWaits
<1> HIDE DEF t
<1>3. Waits \subseteq DOMAIN Checkpoint(t) /\ Checkpoint(t).before = <<>>
  BY <1>2, StartWaits
<1>4. QED
  BY <1>3 DEF t, r

LEMMA LoadWaits ==
  ASSUME NEW a, Waits \subseteq DOMAIN a, NEW b, NEW s, NEW fate \in {"refused", "failed", "starts"}
  PROVE  Underway(Load(a, b, s, fate))
<1> DEFINE w == Sync(a, b)
           t == Stops(w)
           r == Restored(w, s)
           x == [t EXCEPT !.soft = SinkVolume(w), !.music = "starting", !.before = <<s>>]
<1>1. Waits \subseteq DOMAIN w
  BY SyncWaits
<1>2. Waits \subseteq DOMAIN t /\ r.before = <<>>
  BY <1>1, StartWaits
<1>3. Checkpoint(Stops(r)).before = <<>>
  BY <1>1, RestartWaits
<1>4. Load(a, b, s, fate) \in {r, Checkpoint(Stops(r)), x}
  BY DEF Load
<1> HIDE DEF w, t
<1>5. x.music = "starting"
  BY <1>2 DEF Waits
<1>6. QED
  BY <1>2, <1>3, <1>4, <1>5 DEF Underway

LEMMA PausedWaits ==
  ASSUME NEW a, Waits \subseteq DOMAIN a
  PROVE  Waits \subseteq DOMAIN Paused(a) /\ Paused(a).before = <<>>
<1>1. CASE a.before = <<>>
  <2> DEFINE x == [a EXCEPT !.music = "paused"]
  <2>1. Waits \subseteq DOMAIN x /\ x.before = <<>>
    BY <1>1 DEF Waits
  <2>2. Paused(a) = Checkpoint(x)
    BY <1>1 DEF Paused
  <2> HIDE DEF x
  <2>3. QED
    BY <2>1, <2>2, StartWaits
<1>2. CASE a.before # <<>>
  BY <1>2, RestartWaits DEF Paused
<1>3. QED
  BY <1>1, <1>2

(* A step that touches neither the start in progress nor the music. *)
LEMMA SoundsWait ==
  ASSUME NEW a, Waits \subseteq DOMAIN a
  PROVE  Sounds(a).before = a.before /\ Sounds(a).music = a.music
<1> DEFINE x == [a EXCEPT !.soft = SinkVolume(a)]
<1>1. Waits \subseteq DOMAIN x /\ x.before = a.before /\ x.music = a.music
  BY DEF Waits
<1>2. Sounds(a) = Send(x)
  BY DEF Sounds
<1> HIDE DEF x
<1>3. QED
  BY <1>1, <1>2, VolumeWaits

LEMMA LoadsWait ==
  ASSUME NEW a, Waits \subseteq DOMAIN a, Loads(a)
  PROVE  Underway(player')
<1>1. PICK fate \in Fates(a, known) : player' = Load(a, known, player.set, fate)
  BY DEF Loads
<1>2. fate \in {"refused", "failed", "starts"}
  BY DEF Fates
<1>3. QED
  BY <1>1, <1>2, LoadWaits

LEMMA CheckedWait ==
  ASSUME NEW a, Waits \subseteq DOMAIN a, Underway(a), player' = Checkpoint(a)
  PROVE  Underway(player')
<1>1. Checkpoint(a).before = a.before /\ Checkpoint(a).music = a.music
  BY StartWaits
<1>2. QED
  BY <1>1 DEF Underway

LEMMA UnderwayStep ==
  ASSUME VolumeInv, Underway(player), VolumeNext
  PROVE  Underway(player')
<1>1. Waits \subseteq DOMAIN player /\ DOMAIN player = {"set", "held", "soft", "music", "kernel", "amp", "cmds", "before", "modal", "fading", "saved"}
  BY DEF VolumeInv, Player, Waits
<1>2. CASE Play
  <2> DEFINE x == [player EXCEPT !.music = "playing"]
  <2>1. Waits \subseteq DOMAIN x /\ x.before = player.before /\ x.music = "playing"
    BY <1>1 DEF Waits
  <2>2. Loads(player) \/ player' = Checkpoint(x)
    BY <1>2 DEF Play
  <2> HIDE DEF x
  <2>3. Underway(x)
    BY <2>1 DEF Underway
  <2>4. QED
    BY <1>1, <2>1, <2>2, <2>3, LoadsWait, CheckedWait
<1>3. CASE Pause
  BY <1>1, <1>3, PausedWaits DEF Pause, Underway
<1>4. CASE StartEnds
  <2> DEFINE x == [player EXCEPT !.music = "playing", !.before = <<>>,
                                 !.amp = IF player.set.out = Jack THEN player.kernel ELSE None]
  <2>1. Waits \subseteq DOMAIN x /\ x.before = <<>>
    BY <1>1 DEF Waits
  <2>2. Checkpoint(x).before = <<>>
    <3> HIDE DEF x
    <3>1. QED
      BY <2>1, StartWaits
  <2>3. QED
    BY <1>1, <1>4, <2>2, RestartWaits DEF StartEnds, Underway
<1>5. ASSUME NEW out \in Peers \cup {Jack}, Switch(out) PROVE Underway(player')
  <2> DEFINE moved == [player EXCEPT !.set.out = out]
             a == IF out = Jack THEN CapWired(moved) ELSE moved
  <2>1. Waits \subseteq DOMAIN moved /\ moved.before = player.before
    BY <1>1 DEF Waits
  <2>2. Loads(a) \/ player' = Checkpoint(a)
    BY <1>5 DEF Switch
  <2>3. player.before = <<>>
    BY <1>5 DEF Switch, Idle
  <2> HIDE DEF moved
  <2>4. Waits \subseteq DOMAIN a /\ a.before = <<>>
    BY <2>1, <2>3, VolumeWaits
  <2> HIDE DEF a
  <2>5. Underway(a)
    BY <2>4 DEF Underway
  <2>6. QED
    BY <2>2, <2>4, <2>5, LoadsWait, CheckedWait
<1>6. CASE Louder \/ Agree
  <2> DEFINE x == Stepped(player, 1)
             z == [player EXCEPT !.set.loud = TRUE, !.modal = FALSE]
             c == Checkpoint(z)
             y == Stepped(c, 1)
  <2>1. player.before = <<>>
    BY <1>6 DEF Louder, Agree, Idle
  <2>2. Waits \subseteq DOMAIN x /\ x.before = <<>>
    BY <1>1, <2>1 DEF Waits, Stepped
  <2>3. Waits \subseteq DOMAIN z /\ z.before = <<>>
    BY <1>1, <2>1 DEF Waits
  <2>4. Waits \subseteq DOMAIN c /\ c.before = <<>>
    <3> HIDE DEF z
    <3>1. QED
      BY <2>3, StartWaits
  <2>5. Waits \subseteq DOMAIN y /\ y.before = <<>>
    <3> HIDE DEF c
    <3>1. QED
      BY <2>4 DEF Waits, Stepped
  <2>6. player' = Sounds(x) \/ player' = Sounds(y)
    BY <1>6 DEF Louder, Agree
  <2> HIDE DEF x, y
  <2>7. QED
    BY <2>2, <2>5, <2>6, SoundsWait DEF Underway
<1>7. CASE Quieter
  <2> DEFINE x == [player EXCEPT !.set.volume = @ - 1]
  <2>1. Waits \subseteq DOMAIN x /\ x.before = <<>>
    BY <1>1, <1>7 DEF Waits, Quieter, Idle
  <2>2. player' = Sounds(x)
    BY <1>7 DEF Quieter
  <2> HIDE DEF x
  <2>3. QED
    BY <2>1, <2>2, SoundsWait DEF Underway
<1>8. ASSUME NEW v \in 0..Full, Control(v) PROVE Underway(player')
  <2>1. PICK u : player' = Sounds([player EXCEPT !.set.volume = u])
    BY <1>8 DEF Control
  <2> DEFINE x == [player EXCEPT !.set.volume = u]
  <2>2. Waits \subseteq DOMAIN x /\ x.before = <<>>
    BY <1>1, <1>8 DEF Waits, Control, Idle
  <2> HIDE DEF x
  <2>3. QED
    BY <2>1, <2>2, SoundsWait DEF Underway, x
<1>9. CASE Decline \/ Fade \/ CommandEnds \/ EchoEnds
  <2>1. player'.before = player.before /\ player'.music = player.music
    BY <1>1, <1>9 DEF Decline, Fade, CommandEnds, EchoEnds
  <2>2. QED
    BY <2>1 DEF Underway
<1>10. ASSUME NEW l \in Levels, SetLevel(l) PROVE Underway(player')
  <2> DEFINE a == AtLevel(player, l)
  <2>1. Waits \subseteq DOMAIN a /\ a.before = <<>>
    BY <1>1, <1>10 DEF Waits, AtLevel, SetLevel, Idle
  <2>2. player' = Checkpoint(a) \/ Loads(a) \/ player' = Checkpoint(Stops(a))
    BY <1>10 DEF SetLevel
  <2> HIDE DEF a
  <2>3. Waits \subseteq DOMAIN Stops(a) /\ Stops(a).before = <<>>
    BY <2>1, StartWaits
  <2>4. Underway(a) /\ Underway(Stops(a))
    BY <2>1, <2>3 DEF Underway
  <2>5. QED
    BY <2>1, <2>2, <2>3, <2>4, LoadsWait, CheckedWait
<1>11. CASE AgreementLapses
  <2> DEFINE x == [player EXCEPT !.set.loud = FALSE]
             y == CapWired(x)
  <2>1. Waits \subseteq DOMAIN x /\ x.before = player.before /\ x.music = player.music
    BY <1>1 DEF Waits
  <2>2. player' = Checkpoint(y)
    BY <1>11 DEF AgreementLapses
  <2> HIDE DEF x
  <2>3. Waits \subseteq DOMAIN y /\ y.before = player.before /\ y.music = player.music
    BY <2>1, VolumeWaits
  <2> HIDE DEF y
  <2>4. Underway(y)
    BY <2>3 DEF Underway
  <2>5. QED
    BY <2>2, <2>3, <2>4, CheckedWait
<1>12. CASE FadeEnds
  <2>1. PICK a \in {player, Paused(player)} : player' = [a EXCEPT !.soft = player.set.volume, !.fading = FALSE]
    BY <1>12 DEF FadeEnds
  <2>2. CASE a = player
    <3>1. player'.before = player.before /\ player'.music = player.music
      BY <1>1, <2>1, <2>2
    <3>2. QED
      BY <3>1 DEF Underway
  <2>3. CASE a = Paused(player)
    <3>1. a.before = <<>> /\ "before" \in DOMAIN a
      BY <1>1, <2>3, PausedWaits DEF Waits
    <3>2. QED
      <4>1. player'.before = a.before
        BY <2>1, <3>1
      <4>2. QED
        BY <3>1, <4>1 DEF Underway
  <2>4. QED
    BY <2>1, <2>2, <2>3
<1>13. ASSUME NEW p \in Peers, Headphones(p) PROVE Underway(player')
  BY <1>13 DEF Headphones
<1>14. CASE BluetoothPass
  <2> DEFINE r == IF player.before = <<>> THEN player ELSE Restored(player, player.before[1])
             j == [r EXCEPT !.set.out = Jack]
             t == Stops(j)
             l == Checkpoint(t)
  <2>1. Waits \subseteq DOMAIN r /\ r.before = <<>>
    BY <1>1, StartWaits
  <2> HIDE DEF r
  <2>2. Waits \subseteq DOMAIN j /\ j.before = <<>>
    BY <2>1 DEF Waits
  <2> HIDE DEF j
  <2>3. Waits \subseteq DOMAIN t /\ t.before = <<>>
    BY <2>2, StartWaits
  <2> HIDE DEF t
  <2>4. Waits \subseteq DOMAIN l /\ l.before = <<>>
    BY <2>3, StartWaits
  <2>5. player' = Sync(l, phones) \/ player' = Sync(player, phones)
    BY <1>14 DEF BluetoothPass, PeerLost, l, t, j, r
  <2> HIDE DEF l
  <2>6. QED
    BY <1>1, <2>4, <2>5, SyncWaits DEF Underway
<1>15. CASE ProcessRestarts
  BY <1>15 DEF ProcessRestarts, NewPlayer, Underway
<1>16. QED
  BY <1>2, <1>3, <1>4, <1>5, <1>6, <1>7, <1>8, <1>9, <1>10, <1>11, <1>12, <1>13, <1>14, <1>15 DEF VolumeNext

-----------------------------------------------------------------------------
(* What VolumeIsAgreed says of one step. *)
NoLouder ==
  player.music = "playing" /\ player.amp = player.set.level /\ player'.amp = player.amp
    /\ WiredSink(player) /\ WiredSink(player') /\ player.set.wired = NoVolume /\ ~player'.set.loud
  => player'.soft <= player.set.volume \/ player'.soft <= Safe[player.amp]
KeepsHeld ==
  player.held.peer # None /\ player'.held.peer = player.held.peer /\ player'.set.level = player.set.level
  => player'.set.wired = player.set.wired /\ player'.set.absolute
StepIsAgreed == VolumeInv' /\ NoLouder /\ KeepsHeld

LEMMA StepFrame ==
  ASSUME VolumeBounds, VolumeInv, NEW w \in Player, player' = w, PutAside(w), NotLouder(w),
         phones' \in [Peers -> Nat], known' \in [Peers -> Nat],
         WiredSink(player) /\ player.music = "playing" /\ player.set.wired = NoVolume /\ WiredSink(w)
           /\ w.amp # None /\ ~w.set.loud
         => w.soft <= player.set.volume \/ w.soft <= Safe[player.set.level],
         player.held.peer # None /\ w.held.peer = player.held.peer /\ w.set.level = player.set.level
         => w.set.wired = player.set.wired
  PROVE  StepIsAgreed
<1>1. VolumeInv'
  BY DEF VolumeInv, PutAside, NotLouder
<1>2. player.set.level # None
  BY DEF VolumeInv, Player, Settings, VolumeBounds
<1>3. NoLouder
  BY <1>2 DEF NoLouder
<1>4. KeepsHeld
  BY DEF KeepsHeld, PutAside
<1>5. QED
  BY <1>1, <1>3, <1>4 DEF StepIsAgreed

(* What the steps know of the player. *)
LEMMA PlayerFacts ==
  ASSUME VolumeInv
  PROVE  /\ player \in Player /\ PutAside(player) /\ NotLouder(player) /\ player.set \in Settings /\ player.held \in HeldVolume
         /\ player.soft \in Scale /\ player.set.volume \in Scale /\ phones \in [Peers -> Nat] /\ known \in [Peers -> Nat]
         /\ player.music # "stopped" /\ player.held.peer = None /\ player.set.wired = NoVolume => player.soft <= player.set.volume
BY DEF VolumeInv, Player, Settings, NotLouder

(* A step that leaves the settings and makes nothing louder. *)
LEMMA QuietStep ==
  ASSUME VolumeBounds, VolumeInv, NEW w \in Player, player' = w, PutAside(w),
         w.music = "stopped" \/ player.music # "stopped",
         w.set.volume = player.set.volume, w.set.wired = player.set.wired, w.held.peer = player.held.peer,
         w.soft = player.soft \/ w.soft <= player.set.volume,
         phones' \in [Peers -> Nat], known' \in [Peers -> Nat]
  PROVE  StepIsAgreed
<1>1. NotLouder(w)
  BY PlayerFacts DEF NotLouder
<1>2. player.music = "playing" => player.music # "stopped"
  OBVIOUS
<1>3. QED
  BY <1>1, <1>2, PlayerFacts, StepFrame DEF WiredSink

(* A step that stops the music. *)
LEMMA StoppingStep ==
  ASSUME VolumeBounds, VolumeInv, NEW w \in Player, player' = w, PutAside(w), w.music = "stopped", w.amp = None,
         player.held.peer # None /\ w.held.peer = player.held.peer /\ w.set.level = player.set.level
         => w.set.wired = player.set.wired,
         phones' \in [Peers -> Nat], known' \in [Peers -> Nat]
  PROVE  StepIsAgreed
<1>1. NotLouder(w)
  BY DEF NotLouder
<1>2. QED
  BY <1>1, StepFrame

LEMMA LoadsStep ==
  ASSUME VolumeBounds, VolumeInv, NEW a \in Player, PutAside(a), a.held.peer = player.held.peer,
         a.music = player.music, a.set.wired = player.set.wired \/ a.set.out = Jack,
         a.held.peer = None /\ a.music # "stopped" /\ player.set.wired = NoVolume => a.soft <= player.set.volume,
         Loads(a), Same
  PROVE  StepIsAgreed
<1>1. /\ known \in [Peers -> Nat] /\ player.set \in Settings /\ PutAside(player)
      /\ phones' \in [Peers -> Nat] /\ known' \in [Peers -> Nat]
  BY PlayerFacts DEF Same
<1>2. PICK fate \in Fates(a, known) : player' = Load(a, known, player.set, fate)
  BY DEF Loads
<1>3. fate \in {"refused", "failed", "starts"}
  BY <1>2 DEF Fates
<1> DEFINE w == Load(a, known, player.set, fate)
<1>4. a.held.peer # None => player.set.wired # NoVolume
  BY <1>1 DEF PutAside
<1> DEFINE v == player.set
<1>a. w = Load(a, known, v, fate) /\ v \in Settings /\ (a.held.peer # None => v.wired # NoVolume)
      /\ (a.held.peer = None /\ a.music # "stopped" /\ v.wired = NoVolume => a.soft <= v.volume)
  BY <1>1, <1>4
<1> HIDE DEF w, v
<1>5. /\ w \in Player /\ PutAside(w) /\ NotLouder(w)
      /\ w.amp = None \/ (a.held.peer = None /\ w.held.peer = None => w.soft = a.soft)
      /\ w.held.peer # None => a.set.out # Jack
      /\ a.held.peer # None /\ w.held.peer = a.held.peer => w.set.wired = a.set.wired
  BY <1>1, <1>3, <1>a, LoadKeeps
<1>6. player.music = "playing" => player.music # "stopped"
  OBVIOUS
<1>7. player' = w
  BY <1>2 DEF w
<1>8. WiredSink(player) /\ player.music = "playing" /\ player.set.wired = NoVolume /\ WiredSink(w) /\ w.amp # None
      => w.soft <= player.set.volume
  BY <1>5, <1>6 DEF WiredSink
<1>9. player.held.peer # None /\ w.held.peer = player.held.peer => w.set.wired = player.set.wired
  BY <1>5
<1>10. QED
  BY <1>1, <1>5, <1>7, <1>8, <1>9, StepFrame

-----------------------------------------------------------------------------
(* The steps, one by one. *)
LEMMA PausedKeeps ==
  ASSUME VolumeInv, NEW a \in Player, PutAside(a), NEW w, w = Paused(a)
  PROVE  /\ w \in Player /\ PutAside(w) /\ w.soft = a.soft /\ w.held = a.held
         /\ \/ w.music = "paused" /\ w.set = a.set /\ w.amp = a.amp
            \/ w.music = "stopped" /\ w.amp = None /\ (a.held.peer # None => w.set.wired = a.set.wired)
<1>1. CASE a.before = <<>>
  <2> DEFINE x == [a EXCEPT !.music = "paused"]
  <2>1. "paused" \in Musics
    BY DEF Musics
  <2>2. x \in Player /\ x.set = a.set /\ x.held = a.held /\ x.soft = a.soft /\ x.music = "paused" /\ x.amp = a.amp
    BY <2>1 DEF Player
  <2>3. w = Checkpoint(x)
    BY <1>1 DEF Paused
  <2> HIDE DEF x
  <2>4. PutAside(x)
    BY <2>2 DEF PutAside
  <2>5. QED
    BY <2>2, <2>3, <2>4, CheckpointKeeps
<1>2. CASE a.before # <<>>
  <2> DEFINE s == a.before[1]
             r == Restored(a, s)
             t == Stops(r)
  <2>1. s \in Settings
    BY <1>2 DEF Player, Starts
  <2>2. w = Checkpoint(t)
    BY <1>2 DEF Paused
  <2> HIDE DEF s
  <2>3. r \in Player /\ PutAside(r) /\ r.soft = a.soft /\ r.held = a.held /\ (a.held.peer # None => r.set.wired = a.set.wired)
    BY <2>1, RestoredKeeps
  <2> HIDE DEF r
  <2>4. t \in Player /\ PutAside(t) /\ t.set = r.set /\ t.held = r.held /\ t.soft = r.soft /\ t.music = "stopped" /\ t.amp = None
    BY <2>3, StopsKeeps
  <2> HIDE DEF t
  <2>5. QED
    BY <2>2, <2>3, <2>4, CheckpointKeeps
<1>3. QED
  BY <1>1, <1>2

LEMMA SoundsKeeps ==
  ASSUME VolumeBounds, NEW a \in Player, PutAside(a), NEW w, w = Sounds(a)
  PROVE  /\ w \in Player /\ PutAside(w) /\ NotLouder(w) /\ w.set = a.set /\ w.held.peer = a.held.peer
         /\ w.music = a.music /\ w.amp = a.amp /\ (a.held.peer = None => w.soft = a.set.volume)
<1> DEFINE v == SinkVolume(a)
           x == [a EXCEPT !.soft = v]
<1>1. v \in Scale /\ (a.held.peer = None => v = a.set.volume)
  BY DEF SinkVolume, Player, Settings, Scale, VolumeBounds
<1> HIDE DEF v
<1>2. x \in Player /\ x.set = a.set /\ x.held = a.held /\ x.music = a.music /\ x.amp = a.amp /\ x.soft = v
  BY <1>1 DEF Player
<1>3. w = Send(x)
  BY DEF Sounds, v
<1> HIDE DEF x
<1>4. w \in Player /\ w.set = x.set /\ w.soft = x.soft /\ w.music = x.music /\ w.held.peer = x.held.peer /\ w.amp = x.amp
  BY <1>2, <1>3, SendKeeps
<1>5. PutAside(w)
  BY <1>2, <1>4 DEF PutAside
<1>6. v <= v
  BY <1>1 DEF Scale
<1>7. NotLouder(w)
  BY <1>1, <1>2, <1>4, <1>6 DEF NotLouder
<1>8. QED
  BY <1>1, <1>2, <1>4, <1>5, <1>7

(* A new volume asked for: no more than what was allowed, on the jack. *)
LEMMA VolumeStep ==
  ASSUME VolumeBounds, VolumeInv, NEW a \in Player, player' = Sounds(a), Same,
         a.held = player.held, a.music = player.music, a.set.wired = player.set.wired, a.set.absolute = player.set.absolute,
         WiredSink(player) /\ ~a.set.loud => a.set.volume <= player.set.volume \/ a.set.volume <= Safe[player.set.level]
  PROVE  StepIsAgreed
<1>1. PutAside(player) /\ phones' \in [Peers -> Nat] /\ known' \in [Peers -> Nat]
  BY PlayerFacts DEF Same
<1>2. PutAside(a)
  BY <1>1 DEF PutAside
<1> DEFINE w == Sounds(a)
<1>3. /\ w \in Player /\ PutAside(w) /\ NotLouder(w) /\ w.set = a.set /\ w.held.peer = a.held.peer
      /\ w.music = a.music /\ (a.held.peer = None => w.soft = a.set.volume)
  BY <1>2, SoundsKeeps
<1>4. player' = w
  OBVIOUS
<1> HIDE DEF w
<1>5. WiredSink(player) /\ ~w.set.loud => w.soft <= player.set.volume \/ w.soft <= Safe[player.set.level]
  BY <1>3 DEF WiredSink
<1>6. player.held.peer # None /\ w.held.peer = player.held.peer => w.set.wired = player.set.wired
  BY <1>3
<1>7. QED
  BY <1>1, <1>3, <1>4, <1>5, <1>6, StepFrame

LEMMA PlayAgreed ==
  ASSUME VolumeBounds, VolumeInv, Play
  PROVE  StepIsAgreed
<1>1. Same /\ phones' \in [Peers -> Nat] /\ known' \in [Peers -> Nat] /\ player \in Player /\ PutAside(player)
  BY PlayerFacts DEF Play, Same
<1>2. CASE player.music = "paused" /\ player' = Checkpoint([player EXCEPT !.music = "playing"])
  <2> DEFINE a == [player EXCEPT !.music = "playing"]
             w == Checkpoint(a)
  <2>1. "playing" \in Musics
    BY DEF Musics
  <2>2. a \in Player /\ a.set = player.set /\ a.held = player.held /\ a.soft = player.soft
    BY <1>1, <2>1 DEF Player
  <2>3. player' = Checkpoint(a)
    BY <1>2
  <2> HIDE DEF a
  <2>4. PutAside(a)
    BY <1>1, <2>2 DEF PutAside
  <2>5. w \in Player /\ PutAside(w) /\ w.set = a.set /\ w.held = a.held /\ w.soft = a.soft
    BY <2>2, <2>4, CheckpointKeeps
  <2>6. player' = w
    BY <2>3
  <2> HIDE DEF w
  <2>7. QED
    BY <1>1, <1>2, <2>2, <2>5, <2>6, QuietStep
<1>3. CASE player.music = "stopped" /\ Loads(player)
  BY <1>1, <1>3, LoadsStep
<1>4. QED
  BY <1>2, <1>3 DEF Play

LEMMA PauseAgreed ==
  ASSUME VolumeBounds, VolumeInv, Pause
  PROVE  StepIsAgreed
<1>1. phones' \in [Peers -> Nat] /\ known' \in [Peers -> Nat] /\ player \in Player /\ PutAside(player)
  BY PlayerFacts DEF Pause, Same
<1> DEFINE w == Paused(player)
<1>2. player' = w
  BY DEF Pause
<1>3. /\ w \in Player /\ PutAside(w) /\ w.soft = player.soft /\ w.held = player.held
      /\ \/ w.music = "paused" /\ w.set = player.set /\ w.amp = player.amp
         \/ w.music = "stopped" /\ w.amp = None /\ (player.held.peer # None => w.set.wired = player.set.wired)
  BY <1>1, PausedKeeps
<1>4. player.music # "stopped"
  BY DEF Pause, Active
<1> HIDE DEF w
<1>5. CASE w.music = "paused" /\ w.set = player.set
  BY <1>1, <1>2, <1>3, <1>4, <1>5, QuietStep
<1>6. CASE w.music = "stopped" /\ w.amp = None /\ (player.held.peer # None => w.set.wired = player.set.wired)
  BY <1>1, <1>2, <1>3, <1>6, StoppingStep
<1>7. QED
  BY <1>3, <1>5, <1>6

LEMMA StartEndsAgreed ==
  ASSUME VolumeBounds, VolumeInv, Underway(player), StartEnds
  PROVE  StepIsAgreed
<1>1. /\ phones' \in [Peers -> Nat] /\ known' \in [Peers -> Nat] /\ player \in Player /\ PutAside(player)
      /\ player.before # <<>> /\ player.music # "stopped"
  BY PlayerFacts DEF StartEnds, Same, Idle, Underway
<1> DEFINE amp == IF player.set.out = Jack THEN player.kernel ELSE None
           a == [player EXCEPT !.music = "playing", !.before = <<>>, !.amp = amp]
<1>2. CASE player' = Checkpoint(a)
  <2> DEFINE w == Checkpoint(a)
  <2>1. "playing" \in Musics /\ <<>> \in Starts /\ amp \in Amplifiers
    BY <1>1 DEF Musics, Starts, Amplifiers, Player
  <2> HIDE DEF amp
  <2>2. a \in Player /\ a.set = player.set /\ a.held = player.held /\ a.soft = player.soft /\ a.music = "playing"
    BY <1>1, <2>1 DEF Player
  <2> HIDE DEF a
  <2>3. PutAside(a)
    BY <1>1, <2>2 DEF PutAside
  <2>4. w \in Player /\ PutAside(w) /\ w.set = a.set /\ w.held = a.held /\ w.soft = a.soft
    BY <2>2, <2>3, CheckpointKeeps
  <2>5. player' = w
    BY <1>2
  <2> HIDE DEF w
  <2>6. QED
    BY <1>1, <2>2, <2>4, <2>5, QuietStep
<1>3. CASE player' = Checkpoint(Stops(Restored(player, player.before[1])))
  <2> DEFINE s == player.before[1]
             r == Restored(player, s)
             t == Stops(r)
             w == Checkpoint(t)
  <2>2. s \in Settings
    BY <1>1 DEF Player, Starts
  <2> HIDE DEF s
  <2>3. r \in Player /\ PutAside(r) /\ r.held = player.held /\ (player.held.peer # None => r.set.wired = player.set.wired)
    BY <1>1, <2>2, RestoredKeeps
  <2> HIDE DEF r
  <2>4. t \in Player /\ PutAside(t) /\ t.set = r.set /\ t.held = r.held /\ t.music = "stopped" /\ t.amp = None
    BY <2>3, StopsKeeps
  <2> HIDE DEF t
  <2>5. /\ w \in Player /\ PutAside(w) /\ w.set = t.set /\ w.held = t.held /\ w.music = "stopped" /\ w.amp = None
    BY <2>4, CheckpointKeeps
  <2>6. player' = w
    BY <1>3 DEF s, r, t
  <2> HIDE DEF w
  <2>7. QED
    BY <1>1, <2>3, <2>4, <2>5, <2>6, StoppingStep
<1>4. QED
  BY <1>2, <1>3 DEF StartEnds

LEMMA SwitchAgreed ==
  ASSUME VolumeBounds, VolumeInv, NEW out \in Peers \cup {Jack}, Switch(out)
  PROVE  StepIsAgreed
<1>1. /\ Same /\ phones' \in [Peers -> Nat] /\ known' \in [Peers -> Nat] /\ player \in Player /\ PutAside(player)
      /\ player.set \in Settings
  BY PlayerFacts DEF Switch, Same
<1> DEFINE s == [player.set EXCEPT !.out = out]
           moved == [player EXCEPT !.set = s]
           a == IF out = Jack THEN CapWired(moved) ELSE moved
<1>2. Loads(a) \/ (~Active(player) /\ player' = Checkpoint(a))
  BY <1>1 DEF Switch, Player
<1>3. s \in Settings /\ s.volume = player.set.volume /\ s.wired = player.set.wired /\ s.absolute = player.set.absolute
  BY <1>1 DEF Settings
<1> HIDE DEF s
<1>4. moved \in Player /\ moved.set = s /\ moved.held = player.held /\ moved.music = player.music /\ moved.soft = player.soft
  BY <1>1, <1>3 DEF Player
<1> HIDE DEF moved
<1>5. /\ a \in Player /\ a.held = player.held /\ a.music = player.music /\ a.set.wired = player.set.wired
      /\ a.set.absolute = player.set.absolute
      /\ \/ a.soft = player.soft /\ a.set.volume = player.set.volume
         \/ a.soft <= player.set.volume /\ a.set.volume = a.soft
  BY <1>3, <1>4, CapWiredKeeps
<1> HIDE DEF a
<1>6. PutAside(a)
  BY <1>1, <1>5 DEF PutAside
<1>7. a.held.peer = None /\ a.music # "stopped" /\ player.set.wired = NoVolume => a.soft <= player.set.volume
  BY <1>5, PlayerFacts
<1>8. CASE Loads(a)
  BY <1>1, <1>5, <1>6, <1>7, <1>8, LoadsStep
<1>9. CASE ~Active(player) /\ player' = Checkpoint(a)
  <2> DEFINE w == Checkpoint(a)
  <2>1. w \in Player /\ PutAside(w) /\ w.set = a.set /\ w.held = a.held /\ w.soft = a.soft /\ w.music = a.music
    BY <1>5, <1>6, CheckpointKeeps
  <2>2. player' = w
    BY <1>9
  <2> HIDE DEF w
  <2>3. a.soft \in Scale
    BY <1>5 DEF Player
  <2>4. NotLouder(w)
    BY <1>5, <2>1, <2>3, PlayerFacts DEF NotLouder, Scale
  <2>5. player.music # "playing"
    BY <1>9 DEF Active
  <2>6. QED
    BY <1>1, <1>5, <2>1, <2>2, <2>4, <2>5, StepFrame
<1>10. QED
  BY <1>2, <1>8, <1>9

LEMMA AtLevelKeeps ==
  ASSUME VolumeBounds, NEW a \in Player, PutAside(a), NotLouder(a), NEW l \in Levels
  PROVE  /\ AtLevel(a, l) \in Player /\ PutAside(AtLevel(a, l)) /\ NotLouder(AtLevel(a, l))
         /\ AtLevel(a, l).held = a.held /\ AtLevel(a, l).music = a.music /\ AtLevel(a, l).set.out = a.set.out
         /\ AtLevel(a, l).set.level = l
         /\ AtLevel(a, l).soft = a.soft \/ AtLevel(a, l).soft <= a.set.volume
<1> DEFINE s == a.set
           v == ForLevel(s.volume, s.level, l)
           u == ForLevel(s.wired, s.level, l)
           w == AtLevel(a, l)
<1>1. s \in Settings /\ s.volume \in Scale /\ a.soft \in Scale /\ s.level \in Levels /\ s.wired \in 0..NoVolume /\ Full \in Nat
  BY DEF Player, Settings, VolumeBounds
<1>2. v \in Scale
  BY <1>1, LevelsMove DEF Scale
<1>3. CASE s.wired # NoVolume
  <2>1. s.wired \in 0..Full
    BY <1>1, <1>3 DEF NoVolume
  <2>2. u \in 0..NoVolume /\ u # NoVolume
    <3>1. u \in 0..Full
      BY <1>1, <2>1, LevelsMove
    <3> HIDE DEF u
    <3>2. QED
      BY <1>1, <3>1 DEF NoVolume
  <2> DEFINE t == [s EXCEPT !.level = l, !.wired = u]
             x == [a EXCEPT !.set = t, !.kernel = l]
  <2>3. w = x
    BY <1>3 DEF AtLevel, Player, Settings
  <2> HIDE DEF u, w
  <2>4. t \in Settings /\ t.out = s.out /\ t.level = l /\ t.wired = u /\ t.absolute = s.absolute
    BY <1>1, <2>2 DEF Settings
  <2> HIDE DEF t
  <2>5. x \in Player /\ x.set = t /\ x.held = a.held /\ x.music = a.music /\ x.soft = a.soft
    BY <2>4 DEF Player
  <2> HIDE DEF x
  <2>6. PutAside(x) /\ NotLouder(x)
    BY <2>2, <2>4, <2>5 DEF PutAside, NotLouder
  <2>7. QED
    BY <2>3, <2>4, <2>5, <2>6 DEF w
<1>4. CASE s.wired = NoVolume /\ WiredSink(a)
  <2> DEFINE z == IF v < s.volume THEN v ELSE a.soft
             t == [s EXCEPT !.level = l, !.volume = v]
             x == [a EXCEPT !.set = t, !.kernel = l, !.soft = z]
  <2>1. w = x
    BY <1>4 DEF AtLevel, Player, Settings
  <2> HIDE DEF v, w
  <2>2. z \in Scale /\ (z = a.soft \/ z <= s.volume) /\ (a.soft <= s.volume => z <= v)
    BY <1>1, <1>2 DEF Scale
  <2>3. t \in Settings /\ t.out = s.out /\ t.level = l /\ t.wired = s.wired /\ t.absolute = s.absolute /\ t.volume = v
    BY <1>1, <1>2 DEF Settings
  <2> HIDE DEF t, z
  <2>4. x \in Player /\ x.set = t /\ x.held = a.held /\ x.music = a.music /\ x.soft = z
    BY <2>2, <2>3 DEF Player
  <2> HIDE DEF x
  <2>5. PutAside(x)
    BY <2>3, <2>4 DEF PutAside
  <2>6. NotLouder(x)
    BY <2>2, <2>3, <2>4 DEF NotLouder
  <2>7. QED
    BY <2>1, <2>2, <2>3, <2>4, <2>5, <2>6 DEF w
<1>5. CASE s.wired = NoVolume /\ ~WiredSink(a)
  <2> DEFINE t == [s EXCEPT !.level = l]
             x == [a EXCEPT !.set = t, !.kernel = l]
  <2>1. w = x
    BY <1>5 DEF AtLevel, Player, Settings
  <2> HIDE DEF w
  <2>2. t \in Settings /\ t.out = s.out /\ t.level = l /\ t.wired = s.wired /\ t.absolute = s.absolute /\ t.volume = s.volume
    BY <1>1 DEF Settings
  <2> HIDE DEF t
  <2>3. x \in Player /\ x.set = t /\ x.held = a.held /\ x.music = a.music /\ x.soft = a.soft
    BY <2>2 DEF Player
  <2> HIDE DEF x
  <2>4. PutAside(x) /\ NotLouder(x)
    BY <2>2, <2>3 DEF PutAside, NotLouder
  <2>5. QED
    BY <2>1, <2>2, <2>3, <2>4 DEF w
<1>6. QED
  BY <1>3, <1>4, <1>5

LEMMA LevelAgreed ==
  ASSUME VolumeBounds, VolumeInv, NEW l \in Levels, SetLevel(l)
  PROVE  StepIsAgreed
<1>1. /\ Same /\ phones' \in [Peers -> Nat] /\ known' \in [Peers -> Nat] /\ player \in Player /\ PutAside(player)
      /\ NotLouder(player) /\ l # player.set.level
  BY PlayerFacts DEF SetLevel, Same
<1> DEFINE a == AtLevel(player, l)
<1>2. /\ a \in Player /\ PutAside(a) /\ NotLouder(a) /\ a.held = player.held /\ a.music = player.music
      /\ a.set.out = player.set.out /\ a.set.level = l /\ (a.soft = player.soft \/ a.soft <= player.set.volume)
  BY <1>1, AtLevelKeeps
<1>3. \/ player.set.out # Jack /\ player' = Checkpoint(a)
      \/ player.set.out = Jack /\ Loads(a)
      \/ player' = Checkpoint(Stops(a))
  BY DEF SetLevel
<1> HIDE DEF a
<1>4. CASE player.set.out # Jack /\ player' = Checkpoint(a)
  <2> DEFINE w == Checkpoint(a)
  <2>1. w \in Player /\ PutAside(w) /\ w.set = a.set /\ w.held = a.held /\ w.soft = a.soft /\ w.music = a.music
    BY <1>2, CheckpointKeeps
  <2>2. player' = w
    BY <1>4
  <2> HIDE DEF w
  <2>3. NotLouder(w)
    BY <1>2, <2>1 DEF NotLouder
  <2>4. ~WiredSink(player)
    BY <1>4 DEF WiredSink
  <2>5. QED
    BY <1>1, <1>2, <2>1, <2>2, <2>3, <2>4, StepFrame
<1>5. CASE player.set.out = Jack /\ Loads(a)
  <2>1. a.held.peer = None /\ a.music # "stopped" /\ player.set.wired = NoVolume => a.soft <= player.set.volume
    BY <1>2, PlayerFacts
  <2>2. QED
    BY <1>1, <1>2, <1>5, <2>1, LoadsStep
<1>6. CASE player' = Checkpoint(Stops(a))
  <2> DEFINE t == Stops(a)
             w == Checkpoint(t)
  <2>1. t \in Player /\ PutAside(t) /\ t.set = a.set /\ t.held = a.held /\ t.music = "stopped" /\ t.amp = None
    BY <1>2, StopsKeeps
  <2> HIDE DEF t
  <2>2. w \in Player /\ PutAside(w) /\ w.set = t.set /\ w.held = t.held /\ w.music = "stopped" /\ w.amp = None
    BY <2>1, CheckpointKeeps
  <2>3. player' = w
    BY <1>6 DEF t
  <2> HIDE DEF w
  <2>4. QED
    BY <1>1, <1>2, <2>1, <2>2, <2>3, StoppingStep
<1>7. QED
  BY <1>3, <1>4, <1>5, <1>6

(* The volume a change asks for, and nothing else of the settings. *)
LEMMA SetVolumeKeeps ==
  ASSUME VolumeBounds, NEW a \in Player, PutAside(a), NEW v \in Scale
  PROVE  LET x == [a EXCEPT !.set = [a.set EXCEPT !.volume = v]]
         IN /\ x \in Player /\ PutAside(x) /\ x.held = a.held /\ x.music = a.music /\ x.set.volume = v
            /\ x.set.wired = a.set.wired /\ x.set.absolute = a.set.absolute /\ x.set.loud = a.set.loud /\ x.modal = a.modal
            /\ x.set.out = a.set.out /\ x.set.level = a.set.level
<1> DEFINE s == [a.set EXCEPT !.volume = v]
           x == [a EXCEPT !.set = s]
<1>1. /\ s \in Settings /\ s.volume = v /\ s.wired = a.set.wired /\ s.absolute = a.set.absolute /\ s.loud = a.set.loud
      /\ s.out = a.set.out /\ s.level = a.set.level
  BY DEF Player, Settings
<1> HIDE DEF s
<1>2. x \in Player /\ x.set = s /\ x.held = a.held /\ x.music = a.music /\ x.modal = a.modal
  BY <1>1 DEF Player
<1> HIDE DEF x
<1>3. PutAside(x)
  BY <1>1, <1>2 DEF PutAside
<1>4. QED
  BY <1>1, <1>2, <1>3 DEF x, s

LEMMA SteppedKeeps ==
  ASSUME VolumeBounds, NEW a \in Player, PutAside(a)
  PROVE  /\ Stepped(a, 1) \in Player /\ Stepped(a, 1).held = a.held /\ Stepped(a, 1).music = a.music
         /\ Stepped(a, 1).set.wired = a.set.wired /\ Stepped(a, 1).set.absolute = a.set.absolute
         /\ Stepped(a, 1).set.loud = a.set.loud
         /\ WiredSink(a) /\ ~a.set.loud
            => Stepped(a, 1).set.volume <= a.set.volume \/ Stepped(a, 1).set.volume <= Safe[a.set.level]
<1> DEFINE up == Lowest(Full, a.set.volume + 1)
           beyond == WiredSink(a) /\ 1 > 0 /\ up > Limit(a)
           most == IF a.set.volume > Limit(a) THEN a.set.volume ELSE Limit(a)
           v == IF beyond THEN most ELSE up
           m == a.modal \/ beyond
           x == [a EXCEPT !.set = [a.set EXCEPT !.volume = v]]
           y == [x EXCEPT !.modal = m]
<1>1. a.set.volume \in Scale /\ a.set \in Settings /\ Full \in Nat \ {0} /\ Safe[a.set.level] \in 1..Full /\ m \in BOOLEAN
  BY DEF Player, Settings, VolumeBounds
<1>2. Limit(a) \in Scale /\ (~a.set.loud => Limit(a) = Safe[a.set.level])
  BY <1>1 DEF Limit, Scale
<1>3. up \in Scale /\ most \in Scale
  BY <1>1, <1>2 DEF Scale, Lowest
<1>4. v \in Scale
  BY <1>3
<1>5. WiredSink(a) /\ ~a.set.loud => v <= a.set.volume \/ v <= Safe[a.set.level]
  BY <1>1, <1>2, <1>3 DEF Scale
<1>6. Stepped(a, 1) = y
  BY DEF Stepped, Player
<1> HIDE DEF v, m
<1>7. /\ x \in Player /\ PutAside(x) /\ x.held = a.held /\ x.music = a.music /\ x.set.volume = v
      /\ x.set.wired = a.set.wired /\ x.set.absolute = a.set.absolute /\ x.set.loud = a.set.loud
  BY <1>4, SetVolumeKeeps
<1> HIDE DEF x
<1>8. y \in Player /\ y.set = x.set /\ y.held = x.held /\ y.music = x.music
  BY <1>1, <1>7 DEF Player
<1>9. QED
  BY <1>5, <1>6, <1>7, <1>8

LEMMA LouderAgreed ==
  ASSUME VolumeBounds, VolumeInv, Louder
  PROVE  StepIsAgreed
<1> DEFINE a == Stepped(player, 1)
<1>1. player' = Sounds(a) /\ Same
  BY DEF Louder
<1>2. player \in Player /\ PutAside(player)
  BY PlayerFacts
<1>3. /\ a \in Player /\ a.held = player.held /\ a.music = player.music
      /\ a.set.wired = player.set.wired /\ a.set.absolute = player.set.absolute /\ a.set.loud = player.set.loud
      /\ WiredSink(player) /\ ~player.set.loud
         => a.set.volume <= player.set.volume \/ a.set.volume <= Safe[player.set.level]
  BY <1>2, SteppedKeeps
<1> HIDE DEF a
<1>4. QED
  BY <1>1, <1>3, VolumeStep

LEMMA QuieterAgreed ==
  ASSUME VolumeBounds, VolumeInv, Quieter
  PROVE  StepIsAgreed
<1> DEFINE v == player.set.volume - 1
           a == [player EXCEPT !.set = [player.set EXCEPT !.volume = v]]
<1>1. player \in Player /\ PutAside(player) /\ player.set.volume \in Scale
  BY PlayerFacts
<1>2. player' = Sounds(a) /\ Same
  BY <1>1 DEF Quieter, Player, Settings
<1>3. v \in Scale /\ v <= player.set.volume
  BY <1>1 DEF Quieter, Scale, VolumeBounds
<1> HIDE DEF v
<1>4. /\ a \in Player /\ PutAside(a) /\ a.held = player.held /\ a.music = player.music /\ a.set.volume = v
      /\ a.set.wired = player.set.wired /\ a.set.absolute = player.set.absolute
  BY <1>1, <1>3, SetVolumeKeeps
<1> HIDE DEF a
<1>5. QED
  BY <1>2, <1>3, <1>4, VolumeStep

LEMMA ControlAgreed ==
  ASSUME VolumeBounds, VolumeInv, NEW u \in 0..Full, Control(u)
  PROVE  StepIsAgreed
<1> DEFINE most == IF WiredSink(player) /\ Limit(player) > player.set.volume THEN Limit(player)
                   ELSE IF WiredSink(player) THEN player.set.volume ELSE Full
           v == Lowest(u, most)
           a == [player EXCEPT !.set = [player.set EXCEPT !.volume = v]]
<1>1. player \in Player /\ PutAside(player) /\ player.set.volume \in Scale
  BY PlayerFacts
<1>2. player' = Sounds(a) /\ Same
  BY <1>1 DEF Control, Player, Settings
<1>3. Full \in Nat \ {0} /\ Safe[player.set.level] \in 1..Full
  BY <1>1 DEF Player, Settings, VolumeBounds
<1>4. Limit(player) \in Scale /\ (~player.set.loud => Limit(player) = Safe[player.set.level])
  BY <1>3 DEF Limit, Scale
<1>5. v \in Scale /\ (WiredSink(player) /\ ~player.set.loud => v <= player.set.volume \/ v <= Safe[player.set.level])
  BY <1>1, <1>3, <1>4 DEF Scale, Lowest
<1> HIDE DEF v
<1>6. /\ a \in Player /\ PutAside(a) /\ a.held = player.held /\ a.music = player.music /\ a.set.volume = v
      /\ a.set.wired = player.set.wired /\ a.set.absolute = player.set.absolute /\ a.set.loud = player.set.loud
  BY <1>1, <1>5, SetVolumeKeeps
<1> HIDE DEF a
<1>7. QED
  BY <1>2, <1>5, <1>6, VolumeStep

LEMMA AgreeAgreed ==
  ASSUME VolumeBounds, VolumeInv, Agree
  PROVE  StepIsAgreed
<1> DEFINE s == [player.set EXCEPT !.loud = TRUE]
           x == [player EXCEPT !.set = s, !.modal = FALSE]
           c == Checkpoint(x)
           a == Stepped(c, 1)
<1>1. player \in Player /\ PutAside(player)
  BY PlayerFacts
<1>2. player' = Sounds(a) /\ Same
  BY <1>1 DEF Agree, Player, Settings
<1>3. s \in Settings /\ s.wired = player.set.wired /\ s.absolute = player.set.absolute /\ s.loud = TRUE
  BY <1>1 DEF Player, Settings
<1> HIDE DEF s
<1>4. x \in Player /\ x.set = s /\ x.held = player.held /\ x.music = player.music
  BY <1>1, <1>3 DEF Player
<1> HIDE DEF x
<1>5. PutAside(x)
  BY <1>1, <1>3, <1>4 DEF PutAside
<1>6. c \in Player /\ PutAside(c) /\ c.set = x.set /\ c.held = x.held /\ c.music = x.music
  BY <1>4, <1>5, CheckpointKeeps
<1> HIDE DEF c
<1>7. /\ a \in Player /\ a.held = c.held /\ a.music = c.music
      /\ a.set.wired = c.set.wired /\ a.set.absolute = c.set.absolute /\ a.set.loud = c.set.loud
  BY <1>6, SteppedKeeps
<1> HIDE DEF a
<1>8. QED
  BY <1>2, <1>3, <1>4, <1>6, <1>7, VolumeStep

LEMMA DeclineAgreed ==
  ASSUME VolumeBounds, VolumeInv, Decline
  PROVE  StepIsAgreed
<1> DEFINE w == [player EXCEPT !.modal = FALSE]
<1>1. player \in Player /\ PutAside(player) /\ phones' \in [Peers -> Nat] /\ known' \in [Peers -> Nat] /\ player' = w
  BY PlayerFacts DEF Decline, Same
<1>2. w \in Player /\ w.set = player.set /\ w.held = player.held /\ w.soft = player.soft /\ w.music = player.music
  BY <1>1 DEF Player
<1> HIDE DEF w
<1>3. PutAside(w)
  BY <1>1, <1>2 DEF PutAside
<1>4. QED
  BY <1>1, <1>2, <1>3, QuietStep

LEMMA LapseAgreed ==
  ASSUME VolumeBounds, VolumeInv, AgreementLapses
  PROVE  StepIsAgreed
<1> DEFINE s == [player.set EXCEPT !.loud = FALSE]
           x == [player EXCEPT !.set = s]
           y == CapWired(x)
           w == Checkpoint(y)
<1>1. player \in Player /\ PutAside(player) /\ phones' \in [Peers -> Nat] /\ known' \in [Peers -> Nat]
  BY PlayerFacts DEF AgreementLapses, Same
<1>2. player' = w
  BY <1>1 DEF AgreementLapses, Player
<1>3. /\ s \in Settings /\ s.wired = player.set.wired /\ s.absolute = player.set.absolute /\ s.level = player.set.level
      /\ s.volume = player.set.volume
  BY <1>1 DEF Player, Settings
<1> HIDE DEF s
<1>4. x \in Player /\ x.set = s /\ x.held = player.held /\ x.music = player.music /\ x.soft = player.soft
  BY <1>1, <1>3 DEF Player
<1> HIDE DEF x
<1>5. /\ y \in Player /\ y.held = x.held /\ y.music = x.music /\ y.set.wired = x.set.wired
      /\ y.set.absolute = x.set.absolute
      /\ \/ y.soft = x.soft /\ y.set.volume = x.set.volume
         \/ y.soft = Safe[x.set.level] /\ y.soft <= x.set.volume /\ y.set.volume = y.soft
  BY <1>4, CapWiredKeeps
<1> HIDE DEF y
<1>6. PutAside(y)
  BY <1>1, <1>3, <1>4, <1>5 DEF PutAside
<1>7. w \in Player /\ PutAside(w) /\ w.set = y.set /\ w.held = y.held /\ w.soft = y.soft /\ w.music = y.music
  BY <1>5, <1>6, CheckpointKeeps
<1> HIDE DEF w
<1>8. w.soft \in Scale
  BY <1>7 DEF Player
<1>9. NotLouder(w)
  BY <1>3, <1>4, <1>5, <1>7, <1>8, PlayerFacts DEF NotLouder, Scale
<1>10. player.music = "playing" => player.music # "stopped"
  OBVIOUS
<1>11. WiredSink(player) /\ player.music = "playing" /\ player.set.wired = NoVolume /\ WiredSink(w)
       => w.soft <= player.set.volume
  BY <1>3, <1>4, <1>5, <1>7, <1>10, PlayerFacts DEF WiredSink
<1>12. QED
  BY <1>1, <1>2, <1>3, <1>4, <1>5, <1>7, <1>9, <1>11, StepFrame

LEMMA FadeAgreed ==
  ASSUME VolumeBounds, VolumeInv, Fade
  PROVE  StepIsAgreed
<1> DEFINE v == Faded(player.set.volume)
           w == [player EXCEPT !.soft = v, !.fading = TRUE]
<1>1. /\ player \in Player /\ PutAside(player) /\ phones' \in [Peers -> Nat] /\ known' \in [Peers -> Nat]
      /\ player' = w /\ player.set.volume \in Scale
  BY PlayerFacts DEF Fade, Same
<1>2. player.music # "stopped"
  BY DEF Fade, Active
<1>3. v \in Scale /\ v <= player.set.volume
  BY <1>1 DEF Scale, Faded, VolumeBounds
<1> HIDE DEF v
<1>4. w \in Player /\ w.set = player.set /\ w.held = player.held /\ w.soft = v /\ w.music = player.music
  BY <1>1, <1>3 DEF Player
<1> HIDE DEF w
<1>5. PutAside(w)
  BY <1>1, <1>4 DEF PutAside
<1>6. QED
  BY <1>1, <1>2, <1>3, <1>4, <1>5, QuietStep

LEMMA FadeEndsAgreed ==
  ASSUME VolumeBounds, VolumeInv, FadeEnds
  PROVE  StepIsAgreed
<1> DEFINE v == player.set.volume
           e(a) == [a EXCEPT !.soft = v, !.fading = FALSE]
<1>1. /\ player \in Player /\ PutAside(player) /\ phones' \in [Peers -> Nat] /\ known' \in [Peers -> Nat]
      /\ v \in Scale /\ v <= v
  BY PlayerFacts DEF FadeEnds, Same, Scale, VolumeBounds
<1>2. \/ player' = e(player)
      \/ Active(player) /\ player' = e(Paused(player))
  BY DEF FadeEnds
<1> HIDE DEF v
<1>3. \A a \in Player : e(a) \in Player /\ e(a).set = a.set /\ e(a).held = a.held /\ e(a).soft = v /\ e(a).music = a.music
                        /\ e(a).amp = a.amp
  BY <1>1 DEF Player
<1>4. CASE player' = e(player)
  <2> DEFINE w == e(player)
  <2>1. w \in Player /\ w.set = player.set /\ w.held = player.held /\ w.soft = v /\ w.music = player.music
    BY <1>1, <1>3
  <2>2. player' = w
    BY <1>4
  <2> HIDE DEF w
  <2>3. PutAside(w)
    BY <1>1, <2>1 DEF PutAside
  <2>4. v <= player.set.volume
    BY <1>1 DEF v
  <2>5. QED
    BY <1>1, <2>1, <2>2, <2>3, <2>4, QuietStep
<1>5. CASE Active(player) /\ player' = e(Paused(player))
  <2> DEFINE a == Paused(player)
             w == e(a)
  <2>1. /\ a \in Player /\ PutAside(a) /\ a.held = player.held
        /\ \/ a.music = "paused" /\ a.set = player.set /\ a.amp = player.amp
           \/ a.music = "stopped" /\ a.amp = None /\ (player.held.peer # None => a.set.wired = player.set.wired)
    BY <1>1, PausedKeeps
  <2> HIDE DEF a
  <2>2. /\ w \in Player /\ w.set = a.set /\ w.held = a.held /\ w.soft = v /\ w.music = a.music /\ w.amp = a.amp
    BY <1>3, <2>1
  <2>3. player' = w
    BY <1>5 DEF a
  <2> HIDE DEF w
  <2>4. PutAside(w)
    BY <2>1, <2>2 DEF PutAside
  <2>5. player.music # "stopped"
    BY <1>5 DEF Active
  <2>6. v <= player.set.volume
    BY <1>1 DEF v
  <2>7. CASE w.music = "paused" /\ w.set = player.set
    BY <1>1, <2>1, <2>2, <2>3, <2>4, <2>5, <2>6, <2>7, QuietStep
  <2>8. CASE w.music = "stopped" /\ w.amp = None /\ (player.held.peer # None => w.set.wired = player.set.wired)
    BY <1>1, <2>2, <2>3, <2>4, <2>8, StoppingStep
  <2>9. QED
    BY <2>1, <2>2, <2>7, <2>8
<1>6. QED
  BY <1>2, <1>4, <1>5

LEMMA HeadphonesAgreed ==
  ASSUME VolumeBounds, VolumeInv, NEW p \in Peers, Headphones(p)
  PROVE  StepIsAgreed
<1>1. /\ player \in Player /\ PutAside(player) /\ player' = player /\ phones \in [Peers -> Nat] /\ known' \in [Peers -> Nat]
  BY PlayerFacts DEF Headphones
<1>2. PICK v \in {Away, Plain} \cup (0..AvrcpFull) : phones' = [phones EXCEPT ![p] = v]
  BY DEF Headphones
<1>3. v \in Nat
  BY DEF Away, Plain, VolumeBounds
<1>4. phones' \in [Peers -> Nat]
  BY <1>1, <1>2, <1>3
<1>5. QED
  BY <1>1, <1>4, QuietStep

LEMMA CommandEndsAgreed ==
  ASSUME VolumeBounds, VolumeInv, CommandEnds
  PROVE  StepIsAgreed
<1> DEFINE c == Tail(player.cmds)
           w == [player EXCEPT !.cmds = c]
<1>1. /\ player \in Player /\ PutAside(player) /\ phones \in [Peers -> Nat] /\ known' \in [Peers -> Nat] /\ player' = w
      /\ player.cmds \in Commands /\ player.cmds # <<>>
  BY PlayerFacts DEF CommandEnds, Player
<1>2. c \in Commands /\ Head(player.cmds) \in Command
  BY <1>1 DEF Commands
<1>3. phones' \in [Peers -> Nat]
  BY <1>1, <1>2 DEF CommandEnds, Delivers, Command
<1> HIDE DEF c
<1>4. w \in Player /\ w.set = player.set /\ w.held = player.held /\ w.soft = player.soft /\ w.music = player.music
  BY <1>1, <1>2 DEF Player
<1> HIDE DEF w
<1>5. PutAside(w)
  BY <1>1, <1>4 DEF PutAside
<1>6. QED
  BY <1>1, <1>3, <1>4, <1>5, QuietStep

LEMMA EchoEndsAgreed ==
  ASSUME VolumeBounds, VolumeInv, EchoEnds
  PROVE  StepIsAgreed
<1> DEFINE h == [player.held EXCEPT !.echo = FALSE]
           w == [player EXCEPT !.held = h]
<1>1. player \in Player /\ PutAside(player) /\ phones' \in [Peers -> Nat] /\ known' \in [Peers -> Nat] /\ player' = w
  BY PlayerFacts DEF EchoEnds, Same, Player
<1>2. h \in HeldVolume /\ h.peer = player.held.peer
  BY <1>1 DEF Player, HeldVolume
<1> HIDE DEF h
<1>3. w \in Player /\ w.set = player.set /\ w.held = h /\ w.soft = player.soft /\ w.music = player.music
  BY <1>1, <1>2 DEF Player
<1> HIDE DEF w
<1>4. PutAside(w)
  BY <1>1, <1>2, <1>3 DEF PutAside
<1>5. QED
  BY <1>1, <1>2, <1>3, <1>4, QuietStep

LEMMA PassAgreed ==
  ASSUME VolumeBounds, VolumeInv, BluetoothPass
  PROVE  StepIsAgreed
<1>1. /\ player \in Player /\ PutAside(player) /\ phones \in [Peers -> Nat] /\ phones' \in [Peers -> Nat]
      /\ known' \in [Peers -> Nat] /\ Jack \notin Peers
  BY PlayerFacts DEF BluetoothPass, VolumeBounds
<1>2. \/ player.set.out \in Peers /\ player' = Sync(PeerLost(player), phones)
      \/ player' = Sync(player, phones)
  BY DEF BluetoothPass
<1>3. CASE player' = Sync(player, phones)
  <2> DEFINE w == Sync(player, phones)
  <2>1. /\ w \in Player /\ PutAside(w)
        /\ player.held.peer = None /\ w.held.peer = None => w = player
        /\ player.held.peer # None /\ w.held.peer = None => w.soft = w.set.volume
        /\ player.held.peer # None /\ w.held.peer = player.held.peer => w.set.wired = player.set.wired
    BY <1>1, SyncKeeps
  <2>2. player' = w
    BY <1>3
  <2> HIDE DEF w
  <2>3. w.set.volume \in Scale /\ w.set.volume <= w.set.volume
    BY <2>1 DEF Player, Settings, Scale, VolumeBounds
  <2>4. NotLouder(w)
    BY <2>1, <2>3, PlayerFacts DEF NotLouder
  <2>5. player.music = "playing" => player.music # "stopped"
    OBVIOUS
  <2>6. WiredSink(player) /\ player.music = "playing" /\ player.set.wired = NoVolume /\ WiredSink(w)
        => w.soft <= player.set.volume
    BY <2>1, <2>5, PlayerFacts DEF WiredSink
  <2>7. QED
    BY <1>1, <2>1, <2>2, <2>4, <2>6, StepFrame
<1>4. CASE player.set.out \in Peers /\ player' = Sync(PeerLost(player), phones)
  <2> DEFINE r == IF player.before = <<>> THEN player ELSE Restored(player, player.before[1])
             s == [r.set EXCEPT !.out = Jack]
             j == [r EXCEPT !.set = s]
             t == Stops(j)
             l == Checkpoint(t)
             w == Sync(l, phones)
  <2>1. r \in Player /\ PutAside(r) /\ r.held = player.held
    <3>1. player.before # <<>> => player.before[1] \in Settings
      BY <1>1 DEF Player, Starts
    <3>2. QED
      BY <1>1, <3>1, RestoredKeeps
  <2>2. PeerLost(player) = l
    <3> HIDE DEF r
    <3>1. j = [r EXCEPT !.set.out = Jack]
      BY <2>1 DEF Player
    <3>2. QED
      BY <3>1 DEF PeerLost, r
  <2> HIDE DEF r
  <2>3. s \in Settings /\ s.wired = r.set.wired /\ s.absolute = r.set.absolute /\ s.out = Jack
    BY <2>1 DEF Player, Settings
  <2> HIDE DEF s
  <2>4. j \in Player /\ j.set = s /\ j.held = r.held
    BY <2>1, <2>3 DEF Player
  <2> HIDE DEF j
  <2>5. PutAside(j)
    BY <2>1, <2>3, <2>4 DEF PutAside
  <2>6. t \in Player /\ PutAside(t) /\ t.set = j.set /\ t.held = j.held /\ t.music = "stopped" /\ t.amp = None
    BY <2>4, <2>5, StopsKeeps
  <2> HIDE DEF t
  <2>7. l \in Player /\ PutAside(l) /\ l.set = t.set /\ l.held = t.held /\ l.music = "stopped" /\ l.amp = None
    BY <2>6, CheckpointKeeps
  <2> HIDE DEF l
  <2>8. /\ w \in Player /\ PutAside(w) /\ w.music = l.music
        /\ w.held.peer # None => l.set.out # Jack
    BY <1>1, <2>7, SyncKeeps
  <2>9. player' = w
    BY <1>4, <2>2
  <2> HIDE DEF w
  <2>10. w.held.peer = None /\ w.music = "stopped"
    BY <2>3, <2>4, <2>6, <2>7, <2>8
  <2>11. NotLouder(w)
    BY <2>10 DEF NotLouder
  <2>12. ~WiredSink(player)
    BY <1>1, <1>4 DEF WiredSink
  <2>13. QED
    BY <1>1, <2>8, <2>9, <2>10, <2>11, <2>12, StepFrame
<1>5. QED
  BY <1>2, <1>3, <1>4

LEMMA NewPlayerKeeps ==
  ASSUME VolumeBounds, NEW s \in Settings
  PROVE  /\ NewPlayer(WiredStart(s)) \in Player /\ PutAside(NewPlayer(WiredStart(s)))
         /\ NewPlayer(WiredStart(s)).music = "stopped" /\ NewPlayer(WiredStart(s)).amp = None
         /\ NewPlayer(WiredStart(s)).held.peer = None /\ NewPlayer(WiredStart(s)).before = <<>>
<1> DEFINE u == IF s.wired = NoVolume THEN s.volume ELSE s.wired
           v == Lowest(u, Safe[s.level])
           t == [s EXCEPT !.wired = NoVolume, !.out = Jack, !.volume = v]
           w == NewPlayer(t)
<1>1. s.volume \in Scale /\ s.wired \in 0..NoVolume /\ Safe[s.level] \in 1..Full /\ Full \in Nat \ {0} /\ AvrcpFull \in Nat
  BY DEF Settings, VolumeBounds
<1>2. u \in Scale
  BY <1>1 DEF Scale, NoVolume
<1> HIDE DEF u
<1>3. v \in Scale /\ NoVolume \in 0..NoVolume
  BY <1>1, <1>2 DEF Scale, Lowest, NoVolume
<1>4. WiredStart(s) = t
  BY DEF WiredStart, u
<1> HIDE DEF v
<1>5. t \in Settings /\ t.volume \in Scale /\ t.level \in Levels
  BY <1>3 DEF Settings
<1> HIDE DEF t
<1>6. NoPeer \in HeldVolume /\ NoPeer.peer = None
  BY <1>1 DEF NoPeer, HeldVolume, Away
<1>7. <<>> \in Commands /\ <<>> \in Starts /\ "stopped" \in Musics /\ None \in Amplifiers
  BY DEF Commands, Starts, Musics, Amplifiers
<1>8. w \in Player
  BY <1>5, <1>6, <1>7 DEF NewPlayer, Player
<1>9. w.held = NoPeer /\ w.music = "stopped" /\ w.amp = None /\ w.before = <<>>
  BY DEF NewPlayer
<1> HIDE DEF w
<1>10. PutAside(w)
  BY <1>6, <1>9 DEF PutAside
<1>11. QED
  BY <1>4, <1>6, <1>8, <1>9, <1>10 DEF w

LEMMA RestartAgreed ==
  ASSUME VolumeBounds, VolumeInv, ProcessRestarts
  PROVE  StepIsAgreed
<1> DEFINE w == NewPlayer(WiredStart(player.saved))
<1>1. player.saved \in Settings /\ phones' \in [Peers -> Nat] /\ player' = w
  BY DEF VolumeInv, Player, ProcessRestarts
<1>2. known' \in [Peers -> Nat]
  BY DEF ProcessRestarts, Away, VolumeBounds
<1>3. w \in Player /\ PutAside(w) /\ w.music = "stopped" /\ w.amp = None /\ w.held.peer = None
  BY <1>1, NewPlayerKeeps
<1> HIDE DEF w
<1>4. QED
  BY <1>1, <1>2, <1>3, StoppingStep

-----------------------------------------------------------------------------
LEMMA VolumeStarts ==
  ASSUME VolumeBounds, VolumeInit
  PROVE  VolumeInv /\ Underway(player)
<1>1. PICK l \in Levels, v \in 1..Full :
        player = NewPlayer(WiredStart([volume |-> v, wired |-> NoVolume, absolute |-> FALSE, loud |-> FALSE,
                                       level |-> l, out |-> Jack]))
  BY DEF VolumeInit, FirstPlayers
<1> DEFINE s == [volume |-> v, wired |-> NoVolume, absolute |-> FALSE, loud |-> FALSE, level |-> l, out |-> Jack]
<1>2. s \in Settings
  BY DEF Settings, Scale, NoVolume, VolumeBounds
<1> HIDE DEF s
<1>3. player \in Player /\ PutAside(player) /\ player.music = "stopped" /\ player.before = <<>>
  BY <1>1, <1>2, NewPlayerKeeps DEF s
<1>4. phones \in [Peers -> Nat] /\ known \in [Peers -> Nat]
  BY DEF VolumeInit, Away, VolumeBounds
<1>5. QED
  BY <1>3, <1>4 DEF VolumeInv, NotLouder, Underway

LEMMA VolumeKept ==
  ASSUME VolumeBounds, VolumeInv, Underway(player), VolumeNext
  PROVE  StepIsAgreed
BY PlayAgreed, PauseAgreed, StartEndsAgreed, SwitchAgreed, LouderAgreed, QuieterAgreed, ControlAgreed, AgreeAgreed,
   DeclineAgreed, LevelAgreed, LapseAgreed, FadeAgreed, FadeEndsAgreed, HeadphonesAgreed, CommandEndsAgreed,
   EchoEndsAgreed, PassAgreed, RestartAgreed
   DEF VolumeNext

(* Neither output's volume is changed by what happens to the other.          *)
THEOREM VolumeAgreed ==
  ASSUME VolumeBounds
  PROVE  VolumeSpec => VolumeIsAgreed
<1> DEFINE Inv == VolumeInv /\ Underway(player)
<1>1. VolumeInit => Inv
  BY VolumeStarts
<1>2. Inv /\ [VolumeNext]_volumeVars => Inv'
  <2>1. CASE VolumeNext
    BY <2>1, VolumeKept, UnderwayStep DEF StepIsAgreed, Underway
  <2>2. CASE UNCHANGED volumeVars
    BY <2>2 DEF volumeVars, VolumeInv, PutAside, NotLouder, Underway
  <2>3. QED
    BY <2>1, <2>2
<1>3. Inv /\ [VolumeNext]_volumeVars => [NoLouder]_volumeVars /\ [KeepsHeld]_volumeVars
  <2>1. CASE VolumeNext
    BY <2>1, VolumeKept DEF StepIsAgreed
  <2>2. CASE UNCHANGED volumeVars
    BY <2>2
  <2>3. QED
    BY <2>1, <2>2
<1>4. VolumeSpec => [][NoLouder]_volumeVars /\ [][KeepsHeld]_volumeVars
  <2> HIDE DEF Inv
  <2>1. QED
    BY <1>1, <1>2, <1>3, PTL DEF VolumeSpec
<1>5. QED
  BY <1>4 DEF VolumeIsAgreed, LouderOnlyByConsent, HeldVolumeIsKept, NoLouder, KeepsHeld

(* All records of a device that are not taken in yet, and whether some were lost before them. *)
Stream(d) == raw[d] \o lines[d]
Lost(s) == s # <<>> /\ s[1].kind = "dropped"
Awake == ~sleepPrepared /\ ~resume

Presses == {p \in Controls \X (Nat \ {0}) : p[2] <= presses[p[1]]}
KeyRecords == [control : Controls \cup {"all"}, kind : {"down", "up", "dropped"}, at : Nat, id : Nat]
KnownPress == [since : Nat, long : BOOLEAN, resumed : BOOLEAN, id : Nat \ {0}]
Kinds == {"Press", "LongPress", "Repeat", "Release", "Cancel"}
KeyEvents == [kind : Kinds, control : Controls, id : Nat \ {0}]

(* A press of c that began at `since`, in the records s from place n on: it is  *)
(* down yet, or its release is the next record of c.                            *)
Continues(s, c, id, since, n) ==
  \/ /\ c \in DOMAIN down /\ presses[c] = id /\ down[c] <= since
     /\ \A j \in n + 1 .. Len(s) : s[j].control # c
  \/ \E i \in n + 1 .. Len(s) :
       /\ s[i].control = c /\ s[i].kind = "up" /\ s[i].id = id
       /\ <<c, id>> \in quick => s[i].at - since < Long
       /\ \A j \in n + 1 .. i - 1 : s[j].control # c
(* A press of which nothing was routed; one whose release was taken in; one     *)
(* that gave what a short press gives; one that may be a hold.                  *)
Unheard(c, id) == <<c, id>> \notin begun /\ \A g \in given : ~(g[1] = c /\ g[2] = id)
Finished(c, id) ==
  /\ c \in DOMAIN down => id < presses[c]
  /\ \A i \in DOMAIN Stream(DeviceOf(c)) : Stream(DeviceOf(c))[i].control = c => id < Stream(DeviceOf(c))[i].id
  /\ c \in DOMAIN pressed => id < pressed[c].id
Spent(c, id) == Gave(c, id, "short") \/ Gave(c, id, "sleep") \/ (Gave(c, id, "wake") /\ ~Gave(c, id, "hold"))
Old(c, id) == <<c, id>> \notin quick /\ (c \in DOMAIN down /\ presses[c] = id => clock - down[c] >= Long)

ButtonsTyped ==
  /\ clock \in Nat /\ presses \in [Controls -> Nat]
  /\ DOMAIN down \subseteq Controls /\ \A c \in DOMAIN down : down[c] \in Nat /\ down[c] <= clock /\ presses[c] # 0
  /\ lines \in [Devices -> Seq(KeyRecords)] /\ raw \in [Devices -> Seq(KeyRecords)]
  /\ fds \in [Devices -> {"open", "dead", "closed"}] /\ reading \in BOOLEAN
  /\ events \in Seq(KeyEvents) /\ \A i \in DOMAIN events : events[i].id <= presses[events[i].control]
  /\ DOMAIN pressed \subseteq Controls /\ pressed \in [DOMAIN pressed -> KnownPress]
  /\ \A g \in given : <<g[1], g[2]>> \in Presses /\ g = <<g[1], g[2], g[3]>>
  /\ begun \subseteq Presses /\ cut \subseteq Presses \cup ({"all"} \X Nat) /\ quick \subseteq Presses
  /\ \A p \in quick : p[1] \in DOMAIN down => p[2] < presses[p[1]]
  /\ lit \in BOOLEAN /\ mode \in {"Locked", "Buttons", "WheelAndButtons"}

ReadingOK ==
  /\ ~reading => raw = NoRecords
  /\ reading => \A d \in Devices \ blocked : lines[d] = <<>>
  /\ resume => ~reading /\ events = <<>>

(* The records of a device: none but of one that works, what was lost is at     *)
(* their head, and of each button the presses follow each other.                *)
KeyRecordOK(d, s, i) ==
  /\ DeviceOf(s[i].control) = d /\ <<s[i].control, s[i].id>> \in Presses
  /\ s[i].kind = "up" /\ s[i].control \in DOMAIN down => s[i].id < presses[s[i].control]
  /\ s[i].kind = "down" =>
       /\ Continues(s, s[i].control, s[i].id, s[i].at, i)
       /\ Unheard(s[i].control, s[i].id) /\ <<s[i].control, s[i].id>> \notin cut
InTurn(s) ==
  \A i, j \in DOMAIN s : i < j /\ s[i].control = s[j].control =>
    s[i].id < s[j].id \/ (s[i].id = s[j].id /\ s[i].kind = "down" /\ s[j].kind = "up")
LostFirst(s) == \A i \in DOMAIN s : s[i].kind = "dropped" => i = 1 /\ s[i].control = "all"
StreamOK(d, s) ==
  /\ s # <<>> => fds[d] = "open"
  /\ LostFirst(s) /\ InTurn(s)
  /\ \A i \in DOMAIN s : s[i].kind # "dropped" => KeyRecordOK(d, s, i)

(* What InputManager knows pressed. *)
KnownOK(c, s) ==
  LET p == pressed[c]  d == DeviceOf(c) IN
  /\ p.id <= presses[c] /\ d \notin dropping /\ fds[d] # "closed"
  /\ \A i \in DOMAIN s : s[i].control = c => p.id < s[i].id \/ (p.id = s[i].id /\ s[i].kind = "up")
  /\ fds[d] = "open" /\ ~Lost(s) => Continues(s, c, p.id, p.since, 0)
  /\ p.resumed => c = "Power"
  /\ <<c, p.id>> \in cut => p.resumed \/ fds[d] = "dead" \/ Lost(s)
  /\ p.long => Old(c, p.id)

Has(c, kinds) == \E i \in DOMAIN events : events[i].control = c /\ events[i].kind \in kinds
EventOK(i) ==
  LET c == events[i].control  id == events[i].id IN
  /\ ~Spent(c, id)
  /\ events[i].kind \in {"Press", "Repeat"} => c \in DOMAIN pressed /\ pressed[c].id = id
  /\ events[i].kind = "Press" => Unheard(c, id) /\ ~pressed[c].long
  /\ events[i].kind = "Repeat" => pressed[c].long
  /\ events[i].kind = "LongPress" =>
       /\ Old(c, id)
       /\ \/ c \in DOMAIN pressed /\ pressed[c].id = id /\ pressed[c].long
          \/ i + 1 \in DOMAIN events /\ events[i + 1] = Event("Release", c, id)
  /\ events[i].kind \in {"Release", "Cancel"} => c \notin DOMAIN pressed
  /\ events[i].kind = "Release" => Finished(c, id)
  /\ \A j \in DOMAIN events : i < j /\ events[j].control = c =>
       events[i].kind = "LongPress" /\ events[j].kind = "Release" /\ events[j].id = id

SpentOK == \A g \in given : Spent(g[1], g[2]) => Finished(g[1], g[2]) /\ <<g[1], g[2]>> \notin cut
HeldOK == \A g \in given : g[3] = "hold" => Old(g[1], g[2])

(* What ActionRouter keeps of a button, while it is told of everything. *)
RouterTyped ==
  /\ router \in [long : SUBSET Controls, dark : SUBSET Controls, keys : SUBSET (Arrows \cap Controls),
                 power : {"none", "lit", "dark"}, search : BOOLEAN]
  /\ \A c \in router.dark : RestsInTheDark(c)
Kept(c) == c \in router.long \/ c \in router.dark \/ c \in router.keys
Noted(c) == c \in router.long \/ c \in router.keys
Resting(c) == c \in router.dark /\ c \notin router.keys
RouterKnows(c) ==
  LET id == pressed[c].id IN
  /\ pressed[c].long /\ ~Has(c, {"LongPress"}) => Noted(c)
  /\ ~pressed[c].resumed /\ (Gave(c, id, "hold") \/ Gave(c, id, "arrow")) /\ ~Has(c, {"LongPress"}) => Noted(c)
  /\ ~pressed[c].resumed /\ <<c, id>> \in begun =>
       (c = "Power" => router.power = "dark") /\ (RestsInTheDark(c) => Resting(c))
RouterExpects(i) ==
  LET c == events[i].control  id == events[i].id IN
  /\ events[i].kind = "Release" /\ ~Has(c, {"LongPress"}) =>
       /\ Gave(c, id, "hold") \/ Gave(c, id, "arrow") \/ <<c, id>> \in cut => Noted(c)
       /\ c = "Power" /\ <<c, id>> \in begun => router.power = "dark" \/ c \in router.long
  /\ events[i].kind # "Cancel" /\ <<c, id>> \in begun /\ RestsInTheDark(c) => Resting(c)
RouterOK ==
  /\ router.keys \cap (router.long \cup router.dark) = {}
  /\ \A c \in Controls : Kept(c) => c \in DOMAIN pressed \/ Has(c, {"Release", "Cancel"})
  /\ \A c \in Controls : Has(c, {"Press"}) => ~Kept(c)
  /\ \A c \in DOMAIN pressed : RouterKnows(c)
  /\ \A i \in DOMAIN events : RouterExpects(i)

HoldOK == ~WakeFails /\ hold # 0 => Awake /\ lit /\ "Power" \in router.long /\ HoldIsPressed

(* What the records and the devices are to each other; what is routed. *)
DevicesInv ==
  /\ \A d \in Devices : StreamOK(d, Stream(d))
  /\ \A c \in DOMAIN pressed : KnownOK(c, Stream(DeviceOf(c)))
RoutingInv ==
  /\ \A i \in DOMAIN events : EventOK(i)
  /\ Awake => RouterOK
  /\ ShortIsShort /\ DarkIsDark
ButtonsInv ==
  /\ ButtonsTyped /\ RouterTyped /\ ReadingOK /\ DevicesInv /\ SpentOK /\ HeldOK /\ RoutingInv /\ HoldOK

-----------------------------------------------------------------------------
(* A function with one more value, and with fewer. *)
LEMMA WithIs ==
  ASSUME NEW f, NEW c, NEW x
  PROVE  /\ DOMAIN With(f, c, x) = DOMAIN f \cup {c} /\ With(f, c, x)[c] = x
         /\ \A b \in DOMAIN f : b # c => With(f, c, x)[b] = f[b]
BY DEF With
LEMMA RestrictIs ==
  ASSUME NEW f, NEW S
  PROVE  DOMAIN Restrict(f, S) = S /\ \A b \in S : Restrict(f, S)[b] = f[b]
BY DEF Restrict

(* The buttons are finitely many, and SetToSeq lists each of a set of them once. *)
LEMMA FewControls ==
  ASSUME ButtonsAssumption PROVE IsFiniteSet(Controls)
<1>1. IsFiniteSet({"Power", "Select", "Back", "Previous", "Next", "PlayPause"})
  <2>1. IsFiniteSet({}) BY FS_EmptySet
  <2>2. IsFiniteSet({"Power"}) BY FS_Singleton
  <2>3. IsFiniteSet({"Power"} \cup {"Select"}) BY <2>2, FS_AddElement
  <2>4. IsFiniteSet({"Power"} \cup {"Select"} \cup {"Back"}) BY <2>3, FS_AddElement
  <2>5. IsFiniteSet({"Power"} \cup {"Select"} \cup {"Back"} \cup {"Previous"}) BY <2>4, FS_AddElement
  <2>6. IsFiniteSet({"Power"} \cup {"Select"} \cup {"Back"} \cup {"Previous"} \cup {"Next"}) BY <2>5, FS_AddElement
  <2>7. IsFiniteSet({"Power"} \cup {"Select"} \cup {"Back"} \cup {"Previous"} \cup {"Next"} \cup {"PlayPause"})
    BY <2>6, FS_AddElement
  <2>8. {"Power", "Select", "Back", "Previous", "Next", "PlayPause"}
          = {"Power"} \cup {"Select"} \cup {"Back"} \cup {"Previous"} \cup {"Next"} \cup {"PlayPause"} OBVIOUS
  <2>9. QED BY <2>7, <2>8
<1>2. QED BY <1>1, FS_Subset DEF ButtonsAssumption
LEMMA ListOf ==
  ASSUME NEW S, IsFiniteSet(S)
  PROVE  /\ SetToSeq(S) \in [1 .. Cardinality(S) -> S] /\ Cardinality(S) \in Nat
         /\ \A i, j \in 1 .. Cardinality(S) : SetToSeq(S)[i] = SetToSeq(S)[j] => i = j
         /\ \A x \in S : \E i \in 1 .. Cardinality(S) : SetToSeq(S)[i] = x
<1> DEFINE n == Cardinality(S)
           q == SetToSeq(S)
<1>n. n \in Nat BY FS_CardinalityType
<1>1. PICK f \in Bijection(1 .. n, S) : TRUE BY FS_CardinalityType DEF ExistsBijection
<1>2. f \in [1 .. n -> S] /\ IsInjective(f) BY <1>1 DEF Bijection, Injection
<1>3. q \in [1 .. n -> S] /\ IsInjective(q) BY <1>2 DEF SetToSeq
<1> HIDE DEF q
<1>4. q \in Injection(1 .. n, S) BY <1>3 DEF Injection
<1>5. IsFiniteSet(1 .. n) /\ Cardinality(1 .. n) = n BY <1>n, FS_Interval, SMT
<1>6. q \in Surjection(1 .. n, S) BY <1>4, <1>5, FS_Injection
<1>7. QED BY <1>3, <1>6, <1>n DEF q, IsInjective, Surjection

(* The events of a set of buttons that are known pressed. *)
LEMMA EventsAre ==
  ASSUME ButtonsAssumption, ButtonsTyped, NEW kind \in Kinds, NEW S \in SUBSET DOMAIN pressed
  PROVE  /\ Events(kind, S) \in Seq(KeyEvents)
         /\ \A i \in DOMAIN Events(kind, S) :
              Events(kind, S)[i].control \in S
              /\ Events(kind, S)[i] = Event(kind, Events(kind, S)[i].control, pressed[Events(kind, S)[i].control].id)
         /\ \A i, j \in DOMAIN Events(kind, S) :
              Events(kind, S)[i].control = Events(kind, S)[j].control => i = j
         /\ \A c \in S : \E i \in DOMAIN Events(kind, S) : Events(kind, S)[i].control = c
<1> DEFINE n == Cardinality(S)
           q == SetToSeq(S)
           ev == Events(kind, S)
<1>1. IsFiniteSet(S) /\ S \subseteq Controls BY FewControls, FS_Subset DEF ButtonsTyped
<1>2. /\ q \in [1 .. n -> S] /\ n \in Nat
      /\ \A i, j \in 1 .. n : q[i] = q[j] => i = j
      /\ \A x \in S : \E i \in 1 .. n : q[i] = x
  BY <1>1, ListOf
<1>3. ev = [i \in DOMAIN q |-> Event(kind, q[i], pressed[q[i]].id)] BY DEF Events
<1> HIDE DEF q, n, ev
<1>4. DOMAIN q = 1 .. n BY <1>2
<1>5. ev = [i \in 1 .. n |-> Event(kind, q[i], pressed[q[i]].id)] BY <1>3, <1>4
<1>6. ASSUME NEW i \in 1 .. n
      PROVE  ev[i] \in KeyEvents /\ ev[i].control = q[i] /\ q[i] \in S /\ ev[i] = Event(kind, q[i], pressed[q[i]].id)
  <2>1. q[i] \in S BY <1>2
  <2>2. pressed[q[i]].id \in Nat \ {0} /\ q[i] \in Controls BY <2>1, <1>1 DEF ButtonsTyped, KnownPress
  <2>3. ev[i] = Event(kind, q[i], pressed[q[i]].id) BY <1>5
  <2>4. QED BY <2>1, <2>2, <2>3 DEF Event, KeyEvents
<1>7. ev \in Seq(KeyEvents) /\ DOMAIN ev = 1 .. n
  <2>1. DOMAIN ev = 1 .. n BY <1>5
  <2>2. ev \in [1 .. n -> KeyEvents] BY <1>5, <1>6
  <2>3. QED BY <2>1, <2>2, <1>2
<1>8. QED BY <1>2, <1>6, <1>7 DEF ev
-----------------------------------------------------------------------------
(* The records of a device. *)
LEMMA DevicesAre == ASSUME NEW c PROVE DeviceOf(c) \in Devices
BY DEF DeviceOf, Devices
LEMMA StreamIs ==
  ASSUME ButtonsTyped, NEW d \in Devices PROVE Stream(d) \in Seq(KeyRecords)
BY ConcatProperties DEF ButtonsTyped, Stream
LEMMA StreamRests ==
  ASSUME ButtonsTyped, NEW d \in Devices, raw = NoRecords PROVE Stream(d) = lines[d]
<1>1. raw[d] = <<>> /\ lines[d] \in Seq(KeyRecords) BY DEF NoRecords, ButtonsTyped
<1>2. QED BY <1>1, ConcatEmptySeq DEF Stream
LEMMA StreamReads ==
  ASSUME ButtonsTyped, NEW d \in Devices, raw[d] # <<>>
  PROVE  /\ Stream(d) # <<>> /\ Stream(d)[1] = raw[d][1]
         /\ Tail(raw[d]) \in Seq(KeyRecords)
         /\ Tail(raw[d]) \o lines[d] = Tail(Stream(d))
<1> DEFINE a == raw[d]
           b == lines[d]
           s == a \o b
           t == Tail(a) \o b
<1>1. a \in Seq(KeyRecords) /\ b \in Seq(KeyRecords) /\ a # <<>> BY DEF ButtonsTyped
<1>2. Len(a) \in Nat \ {0} /\ Len(b) \in Nat BY <1>1, EmptySeq, LenProperties
<1> HIDE DEF a, b
<1>3. /\ s \in Seq(KeyRecords) /\ Len(s) = Len(a) + Len(b)
      /\ \A i \in 1 .. Len(a) + Len(b) : s[i] = IF i <= Len(a) THEN a[i] ELSE b[i - Len(a)]
  BY <1>1, ConcatProperties
<1>4. /\ Tail(a) \in Seq(KeyRecords) /\ Len(Tail(a)) = Len(a) - 1
      /\ \A i \in 1 .. Len(a) - 1 : Tail(a)[i] = a[i + 1]
  BY <1>1, HeadTailProperties
<1>5. /\ t \in Seq(KeyRecords) /\ Len(t) = Len(a) - 1 + Len(b)
      /\ \A i \in 1 .. Len(a) - 1 + Len(b) : t[i] = IF i <= Len(a) - 1 THEN Tail(a)[i] ELSE b[i - (Len(a) - 1)]
  BY <1>1, <1>4, ConcatProperties
<1>6. s # <<>> /\ s[1] = a[1] BY <1>2, <1>3
<1>7. /\ Tail(s) \in Seq(KeyRecords) /\ Len(Tail(s)) = Len(s) - 1
      /\ \A i \in 1 .. Len(s) - 1 : Tail(s)[i] = s[i + 1]
  BY <1>3, <1>6, HeadTailProperties
<1>8. \A i \in 1 .. Len(t) : t[i] = Tail(s)[i]
  <2>1. SUFFICES ASSUME NEW i \in 1 .. Len(t) PROVE t[i] = Tail(s)[i] OBVIOUS
  <2> HIDE DEF s, t
  <2>2. i \in 1 .. Len(s) - 1 /\ i + 1 \in 1 .. Len(a) + Len(b) /\ i \in Nat BY <1>2, <1>3, <1>5
  <2>3. Tail(s)[i] = IF i + 1 <= Len(a) THEN a[i + 1] ELSE b[i + 1 - Len(a)] BY <2>2, <1>3, <1>7
  <2>4. CASE i <= Len(a) - 1
    <3>1. t[i] = Tail(a)[i] /\ Tail(a)[i] = a[i + 1] /\ i + 1 <= Len(a) BY <2>4, <1>4, <1>5, <2>2, <1>2
    <3>2. QED BY <3>1, <2>3
  <2>5. CASE ~(i <= Len(a) - 1)
    <3>1. t[i] = b[i - (Len(a) - 1)] /\ i - (Len(a) - 1) = i + 1 - Len(a) /\ ~(i + 1 <= Len(a))
      BY <2>5, <1>5, <2>2, <1>2
    <3>2. QED BY <3>1, <2>3
  <2>6. QED BY <2>4, <2>5
<1>9. t = Tail(s) BY <1>2, <1>3, <1>5, <1>7, <1>8, SeqEqual
<1>10. QED BY <1>4, <1>6, <1>9 DEF Stream, a, b

(* One record more, and one less. *)
LEMMA Appended ==
  ASSUME NEW s \in Seq(KeyRecords), NEW r \in KeyRecords, NEW t, t = Append(s, r)
  PROVE  /\ t \in Seq(KeyRecords) /\ Len(s) \in Nat /\ Len(t) = Len(s) + 1 /\ t[Len(s) + 1] = r
         /\ \A i \in 1 .. Len(s) : t[i] = s[i]
         /\ DOMAIN s = 1 .. Len(s) /\ DOMAIN t = 1 .. Len(s) + 1
OBVIOUS
LEMMA Shortened ==
  ASSUME NEW s \in Seq(KeyRecords), s # <<>>, NEW t, t = Tail(s)
  PROVE  /\ t \in Seq(KeyRecords) /\ Len(s) \in Nat \ {0} /\ Len(t) = Len(s) - 1
         /\ \A i \in 1 .. Len(s) - 1 : t[i] = s[i + 1]
         /\ DOMAIN s = 1 .. Len(s) /\ DOMAIN t = 1 .. Len(s) - 1
         /\ s[1] \in KeyRecords
BY HeadTailProperties, EmptySeq, LenProperties
-----------------------------------------------------------------------------
(* The devices. *)

(* A press goes on when another begins, and when it or another ends. *)
LEMMA DownGoes ==
  ASSUME NEW b \in Controls \ DOMAIN down, NEW s \in Seq(KeyRecords), NEW r \in KeyRecords, r.control = b,
         presses' = [presses EXCEPT ![b] = @ + 1], presses \in [Controls -> Nat],
         down' = With(down, b, clock), UNCHANGED quick,
         NEW t, t = s \/ t = Append(s, r),
         NEW c \in Controls, NEW id, NEW since, NEW n \in 0 .. Len(s), Continues(s, c, id, since, n)
  PROVE  Continues(t, c, id, since, n)'
<1>1. Len(s) \in Nat /\ Len(t) \in Nat /\ Len(t) >= Len(s) /\ \A i \in 1 .. Len(s) : t[i] = s[i]
  <2>1. CASE t = s BY <2>1, LenProperties
  <2>2. CASE t = Append(s, r) BY <2>2, Appended
  <2>3. QED BY <2>1, <2>2
<1>2. \A j \in 1 .. Len(t) : j \in 1 .. Len(s) \/ t[j] = r
  <2>1. CASE t = s BY <2>1
  <2>2. CASE t = Append(s, r) BY <2>2, Appended
  <2>3. QED BY <2>1, <2>2
<1>3. CASE c \in DOMAIN down /\ presses[c] = id /\ down[c] <= since /\ \A j \in n + 1 .. Len(s) : s[j].control # c
  <2>1. c # b BY <1>3
  <2>2. c \in DOMAIN down' /\ down'[c] = down[c]
    <3>1. DOMAIN With(down, b, clock) = DOMAIN down \cup {b} /\ With(down, b, clock)[c] = down[c]
      BY <1>3, <2>1 DEF With
    <3>2. QED BY <3>1, <1>3
  <2>5. presses'[c] = presses[c] BY <2>1
  <2>3. \A j \in n + 1 .. Len(t) : t[j].control # c BY <1>1, <1>2, <1>3, <2>1
  <2>4. QED BY <2>2, <2>5, <2>3, <1>3 DEF Continues
<1>4. CASE \E i \in n + 1 .. Len(s) :
             /\ s[i].control = c /\ s[i].kind = "up" /\ s[i].id = id
             /\ <<c, id>> \in quick => s[i].at - since < Long
             /\ \A j \in n + 1 .. i - 1 : s[j].control # c
  <2>1. PICK i \in n + 1 .. Len(s) :
             /\ s[i].control = c /\ s[i].kind = "up" /\ s[i].id = id
             /\ <<c, id>> \in quick => s[i].at - since < Long
             /\ \A j \in n + 1 .. i - 1 : s[j].control # c BY <1>4
  <2>2. i \in n + 1 .. Len(t) /\ t[i] = s[i] /\ \A j \in n + 1 .. i - 1 : t[j] = s[j]
    <3>1. i \in 1 .. Len(s) /\ i <= Len(t) /\ i \in Nat /\ n \in Nat BY <1>1, <2>1
    <3>2. i \in n + 1 .. Len(t) /\ t[i] = s[i] BY <3>1, <1>1, <2>1
    <3>3. ASSUME NEW j \in n + 1 .. i - 1 PROVE t[j] = s[j]
      <4>1. j \in 1 .. Len(s) BY <3>1, <3>3, <1>1
      <4>2. QED BY <4>1, <1>1
    <3>4. QED BY <3>2, <3>3
  <2>3. QED BY <2>1, <2>2 DEF Continues
<1>5. QED BY <1>3, <1>4 DEF Continues

LEMMA UpGoes ==
  ASSUME ButtonsTyped, NEW b \in DOMAIN down, NEW s \in Seq(KeyRecords), NEW r \in KeyRecords,
         r.control = b, r.kind = "up", r.id = presses[b], r.at = clock,
         UNCHANGED presses, down' = Restrict(down, DOMAIN down \ {b}),
         quick' = IF clock - down[b] < Long THEN quick \cup {<<b, presses[b]>>} ELSE quick,
         \A i \in 1 .. Len(s) : s[i].control = b /\ s[i].kind = "up" => s[i].id < presses[b],
         NEW c \in Controls, NEW id, NEW since \in Nat,
         NEW t, t = Append(s, r) \/ (t = s /\ c # b),
         NEW n \in 0 .. Len(s), Continues(s, c, id, since, n), Long \in Nat
  PROVE  Continues(t, c, id, since, n)'
<1>0. presses[b] \in Nat /\ clock \in Nat /\ down[b] \in Nat /\ b \in Controls BY DEF ButtonsTyped
<1>1. Len(s) \in Nat /\ Len(t) \in Nat /\ Len(t) >= Len(s) /\ \A i \in 1 .. Len(s) : t[i] = s[i]
  <2>1. CASE t = s BY <2>1, LenProperties
  <2>2. CASE t = Append(s, r) BY <2>2, Appended
  <2>3. QED BY <2>1, <2>2
<1>2. \A j \in 1 .. Len(t) : j \in 1 .. Len(s) \/ t[j] = r
  <2>1. CASE t = s BY <2>1
  <2>2. CASE t = Append(s, r) BY <2>2, Appended
  <2>3. QED BY <2>1, <2>2
<1>3. CASE c \in DOMAIN down /\ presses[c] = id /\ down[c] <= since /\ \A j \in n + 1 .. Len(s) : s[j].control # c
  <2>1. CASE c # b
    <3>1. c \in DOMAIN down' /\ down'[c] = down[c] BY <1>3, <2>1, RestrictIs
    <3>2. \A j \in n + 1 .. Len(t) : t[j].control # c BY <1>1, <1>2, <1>3, <2>1
    <3>3. QED BY <3>1, <3>2, <1>3 DEF Continues
  <2>2. CASE c = b
    <3>1. t = Append(s, r) /\ Len(t) = Len(s) + 1 /\ t[Len(t)] = r BY <2>2, Appended
    <3>2. <<b, id>> \notin quick
      <4>1. \A p \in quick : p[1] \in DOMAIN down => p[2] < presses[p[1]] BY DEF ButtonsTyped
      <4>2. SUFFICES ASSUME <<b, id>> \in quick PROVE FALSE OBVIOUS
      <4>3. id < presses[b] BY <4>1, <4>2
      <4>4. QED BY <4>3, <1>3, <2>2, <1>0
    <3>3. <<c, id>> \in quick' => clock - since < Long BY <3>2, <1>3, <2>2, <1>0
    <3>4. \A j \in n + 1 .. Len(t) - 1 : t[j].control # c BY <1>1, <1>3, <3>1
    <3>5. Len(t) \in n + 1 .. Len(t) BY <1>1, <3>1
    <3>6. QED BY <3>1, <3>3, <3>4, <3>5, <1>3, <2>2 DEF Continues
  <2>3. QED BY <2>1, <2>2
<1>4. CASE \E i \in n + 1 .. Len(s) :
             /\ s[i].control = c /\ s[i].kind = "up" /\ s[i].id = id
             /\ <<c, id>> \in quick => s[i].at - since < Long
             /\ \A j \in n + 1 .. i - 1 : s[j].control # c
  <2>1. PICK i \in n + 1 .. Len(s) :
             /\ s[i].control = c /\ s[i].kind = "up" /\ s[i].id = id
             /\ <<c, id>> \in quick => s[i].at - since < Long
             /\ \A j \in n + 1 .. i - 1 : s[j].control # c BY <1>4
  <2>2. i \in n + 1 .. Len(t) /\ t[i] = s[i] /\ \A j \in n + 1 .. i - 1 : t[j] = s[j]
    <3>1. i \in 1 .. Len(s) /\ i <= Len(t) /\ i \in Nat /\ n \in Nat BY <1>1, <2>1
    <3>2. i \in n + 1 .. Len(t) /\ t[i] = s[i] BY <3>1, <1>1, <2>1
    <3>3. ASSUME NEW j \in n + 1 .. i - 1 PROVE t[j] = s[j]
      <4>1. j \in 1 .. Len(s) BY <3>1, <3>3, <1>1
      <4>2. QED BY <4>1, <1>1
    <3>4. QED BY <3>2, <3>3
  <2>3. c = b => id < presses[b] BY <2>1, <1>1
  <2>4. <<c, id>> \in quick' => <<c, id>> \in quick BY <2>3, <1>0
  <2>5. QED BY <2>1, <2>2, <2>4 DEF Continues
<1>5. QED BY <1>3, <1>4 DEF Continues

LEMMA TailGoes ==
  ASSUME NEW s \in Seq(KeyRecords), s # <<>>, UNCHANGED <<down, presses, quick>>,
         NEW c, NEW id, NEW since, NEW n \in 0 .. Len(s) - 1, Continues(s, c, id, since, n + 1),
         NEW t, t = Tail(s)
  PROVE  Continues(t, c, id, since, n)'
<1>1. /\ Len(s) \in Nat \ {0} /\ Len(t) = Len(s) - 1 /\ \A i \in 1 .. Len(s) - 1 : t[i] = s[i + 1]
  BY Shortened
<1>3. CASE c \in DOMAIN down /\ presses[c] = id /\ down[c] <= since /\ \A j \in n + 2 .. Len(s) : s[j].control # c
  <2>1. \A j \in n + 1 .. Len(t) : t[j].control # c
    <3>1. SUFFICES ASSUME NEW j \in n + 1 .. Len(t) PROVE t[j].control # c OBVIOUS
    <3>2. j + 1 \in n + 2 .. Len(s) /\ t[j] = s[j + 1] BY <1>1
    <3>3. QED BY <3>2, <1>3
  <2>2. QED BY <2>1, <1>3 DEF Continues
<1>4. CASE \E i \in n + 2 .. Len(s) :
             /\ s[i].control = c /\ s[i].kind = "up" /\ s[i].id = id
             /\ <<c, id>> \in quick => s[i].at - since < Long
             /\ \A j \in n + 2 .. i - 1 : s[j].control # c
  <2>1. PICK i \in n + 2 .. Len(s) :
             /\ s[i].control = c /\ s[i].kind = "up" /\ s[i].id = id
             /\ <<c, id>> \in quick => s[i].at - since < Long
             /\ \A j \in n + 2 .. i - 1 : s[j].control # c BY <1>4
  <2>2. i - 1 \in n + 1 .. Len(t) /\ t[i - 1] = s[i] BY <1>1, <2>1
  <2>3. \A j \in n + 1 .. (i - 1) - 1 : t[j].control # c
    <3>1. SUFFICES ASSUME NEW j \in n + 1 .. (i - 1) - 1 PROVE t[j].control # c OBVIOUS
    <3>2. j + 1 \in n + 2 .. i - 1 /\ t[j] = s[j + 1] BY <1>1
    <3>3. QED BY <3>2, <2>1
  <2>4. QED BY <2>1, <2>2, <2>3 DEF Continues
<1>5. QED
  <2>1. (n + 1) + 1 = n + 2 BY <1>1
  <2>2. QED BY <2>1, <1>3, <1>4 DEF Continues
(* A record that follows the others of its button. *)
LEMMA StreamGrows ==
  ASSUME NEW d, NEW s \in Seq(KeyRecords), NEW r \in KeyRecords, StreamOK(d, s), UNCHANGED fds,
         NEW t, t = s \/ (t = Append(s, r) /\ fds[d] = "open"), r.kind # "dropped",
         \A i \in DOMAIN s : s[i].kind # "dropped" => KeyRecordOK(d, t, i)',
         \A i \in DOMAIN s : s[i].control = r.control =>
           s[i].id < r.id \/ (s[i].id = r.id /\ s[i].kind = "down" /\ r.kind = "up"),
         t # s => KeyRecordOK(d, t, Len(s) + 1)'
  PROVE  StreamOK(d, t)'
<1>1. CASE t = s
  <2>1. \A i \in DOMAIN t : t[i].kind # "dropped" => KeyRecordOK(d, t, i)' BY <1>1
  <2>2. QED BY <1>1, <2>1 DEF StreamOK, LostFirst, InTurn
<1>2. CASE t # s
  <2>1. t = Append(s, r) /\ fds[d] = "open" BY <1>2
  <2>2. /\ Len(s) \in Nat /\ t[Len(s) + 1] = r /\ \A i \in 1 .. Len(s) : t[i] = s[i]
        /\ DOMAIN s = 1 .. Len(s) /\ DOMAIN t = 1 .. Len(s) + 1
    BY <2>1, Appended
  <2>3. \A i \in DOMAIN t : t[i].kind # "dropped" => KeyRecordOK(d, t, i)' BY <1>2, <2>2
  <2>4. LostFirst(t) BY <2>2 DEF StreamOK, LostFirst
  <2>5. InTurn(t)
    <3>1. SUFFICES ASSUME NEW i \in DOMAIN t, NEW j \in DOMAIN t, i < j, t[i].control = t[j].control
          PROVE  t[i].id < t[j].id \/ (t[i].id = t[j].id /\ t[i].kind = "down" /\ t[j].kind = "up")
      BY DEF InTurn
    <3>2. i \in DOMAIN s /\ t[i] = s[i] BY <3>1, <2>2
    <3>3. CASE j \in DOMAIN s BY <3>1, <3>2, <3>3, <2>2 DEF StreamOK, InTurn
    <3>4. CASE j \notin DOMAIN s
      <4>1. j = Len(s) + 1 BY <3>4, <2>2
      <4>2. t[j] = r BY <4>1, <2>2
      <4>3. QED BY <3>1, <3>2, <4>2
    <3>5. QED BY <3>3, <3>4
  <2>6. QED BY <2>1, <2>3, <2>4, <2>5 DEF StreamOK
<1>3. QED BY <1>1, <1>2

(* What is known of a press that no action of this step is about. *)
LEMMA DownOld ==
  ASSUME ButtonsTyped, NEW b \in Controls \ DOMAIN down,
         presses' = [presses EXCEPT ![b] = @ + 1], down' = With(down, b, clock), UNCHANGED <<quick, clock>>,
         NEW c \in Controls, NEW id \in Nat, id <= presses[c], Old(c, id)
  PROVE  Old(c, id)'
<1>1. presses[b] \in Nat /\ presses \in [Controls -> Nat] BY DEF ButtonsTyped
<1>2. c = b => presses'[c] # id BY <1>1
<1>3. c # b => presses'[c] = presses[c] BY <1>1
<1>4. c # b /\ c \in DOMAIN down' => c \in DOMAIN down /\ down'[c] = down[c] BY DEF With
<1>5. QED BY <1>2, <1>3, <1>4 DEF Old
LEMMA UpOld ==
  ASSUME ButtonsTyped, Long \in Nat, NEW b \in DOMAIN down,
         down' = Restrict(down, DOMAIN down \ {b}), UNCHANGED <<presses, clock>>,
         quick' = IF clock - down[b] < Long THEN quick \cup {<<b, presses[b]>>} ELSE quick,
         NEW c, NEW id, Old(c, id)
  PROVE  Old(c, id)'
<1>1. c \in DOMAIN down' => c \in DOMAIN down /\ down'[c] = down[c] BY RestrictIs
<1>2. clock \in Nat /\ down[b] \in Nat BY DEF ButtonsTyped
<1>3. <<c, id>> \notin quick'
  <2>1. CASE c = b /\ id = presses[b]
    <3>1. ~(clock - down[b] < Long) BY <2>1, <1>2 DEF Old
    <3>2. QED BY <3>1 DEF Old
  <2>2. CASE ~(c = b /\ id = presses[b]) BY <2>2 DEF Old
  <2>3. QED BY <2>1, <2>2
<1>4. QED BY <1>1, <1>3 DEF Old
LEMMA DownDevices ==
  ASSUME ButtonsAssumption, ButtonsInv, Down PROVE DevicesInv' /\ SpentOK' /\ HeldOK'
<1>t. ButtonsTyped /\ presses \in [Controls -> Nat] /\ clock \in Nat /\ raw = NoRecords
  BY DEF ButtonsInv, ButtonsTyped, ReadingOK, Down, Rests
<1>1. PICK b \in Controls \ DOMAIN down :
        /\ presses' = [presses EXCEPT ![b] = @ + 1] /\ down' = With(down, b, clock)
        /\ Reports(b, "down", presses[b] + 1)
        /\ cut' = IF fds[DeviceOf(b)] = "open" THEN cut ELSE cut \cup {<<b, presses[b] + 1>>}
  BY Zenon DEF Down
<1>2. UNCHANGED <<clock, fds, raw, events, pressed, dropping, router, mode, given, begun, quick>>
  BY DEF Down, loopVars, uiVars
<1>3. PICK r \in KeyRecords : r.control = b /\ r.kind = "down" /\ r.at = clock /\ r.id = presses[b] + 1
                              /\ r = Record(b, "down", presses[b] + 1)
  <2>1. b \in Controls /\ presses[b] + 1 \in Nat /\ clock \in Nat BY <1>t
  <2>2. Record(b, "down", presses[b] + 1) \in KeyRecords BY <2>1 DEF Record, KeyRecords
  <2>3. QED BY <2>2 DEF Record
<1>a. \A c \in Controls : presses'[c] = IF c = b THEN presses[b] + 1 ELSE presses[c] BY <1>1, <1>t
<1>b. DOMAIN down' = DOMAIN down \cup {b} /\ down'[b] = clock BY <1>1 DEF With
<1>4. ASSUME NEW d \in Devices, NEW s, s = Stream(d), NEW t, t = Stream(d)'
      PROVE  /\ s \in Seq(KeyRecords) /\ StreamOK(d, s)
             /\ t = s \/ (t = Append(s, r) /\ d = DeviceOf(b) /\ fds[d] = "open")
  <2>1. s = lines[d] /\ s \in Seq(KeyRecords) BY <1>t, <1>4, StreamRests, StreamIs
  <2>2. lines'[d] = lines[d] \/ (lines'[d] = Append(lines[d], r) /\ d = DeviceOf(b) /\ fds[d] = "open")
    <3>1. lines' = IF fds[DeviceOf(b)] = "open"
                   THEN [lines EXCEPT ![DeviceOf(b)] = Append(@, r)] ELSE lines
      BY <1>1, <1>3 DEF Reports
    <3>2. DOMAIN lines = Devices BY <1>t DEF ButtonsTyped
    <3>3. QED BY <3>1, <3>2
  <2>3. raw'[d] = <<>> BY <1>2, <1>t DEF NoRecords
  <2>4. lines'[d] \in Seq(KeyRecords) BY <2>1, <2>2, Appended
  <2>5. t = lines'[d] BY <2>3, <2>4, <1>4, ConcatEmptySeq DEF Stream
  <2>6. StreamOK(d, s) BY <1>4 DEF ButtonsInv, DevicesInv
  <2>7. QED BY <2>1, <2>2, <2>5, <2>6
<1>5. ASSUME NEW d \in Devices PROVE StreamOK(d, Stream(d))'
  <2>1. PICK s, t : s = Stream(d) /\ t = Stream(d)' OBVIOUS
  <2>2. /\ s \in Seq(KeyRecords) /\ StreamOK(d, s)
        /\ t = s \/ (t = Append(s, r) /\ d = DeviceOf(b) /\ fds[d] = "open") BY <2>1, <1>4
  <2>l. Len(s) \in Nat /\ DOMAIN s = 1 .. Len(s) /\ \A i \in DOMAIN s : t[i] = s[i]
    <3>1. Len(s) \in Nat /\ DOMAIN s = 1 .. Len(s) BY <2>2, LenProperties
    <3>2. CASE t = s BY <3>1, <3>2
    <3>3. CASE t = Append(s, r) BY <2>2, <3>3, Appended
    <3>4. QED BY <3>1, <3>2, <3>3, <2>2
  <2>3. ASSUME NEW i \in DOMAIN s, s[i].kind # "dropped" PROVE KeyRecordOK(d, t, i)'
    <3>1. KeyRecordOK(d, s, i) /\ t[i] = s[i] BY <2>3, <2>2, <2>l DEF StreamOK
    <3> DEFINE c == s[i].control
               id == s[i].id
    <3>2. c \in Controls /\ id \in Nat \ {0} /\ id <= presses[c] /\ DeviceOf(c) = d BY <3>1 DEF KeyRecordOK, Presses
    <3>3. <<c, id>> \in Presses' BY <3>2, <1>a, <1>t DEF Presses
    <3>4. s[i].kind = "up" /\ c \in DOMAIN down' => id < presses'[c]
      BY <3>1, <3>2, <1>a, <1>b, <1>t DEF KeyRecordOK
    <3>5. ASSUME s[i].kind = "down" PROVE Continues(t, c, id, s[i].at, i)' /\ Unheard(c, id)' /\ <<c, id>> \notin cut'
      <4>1. Continues(s, c, id, s[i].at, i) /\ Unheard(c, id) /\ <<c, id>> \notin cut BY <3>1, <3>5 DEF KeyRecordOK
      <4>2. i \in 0 .. Len(s) BY <2>l
      <4>3. Continues(t, c, id, s[i].at, i)' BY <4>1, <4>2, <3>2, <2>2, <1>1, <1>2, <1>3, <1>t, DownGoes
      <4>4. Unheard(c, id)' BY <4>1, <1>2 DEF Unheard
      <4>5. QED BY <4>1, <4>3, <4>4, <1>1, <3>2, <1>t
    <3>6. QED BY <3>1, <3>2, <3>3, <3>4, <3>5 DEF KeyRecordOK
  <2>4. \A i \in DOMAIN s : s[i].control = r.control => s[i].id < r.id
    <3>1. SUFFICES ASSUME NEW i \in DOMAIN s, s[i].control = b PROVE s[i].id <= presses[b] /\ s[i].id \in Nat
      BY <1>3, <1>t
    <3>2. s[i].kind # "dropped" BY <3>1, <2>2, <1>1 DEF StreamOK, LostFirst, ButtonsAssumption
    <3>3. KeyRecordOK(d, s, i) BY <3>2, <2>2 DEF StreamOK
    <3>4. QED BY <3>3, <3>1 DEF KeyRecordOK, Presses
  <2>5. ASSUME t # s PROVE KeyRecordOK(d, t, Len(s) + 1)'
    <3>1. t = Append(s, r) /\ d = DeviceOf(b) /\ fds[d] = "open" BY <2>2, <2>5
    <3>2. t[Len(s) + 1] = r /\ Len(t) = Len(s) + 1 BY <2>2, <3>1, Appended
    <3>3. <<b, r.id>> \in Presses' BY <1>3, <1>a, <1>t DEF Presses
    <3>4. Continues(t, b, r.id, r.at, Len(s) + 1)'
      <4>1. b \in DOMAIN down' /\ presses'[b] = r.id /\ down'[b] <= r.at BY <1>a, <1>b, <1>3, <1>t
      <4>2. \A j \in Len(s) + 2 .. Len(t) : t[j].control # b BY <3>2, <2>l
      <4>3. (Len(s) + 1) + 1 = Len(s) + 2 BY <2>l
      <4>4. QED BY <4>1, <4>2, <4>3 DEF Continues
    <3>5. <<b, r.id>> \notin Presses BY <1>3, <1>t DEF Presses
    <3>6. Unheard(b, r.id)'
      <4>1. <<b, r.id>> \notin begun BY <3>5, <1>t DEF ButtonsTyped
      <4>2. \A g \in given : ~(g[1] = b /\ g[2] = r.id) BY <3>5, <1>t DEF ButtonsTyped
      <4>3. QED BY <4>1, <4>2, <1>2 DEF Unheard
    <3>7. <<b, r.id>> \notin cut'
      <4>1. <<b, r.id>> \notin cut BY <3>5, <1>t, <1>1 DEF ButtonsTyped, ButtonsAssumption
      <4>2. QED BY <4>1, <3>1, <1>1
    <3>8. QED BY <3>1, <3>2, <3>3, <3>4, <3>6, <3>7, <1>3 DEF KeyRecordOK
  <2>6. StreamOK(d, t)' BY <2>2, <2>3, <2>4, <2>5, <1>2, <1>3, StreamGrows
  <2>7. QED BY <2>1, <2>6
<1>6. ASSUME NEW c \in DOMAIN pressed' PROVE KnownOK(c, Stream(DeviceOf(c)))'
  <2>1. PICK d, s, t : d = DeviceOf(c) /\ s = Stream(d) /\ t = Stream(d)' OBVIOUS
  <2>d. d \in Devices BY <2>1, DevicesAre
  <2>2. /\ s \in Seq(KeyRecords) /\ StreamOK(d, s)
        /\ t = s \/ (t = Append(s, r) /\ d = DeviceOf(b) /\ fds[d] = "open") BY <2>1, <2>d, <1>4
  <2>3. KnownOK(c, s) /\ c \in Controls /\ pressed[c] \in KnownPress
    BY <2>1, <1>2, <1>t DEF ButtonsInv, DevicesInv, ButtonsTyped
  <2> DEFINE p == pressed[c]
  <2>4. p.id \in Nat \ {0} /\ p.id <= presses[c] /\ pressed'[c] = p BY <2>3, <1>2 DEF KnownPress, KnownOK
  <2>5. p.id <= presses'[c] BY <2>4, <2>3, <1>a, <1>t
  <2>l. Len(s) \in Nat /\ DOMAIN s = 1 .. Len(s) BY <2>2, LenProperties
  <2>6. \A i \in DOMAIN t : t[i].control = c => p.id < t[i].id \/ (p.id = t[i].id /\ t[i].kind = "up")
    <3>1. CASE t = s BY <3>1, <2>3 DEF KnownOK
    <3>2. CASE t = Append(s, r)
      <4>1. /\ t[Len(s) + 1] = r /\ DOMAIN t = 1 .. Len(s) + 1 /\ \A i \in 1 .. Len(s) : t[i] = s[i]
        BY <2>2, <3>2, Appended
      <4>2. r.control = c => p.id < r.id BY <2>4, <2>3, <1>3, <1>t
      <4>3. \A i \in DOMAIN t : i \in DOMAIN s \/ i = Len(s) + 1 BY <4>1, <2>l
      <4>4. QED BY <4>1, <4>2, <4>3, <2>l, <2>3 DEF KnownOK
    <3>3. QED BY <3>1, <3>2, <2>2
  <2>7. Lost(s) <=> Lost(t)
    <3>1. CASE t = s BY <3>1
    <3>2. CASE t = Append(s, r)
      <4>1. t # <<>> /\ t[1] = IF s = <<>> THEN r ELSE s[1] BY <2>2, <3>2, EmptySeq, Appended
      <4>2. QED BY <4>1, <1>3 DEF Lost
    <3>3. QED BY <3>1, <3>2, <2>2
  <2>8. fds[d] = "open" /\ ~Lost(t) => Continues(t, c, p.id, p.since, 0)'
    <3>1. SUFFICES ASSUME fds[d] = "open", ~Lost(t) PROVE Continues(t, c, p.id, p.since, 0)' OBVIOUS
    <3>2. Continues(s, c, p.id, p.since, 0) BY <3>1, <2>1, <2>3, <2>7 DEF KnownOK
    <3>3. 0 \in 0 .. Len(s) BY <2>l
    <3>4. QED BY <3>2, <3>3, <2>2, <2>3, <1>1, <1>2, <1>3, <1>t, DownGoes
  <2>9. <<c, p.id>> \in cut' => <<c, p.id>> \in cut BY <1>1, <2>4, <2>3, <1>t
  <2>10. p.long => Old(c, p.id)'
    <3>1. p.long => Old(c, p.id) BY <2>3 DEF KnownOK
    <3>2. QED BY <3>1, <2>4, <2>3, <1>1, <1>2, <1>t, DownOld
  <2>11. KnownOK(c, t)'
    BY <2>1, <2>3, <2>4, <2>5, <2>6, <2>7, <2>8, <2>9, <2>10, <1>2 DEF KnownOK
  <2>12. QED BY <2>1, <2>11
<1>7. SpentOK'
  <2>1. SUFFICES ASSUME NEW g \in given, Spent(g[1], g[2])
        PROVE  Finished(g[1], g[2])' /\ <<g[1], g[2]>> \notin cut'
    BY <1>2 DEF SpentOK, Spent, Gave
  <2> DEFINE c == g[1]
             id == g[2]
  <2>2. c \in Controls /\ id \in Nat \ {0} /\ id <= presses[c] BY <1>t DEF ButtonsTyped, Presses
  <2>3. Finished(c, id) /\ <<c, id>> \notin cut BY <2>1 DEF ButtonsInv, SpentOK
  <2>4. PICK d, s, t : d = DeviceOf(c) /\ s = Stream(d) /\ t = Stream(d)' OBVIOUS
  <2>d. d \in Devices BY <2>4, DevicesAre
  <2>5. /\ s \in Seq(KeyRecords)
        /\ t = s \/ (t = Append(s, r) /\ d = DeviceOf(b) /\ fds[d] = "open") BY <2>4, <2>d, <1>4
  <2>l. Len(s) \in Nat /\ DOMAIN s = 1 .. Len(s) BY <2>5, LenProperties
  <2>6. \A i \in DOMAIN t : t[i].control = c => id < t[i].id
    <3>1. CASE t = s BY <3>1, <2>3, <2>4 DEF Finished
    <3>2. CASE t = Append(s, r)
      <4>1. /\ t[Len(s) + 1] = r /\ DOMAIN t = 1 .. Len(s) + 1 /\ \A i \in 1 .. Len(s) : t[i] = s[i]
        BY <2>5, <3>2, Appended
      <4>2. r.control = c => id < r.id BY <2>2, <1>3, <1>t
      <4>3. \A i \in DOMAIN t : i \in DOMAIN s \/ i = Len(s) + 1 BY <4>1, <2>l
      <4>4. QED BY <4>1, <4>2, <4>3, <2>l, <2>3, <2>4 DEF Finished
    <3>3. QED BY <3>1, <3>2, <2>5
  <2>7. c \in DOMAIN down' => id < presses'[c] BY <2>2, <2>3, <1>a, <1>b, <1>t DEF Finished
  <2>8. Finished(c, id)' BY <2>3, <2>4, <2>6, <2>7, <1>2 DEF Finished
  <2>9. QED BY <2>8, <2>3, <2>2, <1>1, <1>t
<1>8. HeldOK'
  <2>1. SUFFICES ASSUME NEW g \in given, g[3] = "hold" PROVE Old(g[1], g[2])' BY <1>2 DEF HeldOK
  <2>2. g[1] \in Controls /\ g[2] \in Nat /\ g[2] <= presses[g[1]] BY <1>t DEF ButtonsTyped, Presses
  <2>3. Old(g[1], g[2]) BY <2>1 DEF ButtonsInv, HeldOK
  <2>4. QED BY <2>2, <2>3, <1>1, <1>2, <1>t, DownOld
<1>9. QED BY <1>5, <1>6, <1>7, <1>8 DEF DevicesInv
LEMMA UpDevices ==
  ASSUME ButtonsAssumption, ButtonsInv, Up PROVE DevicesInv' /\ SpentOK' /\ HeldOK'
<1>t. ButtonsTyped /\ presses \in [Controls -> Nat] /\ clock \in Nat /\ raw = NoRecords /\ Long \in Nat
  BY DEF ButtonsInv, ButtonsTyped, ReadingOK, Up, Rests, ButtonsAssumption
<1>1. PICK b \in DOMAIN down :
        /\ down' = Restrict(down, DOMAIN down \ {b}) /\ Reports(b, "up", presses[b])
        /\ quick' = IF clock - down[b] < Long THEN quick \cup {<<b, presses[b]>>} ELSE quick
  BY Zenon DEF Up
<1>2. UNCHANGED <<clock, presses, fds, raw, events, pressed, dropping, router, mode, given, begun, cut>>
  BY DEF Up, loopVars, uiVars
<1>c. b \in Controls /\ presses[b] \in Nat /\ presses[b] # 0 BY <1>t DEF ButtonsTyped
<1>3. PICK r \in KeyRecords : r.control = b /\ r.kind = "up" /\ r.at = clock /\ r.id = presses[b]
                              /\ r = Record(b, "up", presses[b])
  <2>1. b \in Controls /\ presses[b] \in Nat /\ clock \in Nat BY <1>t, <1>c
  <2>2. Record(b, "up", presses[b]) \in KeyRecords BY <2>1 DEF Record, KeyRecords
  <2>3. QED BY <2>2 DEF Record
<1>b. DOMAIN down' = DOMAIN down \ {b} BY <1>1, RestrictIs
<1>4. ASSUME NEW d \in Devices, NEW s, s = Stream(d), NEW t, t = Stream(d)'
      PROVE  /\ s \in Seq(KeyRecords) /\ StreamOK(d, s)
             /\ IF d = DeviceOf(b) /\ fds[d] = "open" THEN t = Append(s, r) ELSE t = s
  <2>1. s = lines[d] /\ s \in Seq(KeyRecords) BY <1>t, <1>4, StreamRests, StreamIs
  <2>2. IF d = DeviceOf(b) /\ fds[d] = "open" THEN lines'[d] = Append(lines[d], r) ELSE lines'[d] = lines[d]
    <3>1. lines' = IF fds[DeviceOf(b)] = "open"
                   THEN [lines EXCEPT ![DeviceOf(b)] = Append(@, r)] ELSE lines
      BY <1>1, <1>3 DEF Reports
    <3>2. DOMAIN lines = Devices BY <1>t DEF ButtonsTyped
    <3>3. QED BY <3>1, <3>2
  <2>3. raw'[d] = <<>> BY <1>2, <1>t DEF NoRecords
  <2>4. lines'[d] \in Seq(KeyRecords) BY <2>1, <2>2, Appended
  <2>5. t = lines'[d] BY <2>3, <2>4, <1>4, ConcatEmptySeq DEF Stream
  <2>6. StreamOK(d, s) BY <1>4 DEF ButtonsInv, DevicesInv
  <2>7. QED BY <2>1, <2>2, <2>5, <2>6
<1>u. ASSUME NEW d \in Devices, NEW s, s = Stream(d), NEW i \in 1 .. Len(s), s[i].control = b, s[i].kind = "up"
      PROVE  s[i].id < presses[b]
  <2>1. s \in Seq(KeyRecords) /\ StreamOK(d, s) BY <1>u, <1>t, StreamIs DEF ButtonsInv, DevicesInv
  <2>2. KeyRecordOK(d, s, i) BY <2>1, <1>u, LenProperties DEF StreamOK
  <2>3. QED BY <2>2, <1>u DEF KeyRecordOK
<1>5. ASSUME NEW d \in Devices PROVE StreamOK(d, Stream(d))'
  <2>1. PICK s, t : s = Stream(d) /\ t = Stream(d)' OBVIOUS
  <2>2. /\ s \in Seq(KeyRecords) /\ StreamOK(d, s)
        /\ IF d = DeviceOf(b) /\ fds[d] = "open" THEN t = Append(s, r) ELSE t = s BY <2>1, <1>4
  <2>u. \A i \in 1 .. Len(s) : s[i].control = b /\ s[i].kind = "up" => s[i].id < presses[b] BY <2>1, <1>u
  <2>l. Len(s) \in Nat /\ DOMAIN s = 1 .. Len(s) /\ \A i \in DOMAIN s : t[i] = s[i]
    <3>1. Len(s) \in Nat /\ DOMAIN s = 1 .. Len(s) BY <2>2, LenProperties
    <3>2. CASE t = s BY <3>1, <3>2
    <3>3. CASE t = Append(s, r) BY <2>2, <3>3, Appended
    <3>4. QED BY <3>1, <3>2, <3>3, <2>2
  <2>3. ASSUME NEW i \in DOMAIN s, s[i].kind # "dropped" PROVE KeyRecordOK(d, t, i)'
    <3>1. KeyRecordOK(d, s, i) /\ t[i] = s[i] BY <2>3, <2>2, <2>l DEF StreamOK
    <3> DEFINE c == s[i].control
               id == s[i].id
    <3>2. c \in Controls /\ id \in Nat \ {0} /\ id <= presses[c] /\ DeviceOf(c) = d BY <3>1 DEF KeyRecordOK, Presses
    <3>3. <<c, id>> \in Presses' BY <3>2, <1>2 DEF Presses
    <3>4. s[i].kind = "up" /\ c \in DOMAIN down' => id < presses'[c]
      BY <3>1, <3>2, <1>2, <1>b DEF KeyRecordOK
    <3>5. ASSUME s[i].kind = "down" PROVE Continues(t, c, id, s[i].at, i)' /\ Unheard(c, id)' /\ <<c, id>> \notin cut'
      <4>1. Continues(s, c, id, s[i].at, i) /\ Unheard(c, id) /\ <<c, id>> \notin cut BY <3>1, <3>5 DEF KeyRecordOK
      <4>2. i \in 0 .. Len(s) BY <2>l
      <4>5. t = Append(s, r) \/ (t = s /\ c # b)
        <5>1. fds[d] = "open"
          <6>1. s # <<>> BY <2>l, <2>3, EmptySeq
          <6>2. QED BY <6>1, <2>2 DEF StreamOK
        <5>2. QED BY <5>1, <3>2, <2>2
      <4>6. s[i].at \in Nat
        <5>1. s[i] \in KeyRecords BY <2>3, <2>2, <2>l, ElementOfSeq
        <5>2. QED BY <5>1 DEF KeyRecords
      <4>3. Continues(t, c, id, s[i].at, i)' BY <4>1, <4>2, <4>5, <4>6, <3>2, <2>2, <2>u, <1>1, <1>2, <1>3, <1>t, UpGoes
      <4>4. Unheard(c, id)' BY <4>1, <1>2 DEF Unheard
      <4>7. QED BY <4>1, <4>3, <4>4, <1>2
    <3>6. QED BY <3>1, <3>2, <3>3, <3>4, <3>5 DEF KeyRecordOK
  <2>4. \A i \in DOMAIN s : s[i].control = r.control =>
          s[i].id < r.id \/ (s[i].id = r.id /\ s[i].kind = "down" /\ r.kind = "up")
    <3>1. SUFFICES ASSUME NEW i \in DOMAIN s, s[i].control = b
          PROVE  s[i].id < presses[b] \/ (s[i].id = presses[b] /\ s[i].kind = "down")
      BY <1>3
    <3>2. s[i].kind # "dropped" BY <3>1, <2>2, <1>c DEF StreamOK, LostFirst, ButtonsAssumption
    <3>3. KeyRecordOK(d, s, i) BY <3>2, <2>2 DEF StreamOK
    <3>4. s[i].id <= presses[b] /\ s[i].id \in Nat BY <3>3, <3>1 DEF KeyRecordOK, Presses
    <3>5. s[i].kind \in {"down", "up"}
      <4>1. s[i] \in KeyRecords BY <3>1, <2>2, <2>l, ElementOfSeq
      <4>2. QED BY <4>1, <3>2 DEF KeyRecords
    <3>6. QED BY <3>1, <3>4, <3>5, <2>u, <2>l, <1>c
  <2>5. ASSUME t # s PROVE KeyRecordOK(d, t, Len(s) + 1)'
    <3>1. t = Append(s, r) /\ d = DeviceOf(b) /\ fds[d] = "open" BY <2>2, <2>5
    <3>2. t[Len(s) + 1] = r /\ Len(t) = Len(s) + 1 BY <2>2, <3>1, Appended
    <3>3. <<b, r.id>> \in Presses' BY <1>3, <1>2, <1>c DEF Presses
    <3>8. QED BY <3>1, <3>2, <3>3, <1>3, <1>b DEF KeyRecordOK
  <2>7. t = s \/ (t = Append(s, r) /\ fds[d] = "open") BY <2>2
  <2>6. StreamOK(d, t)' BY <2>2, <2>3, <2>4, <2>5, <2>7, <1>2, <1>3, StreamGrows
  <2>8. QED BY <2>1, <2>6
<1>6. ASSUME NEW c \in DOMAIN pressed' PROVE KnownOK(c, Stream(DeviceOf(c)))'
  <2>1. PICK d, s, t : d = DeviceOf(c) /\ s = Stream(d) /\ t = Stream(d)' OBVIOUS
  <2>d. d \in Devices BY <2>1, DevicesAre
  <2>2. /\ s \in Seq(KeyRecords) /\ StreamOK(d, s)
        /\ IF d = DeviceOf(b) /\ fds[d] = "open" THEN t = Append(s, r) ELSE t = s BY <2>1, <2>d, <1>4
  <2>u. \A i \in 1 .. Len(s) : s[i].control = b /\ s[i].kind = "up" => s[i].id < presses[b] BY <2>1, <2>d, <1>u
  <2>3. KnownOK(c, s) /\ c \in Controls /\ pressed[c] \in KnownPress
    BY <2>1, <1>2, <1>t DEF ButtonsInv, DevicesInv, ButtonsTyped
  <2> DEFINE p == pressed[c]
  <2>4. p.id \in Nat \ {0} /\ p.id <= presses[c] /\ pressed'[c] = p /\ p.since \in Nat
    BY <2>3, <1>2 DEF KnownPress, KnownOK
  <2>l. Len(s) \in Nat /\ DOMAIN s = 1 .. Len(s) BY <2>2, LenProperties
  <2>6. \A i \in DOMAIN t : t[i].control = c => p.id < t[i].id \/ (p.id = t[i].id /\ t[i].kind = "up")
    <3>1. CASE t = s BY <3>1, <2>3 DEF KnownOK
    <3>2. CASE t = Append(s, r)
      <4>1. /\ t[Len(s) + 1] = r /\ DOMAIN t = 1 .. Len(s) + 1 /\ \A i \in 1 .. Len(s) : t[i] = s[i]
        BY <2>2, <3>2, Appended
      <4>2. r.control = c => p.id < r.id \/ (p.id = r.id /\ r.kind = "up") BY <2>4, <1>c, <1>3, <1>t
      <4>3. \A i \in DOMAIN t : i \in DOMAIN s \/ i = Len(s) + 1 BY <4>1, <2>l
      <4>4. QED BY <4>1, <4>2, <4>3, <2>l, <2>3 DEF KnownOK
    <3>3. QED BY <3>1, <3>2, <2>2
  <2>7. Lost(s) <=> Lost(t)
    <3>1. CASE t = s BY <3>1
    <3>2. CASE t = Append(s, r)
      <4>1. t # <<>> /\ t[1] = IF s = <<>> THEN r ELSE s[1] BY <2>2, <3>2, EmptySeq, Appended
      <4>2. QED BY <4>1, <1>3 DEF Lost
    <3>3. QED BY <3>1, <3>2, <2>2
  <2>8. fds[d] = "open" /\ ~Lost(t) => Continues(t, c, p.id, p.since, 0)'
    <3>1. SUFFICES ASSUME fds[d] = "open", ~Lost(t) PROVE Continues(t, c, p.id, p.since, 0)' OBVIOUS
    <3>2. Continues(s, c, p.id, p.since, 0) BY <3>1, <2>1, <2>3, <2>7 DEF KnownOK
    <3>3. 0 \in 0 .. Len(s) BY <2>l
    <3>5. t = Append(s, r) \/ (t = s /\ c # b) BY <3>1, <2>1, <2>2
    <3>4. QED BY <3>2, <3>3, <3>5, <2>2, <2>3, <2>4, <2>u, <1>1, <1>2, <1>3, <1>t, UpGoes
  <2>10. p.long => Old(c, p.id)'
    <3>1. p.long => Old(c, p.id) BY <2>3 DEF KnownOK
    <3>2. QED BY <3>1, <1>1, <1>2, <1>t, UpOld
  <2>11. KnownOK(c, t)'
    BY <2>1, <2>3, <2>4, <2>6, <2>7, <2>8, <2>10, <1>2 DEF KnownOK
  <2>12. QED BY <2>1, <2>11
<1>7. SpentOK'
  <2>1. SUFFICES ASSUME NEW g \in given, Spent(g[1], g[2])
        PROVE  Finished(g[1], g[2])' /\ <<g[1], g[2]>> \notin cut'
    BY <1>2 DEF SpentOK, Spent, Gave
  <2> DEFINE c == g[1]
             id == g[2]
  <2>2. c \in Controls /\ id \in Nat \ {0} /\ id <= presses[c] BY <1>t DEF ButtonsTyped, Presses
  <2>3. Finished(c, id) /\ <<c, id>> \notin cut BY <2>1 DEF ButtonsInv, SpentOK
  <2>4. PICK d, s, t : d = DeviceOf(c) /\ s = Stream(d) /\ t = Stream(d)' OBVIOUS
  <2>d. d \in Devices BY <2>4, DevicesAre
  <2>5. /\ s \in Seq(KeyRecords)
        /\ IF d = DeviceOf(b) /\ fds[d] = "open" THEN t = Append(s, r) ELSE t = s BY <2>4, <2>d, <1>4
  <2>l. Len(s) \in Nat /\ DOMAIN s = 1 .. Len(s) BY <2>5, LenProperties
  <2>6. \A i \in DOMAIN t : t[i].control = c => id < t[i].id
    <3>1. CASE t = s BY <3>1, <2>3, <2>4 DEF Finished
    <3>2. CASE t = Append(s, r)
      <4>1. /\ t[Len(s) + 1] = r /\ DOMAIN t = 1 .. Len(s) + 1 /\ \A i \in 1 .. Len(s) : t[i] = s[i]
        BY <2>5, <3>2, Appended
      <4>2. r.control = c => id < r.id BY <2>3, <1>3 DEF Finished
      <4>3. \A i \in DOMAIN t : i \in DOMAIN s \/ i = Len(s) + 1 BY <4>1, <2>l
      <4>4. QED BY <4>1, <4>2, <4>3, <2>l, <2>3, <2>4 DEF Finished
    <3>3. QED BY <3>1, <3>2, <2>5
  <2>7. c \in DOMAIN down' => id < presses'[c] BY <2>3, <1>2, <1>b DEF Finished
  <2>8. Finished(c, id)' BY <2>3, <2>4, <2>6, <2>7, <1>2 DEF Finished
  <2>9. QED BY <2>8, <2>3, <1>2
<1>8. HeldOK'
  <2>1. SUFFICES ASSUME NEW g \in given, g[3] = "hold" PROVE Old(g[1], g[2])' BY <1>2 DEF HeldOK
  <2>3. Old(g[1], g[2]) BY <2>1 DEF ButtonsInv, HeldOK
  <2>4. QED BY <2>3, <1>1, <1>2, <1>t, UpOld
<1>9. QED BY <1>5, <1>6, <1>7, <1>8 DEF DevicesInv
(* A step that leaves the records, their order and what was given alone. *)
LEMMA CalmDevices ==
  ASSUME ButtonsAssumption, ButtonsTyped, DevicesInv, SpentOK, HeldOK,
         \A d \in Devices : Stream(d)' = Stream(d) /\ (fds'[d] = fds[d] \/ fds[d] = "closed"),
         UNCHANGED <<down, presses, quick, given, begun, pressed, dropping, cut>>,
         clock' = clock \/ clock' = clock + 1
  PROVE  DevicesInv' /\ SpentOK' /\ HeldOK'
<1>1. ASSUME NEW c, NEW id, NEW since, NEW n, NEW s, Continues(s, c, id, since, n) PROVE Continues(s, c, id, since, n)'
  BY <1>1 DEF Continues
<1>2. ASSUME NEW c, NEW id, Old(c, id) PROVE Old(c, id)'
  <2>1. Long \in Nat /\ clock \in Nat /\ clock' \in Nat /\ clock' >= clock BY DEF ButtonsTyped, ButtonsAssumption
  <2>2. c \in DOMAIN down => down[c] \in Nat BY DEF ButtonsTyped
  <2>3. QED BY <2>1, <2>2, <1>2 DEF Old
<1>3. ASSUME NEW d \in Devices PROVE StreamOK(d, Stream(d))'
  <2>1. PICK s : s = Stream(d) OBVIOUS
  <2>2. StreamOK(d, s) BY <2>1 DEF DevicesInv
  <2>3. s # <<>> => fds'[d] = "open" BY <2>2 DEF StreamOK
  <2>4. ASSUME NEW i \in DOMAIN s, s[i].kind # "dropped" PROVE KeyRecordOK(d, s, i)'
    <3>1. KeyRecordOK(d, s, i) BY <2>4, <2>2 DEF StreamOK
    <3>2. Continues(s, s[i].control, s[i].id, s[i].at, i) => Continues(s, s[i].control, s[i].id, s[i].at, i)' BY <1>1
    <3>3. Unheard(s[i].control, s[i].id)' <=> Unheard(s[i].control, s[i].id) BY DEF Unheard
    <3>4. QED BY <3>1, <3>2, <3>3 DEF KeyRecordOK, Presses
  <2>5. StreamOK(d, s)' BY <2>2, <2>3, <2>4 DEF StreamOK
  <2>6. QED BY <2>1, <2>5
<1>4. ASSUME NEW c \in DOMAIN pressed' PROVE KnownOK(c, Stream(DeviceOf(c)))'
  <2>1. PICK d, s : d = DeviceOf(c) /\ s = Stream(d) OBVIOUS
  <2>2. d \in Devices BY <2>1, DevicesAre
  <2>3. KnownOK(c, s) /\ c \in DOMAIN pressed BY <2>1 DEF DevicesInv
  <2>4. fds'[d] = fds[d] BY <2>1, <2>2, <2>3 DEF KnownOK
  <2>5. Continues(s, c, pressed[c].id, pressed[c].since, 0) => Continues(s, c, pressed[c].id, pressed[c].since, 0)' BY <1>1
  <2>6. Old(c, pressed[c].id) => Old(c, pressed[c].id)' BY <1>2
  <2>7. KnownOK(c, s)' BY <2>1, <2>3, <2>4, <2>5, <2>6 DEF KnownOK
  <2>8. QED BY <2>1, <2>2, <2>7
<1>5. SpentOK'
  <2>1. SUFFICES ASSUME NEW g \in given, Spent(g[1], g[2])
        PROVE  Finished(g[1], g[2])' /\ <<g[1], g[2]>> \notin cut'
    BY DEF SpentOK, Spent, Gave
  <2>2. Finished(g[1], g[2]) /\ <<g[1], g[2]>> \notin cut BY <2>1 DEF SpentOK
  <2>3. Stream(DeviceOf(g[1]))' = Stream(DeviceOf(g[1])) BY DevicesAre
  <2>4. QED BY <2>2, <2>3 DEF Finished
<1>6. HeldOK' BY <1>2 DEF HeldOK
<1>7. QED BY <1>3, <1>4, <1>5, <1>6 DEF DevicesInv

LEMMA Halves ==
  ASSUME NEW S, NEW s \in Seq(S), NEW k \in 0 .. Len(s)
  PROVE  SubSeq(s, 1, k) \o SubSeq(s, k + 1, Len(s)) = s
<1>0. Len(s) \in Nat BY LenProperties
<1>1. PICK m : m = 1 OBVIOUS
<1>2. m \in 1 .. Len(s) + 1 /\ k \in m - 1 .. Len(s) /\ Len(s) \in k .. Len(s) BY <1>0, <1>1
<1>3. SubSeq(s, m, k) \o SubSeq(s, k + 1, Len(s)) = SubSeq(s, m, Len(s)) BY <1>2, ConcatAdjacentSubSeq
<1>4. SubSeq(s, 1, Len(s)) = s BY SubSeqFull
<1>5. QED BY <1>1, <1>3, <1>4

LEMMA ReadDevices ==
  ASSUME ButtonsAssumption, ButtonsInv, Read PROVE DevicesInv' /\ SpentOK' /\ HeldOK'
<1>1. raw = NoRecords /\ ButtonsTyped BY DEF ButtonsInv, ReadingOK, Read, Rests
<1>2. PICK taken : /\ taken \in [pmic : 0 .. Len(lines["pmic"]), nav : 0 .. Len(lines["nav"])]
                   /\ raw' = [d \in Devices |-> SubSeq(lines[d], 1, taken[d])]
                   /\ lines' = [d \in Devices |-> SubSeq(lines[d], taken[d] + 1, Len(lines[d]))]
  BY Zenon DEF Read
<1>a. taken["pmic"] \in 0 .. Len(lines["pmic"]) /\ taken["nav"] \in 0 .. Len(lines["nav"]) BY <1>2
<1>b. \A d \in Devices : /\ taken[d] \in 0 .. Len(lines[d])
                        /\ raw'[d] = SubSeq(lines[d], 1, taken[d])
                        /\ lines'[d] = SubSeq(lines[d], taken[d] + 1, Len(lines[d]))
  BY <1>2, <1>a DEF Devices
<1>3. ASSUME NEW d \in Devices PROVE Stream(d)' = Stream(d)
  <2>1. lines[d] \in Seq(KeyRecords) /\ Len(lines[d]) \in Nat BY <1>1, LenProperties DEF ButtonsTyped
  <2>2. taken[d] \in 0 .. Len(lines[d]) BY <1>b
  <2>3. SubSeq(lines[d], 1, taken[d]) \o SubSeq(lines[d], taken[d] + 1, Len(lines[d])) = lines[d]
    <3>1. PICK s \in Seq(KeyRecords) : s = lines[d] BY <2>1
    <3>2. PICK k \in 0 .. Len(s) : k = taken[d] BY <2>2, <3>1
    <3>3. SubSeq(s, 1, k) \o SubSeq(s, k + 1, Len(s)) = s BY Halves
    <3>4. QED BY <3>1, <3>2, <3>3
  <2>5. Stream(d) = lines[d] BY <1>1, StreamRests
  <2>6. raw'[d] = SubSeq(lines[d], 1, taken[d]) /\ lines'[d] = SubSeq(lines[d], taken[d] + 1, Len(lines[d])) BY <1>b
  <2>7. QED BY <2>3, <2>5, <2>6 DEF Stream
<1>4. \A d \in Devices : fds'[d] = fds[d] \/ fds[d] = "closed" BY DEF Read
<1>5. QED BY <1>1, <1>3, <1>4, CalmDevices DEF Read, ButtonsInv, ghosts

LEMMA QuietDevices ==
  ASSUME ButtonsAssumption, ButtonsInv, Time \/ Completes \/ Interface \/ Prepare \/ Restore PROVE DevicesInv' /\ SpentOK' /\ HeldOK'
<1>1. UNCHANGED <<raw, lines, fds, down, presses, quick, given, begun, pressed, dropping, cut>>
      /\ (clock' = clock \/ clock' = clock + 1)
  BY DEF Time, Completes, Interface, Prepare, Restore, deviceVars, loopVars, ghosts
<1>2. \A d \in Devices : Stream(d)' = Stream(d) /\ fds'[d] = fds[d] BY <1>1 DEF Stream
<1>3. QED BY <1>1, <1>2, CalmDevices DEF ButtonsInv
(* Presses that lose a record: none that is finished, and those of one device. *)
LEMMA FinishedLoses ==
  ASSUME ButtonsAssumption, ButtonsInv, raw = NoRecords, NEW d \in Devices, NEW c \in Controls, NEW id \in Nat, Finished(c, id)
  PROVE  <<c, id>> \notin Losing(d)
<1>t. ButtonsTyped BY DEF ButtonsInv
<1>1. SUFFICES ASSUME <<c, id>> \in Losing(d) PROVE FALSE OBVIOUS
<1>2. CASE <<c, id>> \in {<<x, presses[x]>> : x \in {x \in DOMAIN down \cup DOMAIN pressed : DeviceOf(x) = d}}
  <2>1. c \in DOMAIN down \cup DOMAIN pressed /\ id = presses[c] BY <1>2
  <2>2. presses[c] \in Nat BY <1>t DEF ButtonsTyped
  <2>3. ASSUME c \in DOMAIN pressed PROVE FALSE
    <3>1. pressed[c].id <= presses[c] BY <2>3 DEF ButtonsInv, DevicesInv, KnownOK
    <3>2. pressed[c].id \in Nat BY <2>3, <1>t DEF ButtonsTyped, KnownPress
    <3>3. QED BY <3>1, <3>2, <2>1, <2>2, <2>3 DEF Finished
  <2>4. QED BY <2>1, <2>2, <2>3 DEF Finished
<1>3. CASE \E i \in DOMAIN lines[d] : <<c, id>> = <<lines[d][i].control, lines[d][i].id>>
  <2>1. PICK i \in DOMAIN lines[d] : lines[d][i].control = c /\ lines[d][i].id = id BY <1>3
  <2>2. Stream(d) = lines[d] BY <1>t, StreamRests
  <2>3. lines[d][i].kind # "dropped"
    <3>1. StreamOK(d, lines[d]) BY <2>2 DEF ButtonsInv, DevicesInv
    <3>2. QED BY <3>1, <2>1 DEF StreamOK, LostFirst, ButtonsAssumption
  <2>4. DeviceOf(c) = d
    <3>1. StreamOK(d, lines[d]) BY <2>2 DEF ButtonsInv, DevicesInv
    <3>2. KeyRecordOK(d, lines[d], i) BY <3>1, <2>3, <2>1 DEF StreamOK
    <3>3. QED BY <3>2, <2>1 DEF KeyRecordOK
  <2>5. id < lines[d][i].id BY <2>1, <2>2, <2>4 DEF Finished
  <2>6. QED BY <2>5, <2>1
<1>4. QED BY <1>1, <1>2, <1>3 DEF Losing
LEMMA LosingOf ==
  ASSUME ButtonsAssumption, ButtonsInv, raw = NoRecords, NEW d \in Devices, NEW c \in Controls, NEW id, <<c, id>> \in Losing(d)
  PROVE  DeviceOf(c) = d
<1>t. ButtonsTyped BY DEF ButtonsInv
<1>2. CASE <<c, id>> \in {<<x, presses[x]>> : x \in {x \in DOMAIN down \cup DOMAIN pressed : DeviceOf(x) = d}}
  BY <1>2
<1>3. CASE \E i \in DOMAIN lines[d] : <<c, id>> = <<lines[d][i].control, lines[d][i].id>>
  <2>1. PICK i \in DOMAIN lines[d] : lines[d][i].control = c /\ lines[d][i].id = id BY <1>3
  <2>2. Stream(d) = lines[d] BY <1>t, StreamRests
  <2>3. StreamOK(d, lines[d]) BY <2>2 DEF ButtonsInv, DevicesInv
  <2>4. lines[d][i].kind # "dropped" BY <2>3, <2>1 DEF StreamOK, LostFirst, ButtonsAssumption
  <2>5. KeyRecordOK(d, lines[d], i) BY <2>3, <2>4, <2>1 DEF StreamOK
  <2>6. QED BY <2>5, <2>1 DEF KeyRecordOK
<1>4. QED BY <1>2, <1>3 DEF Losing

LEMMA LossDevices ==
  ASSUME ButtonsAssumption, ButtonsInv, raw = NoRecords, NEW d \in Devices, fds[d] = "open",
         NEW t, t = <<>> \/ \E x \in KeyRecords : x.kind = "dropped" /\ x.control = "all" /\ t = <<x>>,
         lines' = [lines EXCEPT ![d] = t],
         fds' = IF t = <<>> THEN [fds EXCEPT ![d] = "dead"] ELSE fds,
         cut' = cut \cup Losing(d),
         UNCHANGED <<clock, down, presses, raw, pressed, dropping, quick, given, begun>>
  PROVE  DevicesInv' /\ SpentOK' /\ HeldOK'
<1>t. ButtonsTyped /\ DOMAIN lines = Devices /\ DOMAIN fds = Devices BY DEF ButtonsInv, ButtonsTyped
<1>1. t \in Seq(KeyRecords) /\ \A i \in DOMAIN t : i = 1 /\ t[i].kind = "dropped" /\ t[i].control = "all"
  <2>1. CASE t = <<>> BY <2>1
  <2>2. CASE \E x \in KeyRecords : x.kind = "dropped" /\ x.control = "all" /\ t = <<x>>
    <3>1. PICK x \in KeyRecords : x.kind = "dropped" /\ x.control = "all" /\ t = <<x>> BY <2>2
    <3>2. t \in Seq(KeyRecords) /\ DOMAIN t = 1 .. 1 /\ t[1] = x BY <3>1
    <3>3. QED BY <3>1, <3>2
  <2>3. QED BY <2>1, <2>2
<1>2. ASSUME NEW e \in Devices PROVE Stream(e)' = IF e = d THEN t ELSE Stream(e)
  <2>1. raw[e] = <<>> /\ raw'[e] = <<>> BY DEF NoRecords
  <2>2. lines'[e] = IF e = d THEN t ELSE lines[e] BY <1>t
  <2>3. lines'[e] \in Seq(KeyRecords) /\ lines[e] \in Seq(KeyRecords) BY <2>2, <1>1, <1>t DEF ButtonsTyped
  <2>4. QED BY <2>1, <2>2, <2>3, ConcatEmptySeq DEF Stream
<1>3. ASSUME NEW c, NEW id, NEW since, NEW n, NEW s, Continues(s, c, id, since, n) PROVE Continues(s, c, id, since, n)'
  BY <1>3 DEF Continues
<1>4. ASSUME NEW c, NEW id, Old(c, id) PROVE Old(c, id)'
  BY <1>4 DEF Old
<1>5. ASSUME NEW e \in Devices PROVE StreamOK(e, Stream(e))'
  <2>1. CASE e = d
    <3>1. Stream(e)' = t BY <1>2, <2>1
    <3>2. t # <<>> => fds'[e] = "open" BY <2>1
    <3>3. StreamOK(e, t)' BY <3>2, <1>1 DEF StreamOK, LostFirst, InTurn
    <3>4. QED BY <3>1, <3>3
  <2>2. CASE e # d
    <3>1. PICK s : s = Stream(e) OBVIOUS
    <3>2. StreamOK(e, s) /\ s \in Seq(KeyRecords) BY <3>1, <1>t, StreamIs DEF ButtonsInv, DevicesInv
    <3>3. s # <<>> => fds'[e] = "open" BY <3>2, <2>2, <1>t DEF StreamOK
    <3>4. ASSUME NEW i \in DOMAIN s, s[i].kind # "dropped" PROVE KeyRecordOK(e, s, i)'
      <4>1. KeyRecordOK(e, s, i) BY <3>4, <3>2 DEF StreamOK
      <4>2. Continues(s, s[i].control, s[i].id, s[i].at, i) => Continues(s, s[i].control, s[i].id, s[i].at, i)' BY <1>3
      <4>3. Unheard(s[i].control, s[i].id)' <=> Unheard(s[i].control, s[i].id) BY DEF Unheard
      <4>4. <<s[i].control, s[i].id>> \notin Losing(d)
        BY <4>1, <2>2, LosingOf DEF KeyRecordOK, Presses
      <4>5. QED BY <4>1, <4>2, <4>3, <4>4 DEF KeyRecordOK, Presses
    <3>5. StreamOK(e, s)' BY <3>2, <3>3, <3>4 DEF StreamOK
    <3>6. Stream(e)' = s BY <1>2, <2>2, <3>1
    <3>7. QED BY <3>5, <3>6
  <2>3. QED BY <2>1, <2>2
<1>6. ASSUME NEW c \in DOMAIN pressed' PROVE KnownOK(c, Stream(DeviceOf(c)))'
  <2>1. PICK e, s : e = DeviceOf(c) /\ s = Stream(e) OBVIOUS
  <2>2. e \in Devices BY <2>1, DevicesAre
  <2>3. KnownOK(c, s) /\ c \in DOMAIN pressed /\ c \in Controls BY <2>1, <1>t DEF ButtonsInv, DevicesInv, ButtonsTyped
  <2>4. Old(c, pressed[c].id) => Old(c, pressed[c].id)' BY <1>4
  <2>5. CASE e = d
    <3>1. \A i \in DOMAIN t : t[i].control # c BY <1>1, <2>3 DEF ButtonsAssumption
    <3>2. fds'[e] = "dead" \/ Lost(t)
      <4>1. CASE t = <<>> BY <4>1, <2>5, <1>t
      <4>2. CASE \E x \in KeyRecords : x.kind = "dropped" /\ x.control = "all" /\ t = <<x>> BY <4>2 DEF Lost
      <4>3. QED BY <4>1, <4>2
    <3>3. fds'[e] # "closed" BY <2>5, <1>t
    <3>4. fds'[e] = "open" => Lost(t) BY <3>2
    <3>5. KnownOK(c, t)' BY <2>1, <2>3, <2>4, <3>1, <3>2, <3>3, <3>4 DEF KnownOK
    <3>6. Stream(e)' = t BY <1>2, <2>5, <2>2
    <3>7. QED BY <3>5, <3>6, <2>1
  <2>6. CASE e # d
    <3>1. fds'[e] = fds[e] BY <2>6, <1>t
    <3>2. Continues(s, c, pressed[c].id, pressed[c].since, 0) => Continues(s, c, pressed[c].id, pressed[c].since, 0)' BY <1>3
    <3>3. <<c, pressed[c].id>> \notin Losing(d) BY <2>1, <2>3, <2>6, LosingOf
    <3>4. KnownOK(c, s)' BY <2>1, <2>3, <2>4, <3>1, <3>2, <3>3 DEF KnownOK
    <3>5. Stream(e)' = s BY <1>2, <2>6, <2>1, <2>2
    <3>6. QED BY <3>4, <3>5, <2>1
  <2>7. QED BY <2>5, <2>6
<1>7. SpentOK'
  <2>1. SUFFICES ASSUME NEW g \in given, Spent(g[1], g[2])
        PROVE  Finished(g[1], g[2])' /\ <<g[1], g[2]>> \notin cut'
    BY DEF SpentOK, Spent, Gave
  <2>2. Finished(g[1], g[2]) /\ <<g[1], g[2]>> \notin cut BY <2>1 DEF ButtonsInv, SpentOK
  <2>3. g[1] \in Controls /\ g[2] \in Nat BY <1>t DEF ButtonsTyped, Presses
  <2>4. <<g[1], g[2]>> \notin Losing(d) BY <2>2, <2>3, FinishedLoses
  <2>5. PICK e, s, u : e = DeviceOf(g[1]) /\ s = Stream(e) /\ u = Stream(e)' OBVIOUS
  <2>6. u = IF e = d THEN t ELSE s BY <2>5, DevicesAre, <1>2
  <2>7. \A i \in DOMAIN u : u[i].control = g[1] => g[2] < u[i].id
    BY <2>2, <2>3, <2>5, <2>6, <1>1 DEF Finished, ButtonsAssumption
  <2>8. QED BY <2>2, <2>4, <2>5, <2>7 DEF Finished
<1>8. HeldOK' BY <1>4 DEF ButtonsInv, HeldOK
<1>9. QED BY <1>5, <1>6, <1>7, <1>8 DEF DevicesInv

LEMMA LostDevices ==
  ASSUME ButtonsAssumption, ButtonsInv, Overflow \/ Rebind PROVE DevicesInv' /\ SpentOK' /\ HeldOK'
<1>t. ButtonsTyped /\ raw = NoRecords /\ clock \in Nat BY DEF ButtonsInv, ButtonsTyped, ReadingOK, Overflow, Rebind, Rests
<1>1. CASE Overflow
  <2>1. PICK d \in Devices :
          /\ fds[d] = "open" /\ cut' = cut \cup Losing(d)
          /\ lines' = [lines EXCEPT ![d] = <<[control |-> "all", kind |-> "dropped", at |-> clock, id |-> 0]>>]
    BY <1>1, Zenon DEF Overflow
  <2>2. PICK x \in KeyRecords : x = [control |-> "all", kind |-> "dropped", at |-> clock, id |-> 0]
    BY <1>t DEF KeyRecords
  <2>3. PICK t : t = <<x>> OBVIOUS
  <2>4. t # <<>> BY <2>3
  <2>5. x.kind = "dropped" /\ x.control = "all" BY <2>2
  <2>6. lines' = [lines EXCEPT ![d] = t] BY <2>1, <2>2, <2>3
  <2>7. UNCHANGED <<clock, fds, down, presses, raw, pressed, dropping, quick, given, begun>>
    BY <1>1 DEF Overflow, loopVars
  <2>8. QED BY <1>t, <2>1, <2>3, <2>4, <2>5, <2>6, <2>7, LossDevices
<1>2. CASE Rebind
  <2>1. PICK d \in Devices :
          /\ fds[d] = "open" /\ fds' = [fds EXCEPT ![d] = "dead"] /\ lines' = [lines EXCEPT ![d] = <<>>]
          /\ cut' = cut \cup Losing(d)
    BY <1>2, Zenon DEF Rebind
  <2>2. UNCHANGED <<clock, down, presses, raw, pressed, dropping, quick, given, begun>>
    BY <1>2 DEF Rebind, loopVars
  <2>3. PICK t : t = <<>> OBVIOUS
  <2>4. QED BY <1>t, <2>1, <2>2, <2>3, LossDevices
<1>3. QED BY <1>1, <1>2
-----------------------------------------------------------------------------
(* What poll_at takes in: record r of device d, one of four kinds of step. *)
Takes(d, r) ==
  /\ Stream(d) # <<>> /\ Stream(d)[1] = r /\ Stream(d)' = Tail(Stream(d)) /\ fds[d] = "open"
  /\ \A e \in Devices \ {d} : Stream(e)' = Stream(e)
  /\ r.kind # "dropped" => DeviceOf(r.control) = d /\ <<r.control, r.id>> \in Presses
  /\ events = <<>> /\ raw'[d] = Tail(raw[d]) /\ Tail(raw[d]) \in Seq(KeyRecords)
  /\ \A e \in Devices \ {d} : raw'[e] = raw[e]
  /\ DOMAIN raw' = Devices
Drops(d, r) ==
  /\ r.kind = "dropped" /\ events' = Events("Cancel", Stale(d)) /\ pressed' = Without(Stale(d))
  /\ dropping' = dropping \cup {d} /\ UNCHANGED cut
Overlooks(d, r) ==
  /\ r.kind # "dropped" /\ d \in dropping /\ dropping' = dropping \ {d}
  /\ cut' = cut \cup {<<r.control, r.id>>} /\ UNCHANGED <<events, pressed>>
Begins(d, r) ==
  /\ r.kind = "down" /\ d \notin dropping /\ r.control \notin DOMAIN pressed /\ UNCHANGED <<dropping, cut>>
  /\ pressed' = With(pressed, r.control, Begun(r.at, r.id, FALSE))
  /\ events' = <<Event("Press", r.control, r.id)>>
  /\ Continues(Stream(d), r.control, r.id, r.at, 1) /\ Unheard(r.control, r.id) /\ <<r.control, r.id>> \notin cut
EndsAs(r, aged, kind) ==
  LET c == r.control  was == c \in DOMAIN pressed IN
  /\ events' = (IF aged THEN <<Event("LongPress", c, r.id)>> ELSE <<>>) \o <<Event(kind, c, r.id)>>
  /\ aged => was /\ ~pressed[c].long /\ r.at - pressed[c].since >= Long /\ kind = "Release"
  /\ kind = "Release" => was /\ (pressed[c].resumed => pressed[c].long \/ aged)
Ends(d, r) ==
  LET c == r.control IN
  /\ r.kind = "up" /\ d \notin dropping /\ UNCHANGED <<dropping, cut>> /\ pressed' = Without({c})
  /\ c \in DOMAIN down => r.id < presses[c]
  /\ c \in DOMAIN pressed =>
       /\ pressed[c].id = r.id
       /\ <<c, r.id>> \in quick => r.at - pressed[c].since < Long
       /\ <<c, r.id>> \in cut => pressed[c].resumed
  /\ \E aged \in BOOLEAN, kind \in {"Release", "Cancel"} : EndsAs(r, aged, kind)

LEMMA IngestTakes ==
  ASSUME ButtonsAssumption, ButtonsInv, Ingest
  PROVE  \E d \in Devices, r \in KeyRecords :
           /\ Takes(d, r) /\ r.at \in Nat
           /\ Drops(d, r) \/ Overlooks(d, r) \/ Begins(d, r) \/ Ends(d, r)
<1>t. ButtonsTyped BY DEF ButtonsInv
<1>1. PICK d \in Devices :
        /\ First(d) /\ raw' = [raw EXCEPT ![d] = Tail(@)]
        /\ LET r == raw[d][1] IN
           \/ /\ r.kind = "dropped" /\ events' = Events("Cancel", Stale(d)) /\ pressed' = Without(Stale(d))
              /\ dropping' = dropping \cup {d} /\ UNCHANGED cut
           \/ /\ r.kind # "dropped" /\ d \in dropping /\ dropping' = dropping \ {d}
              /\ cut' = cut \cup {<<r.control, r.id>>} /\ UNCHANGED <<events, pressed>>
           \/ /\ r.kind # "dropped" /\ d \notin dropping /\ pressed' = Taken(r).known
              /\ events' = Taken(r).gives /\ UNCHANGED <<dropping, cut>>
  BY Zenon DEF Ingest
<1>2. raw[d] # <<>> BY <1>1 DEF First
<1>3. PICK r, s : r = raw[d][1] /\ s = Stream(d) OBVIOUS
<1>4. /\ s \in Seq(KeyRecords) /\ s # <<>> /\ s[1] = r /\ Tail(raw[d]) \in Seq(KeyRecords)
      /\ Tail(raw[d]) \o lines[d] = Tail(s)
  BY <1>2, <1>3, <1>t, StreamIs, StreamReads
<1>5. r \in KeyRecords /\ r.at \in Nat
  <2>1. r \in KeyRecords BY <1>4, Shortened
  <2>2. QED BY <2>1 DEF KeyRecords
<1>6. UNCHANGED lines BY DEF Ingest, deviceVars
<1>7. DOMAIN raw = Devices BY <1>t DEF ButtonsTyped
<1>8. raw'[d] = Tail(raw[d]) /\ DOMAIN raw' = Devices /\ \A e \in Devices \ {d} : raw'[e] = raw[e] BY <1>1, <1>7
<1>9. Stream(d)' = Tail(s) /\ \A e \in Devices \ {d} : Stream(e)' = Stream(e) BY <1>4, <1>6, <1>8 DEF Stream
<1>10. StreamOK(d, s) BY <1>3 DEF ButtonsInv, DevicesInv
<1>11. fds[d] = "open" BY <1>10, <1>4 DEF StreamOK
<1>12. 1 \in DOMAIN s BY <1>4, Shortened
<1>13. r.kind # "dropped" => KeyRecordOK(d, s, 1) BY <1>10, <1>12, <1>4 DEF StreamOK
<1>14. Takes(d, r)
  <2>1. r.kind # "dropped" => DeviceOf(r.control) = d /\ <<r.control, r.id>> \in Presses BY <1>13, <1>4 DEF KeyRecordOK
  <2>2. QED BY <2>1, <1>3, <1>4, <1>8, <1>9, <1>11 DEF Takes, Ingest
<1>15. CASE r.kind = "dropped"
  <2>1. Drops(d, r) BY <1>1, <1>3, <1>15 DEF Drops
  <2>2. QED BY <2>1, <1>14, <1>5
<1>16. CASE r.kind # "dropped" /\ d \in dropping
  <2>1. Overlooks(d, r) BY <1>1, <1>3, <1>16 DEF Overlooks
  <2>2. QED BY <2>1, <1>14, <1>5
<1>17. CASE r.kind # "dropped" /\ d \notin dropping
  <2>1. pressed' = Taken(r).known /\ events' = Taken(r).gives /\ UNCHANGED <<dropping, cut>> BY <1>1, <1>3, <1>17
  <2>2. KeyRecordOK(d, s, 1) BY <1>13, <1>17
  <2>3. PICK c : c = r.control OBVIOUS
  <2>4. c \in Controls /\ DeviceOf(c) = d /\ r.id \in Nat \ {0} BY <2>2, <2>3, <1>4 DEF KeyRecordOK, Presses
  <2>5. ASSUME c \in DOMAIN pressed
        PROVE  /\ r.kind = "up" /\ pressed[c].id = r.id
               /\ <<c, r.id>> \in quick => r.at - pressed[c].since < Long
               /\ <<c, r.id>> \in cut => pressed[c].resumed
    <3>1. KnownOK(c, s) BY <2>4, <2>5, <1>3 DEF ButtonsInv, DevicesInv
    <3>2. ~Lost(s) BY <1>17, <1>4 DEF Lost
    <3>3. Continues(s, c, pressed[c].id, pressed[c].since, 0) BY <3>1, <3>2, <1>11, <2>4 DEF KnownOK
    <3>4. Len(s) \in Nat \ {0} BY <1>4, Shortened
    <3>5. ~\A j \in 0 + 1 .. Len(s) : s[j].control # c BY <3>4, <1>4, <2>3
    <3>6. PICK i \in 0 + 1 .. Len(s) :
             /\ s[i].control = c /\ s[i].kind = "up" /\ s[i].id = pressed[c].id
             /\ <<c, pressed[c].id>> \in quick => s[i].at - pressed[c].since < Long
             /\ \A j \in 0 + 1 .. i - 1 : s[j].control # c
      BY <3>3, <3>5 DEF Continues
    <3>7. i = 1
      <4>1. SUFFICES ASSUME i # 1 PROVE FALSE OBVIOUS
      <4>2. 1 \in 0 + 1 .. i - 1 BY <4>1, <3>4
      <4>3. QED BY <4>2, <3>6, <1>4, <2>3
    <3>8. QED BY <3>6, <3>7, <3>1, <3>2, <1>4, <1>11, <2>4 DEF KnownOK
  <2>6. r.kind \in {"down", "up"} BY <1>5, <1>17 DEF KeyRecords
  <2>7. CASE r.kind = "down"
    <3>1. c \notin DOMAIN pressed BY <2>5, <2>7
    <3>2. /\ pressed' = With(pressed, c, Begun(r.at, r.id, FALSE))
          /\ events' = <<Event("Press", c, r.id)>>
      BY <2>1, <2>3, <2>7, <3>1 DEF Taken
    <3>3. Continues(s, c, r.id, r.at, 1) /\ Unheard(c, r.id) /\ <<c, r.id>> \notin cut
      BY <2>2, <2>3, <2>7, <1>4 DEF KeyRecordOK
    <3>4. Begins(d, r) BY <3>1, <3>2, <3>3, <2>1, <2>3, <2>7, <1>3, <1>17 DEF Begins
    <3>5. QED BY <3>4, <1>14, <1>5
  <2>8. CASE r.kind = "up"
    <3> DEFINE was == c \in DOMAIN pressed
               aged == was /\ ~pressed[c].long /\ r.at - pressed[c].since >= Long
               wake == was /\ pressed[c].resumed /\ ~pressed[c].long /\ ~aged
    <3>1. /\ pressed' = Without({c})
          /\ events' = (IF aged THEN <<Event("LongPress", c, r.id)>> ELSE <<>>) \o <<Event(Ended(c, wake), c, r.id)>>
      BY <2>1, <2>3, <2>8 DEF Taken
    <3>2. PICK kind \in {"Release", "Cancel"} : kind = Ended(c, wake) /\ (kind = "Release" <=> was /\ ~wake) BY DEF Ended
    <3>3. PICK old \in BOOLEAN : old <=> aged OBVIOUS
    <3>4. EndsAs(r, old, kind)
      <4>1. events' = (IF old THEN <<Event("LongPress", c, r.id)>> ELSE <<>>) \o <<Event(kind, c, r.id)>>
        BY <3>1, <3>2, <3>3
      <4>2. old => was /\ ~pressed[c].long /\ r.at - pressed[c].since >= Long /\ kind = "Release" BY <3>2, <3>3
      <4>3. kind = "Release" => was /\ (pressed[c].resumed => pressed[c].long \/ old) BY <3>2, <3>3
      <4>4. QED BY <4>1, <4>2, <4>3, <2>3 DEF EndsAs
    <3>5. c \in DOMAIN down => r.id < presses[c] BY <2>2, <2>3, <2>8, <1>4 DEF KeyRecordOK
    <3>6. Ends(d, r) BY <3>1, <3>4, <3>5, <2>1, <2>3, <2>5, <2>8, <1>17 DEF Ends
    <3>7. QED BY <3>6, <1>14, <1>5
  <2>9. QED BY <2>6, <2>7, <2>8
<1>18. QED BY <1>15, <1>16, <1>17
(* A device whose first record is taken in, and the others. *)
LEMMA StreamTaken ==
  ASSUME NEW d, NEW s \in Seq(KeyRecords), s # <<>>, StreamOK(d, s),
         UNCHANGED <<fds, down, presses, quick, given, begun>>,
         cut' = cut \/ cut' = cut \cup {<<s[1].control, s[1].id>>},
         NEW t, t = Tail(s)
  PROVE  StreamOK(d, t)'
<1>1. /\ Len(s) \in Nat \ {0} /\ Len(t) = Len(s) - 1 /\ \A i \in 1 .. Len(s) - 1 : t[i] = s[i + 1]
      /\ DOMAIN s = 1 .. Len(s) /\ DOMAIN t = 1 .. Len(s) - 1
  BY Shortened
<1>2. \A i \in DOMAIN t : i + 1 \in DOMAIN s /\ t[i] = s[i + 1] /\ i + 1 # 1 /\ i \in 0 .. Len(s) - 1 BY <1>1
<1>3. ASSUME NEW i \in DOMAIN t PROVE t[i].kind # "dropped" /\ KeyRecordOK(d, t, i)'
  <2>1. s[i + 1].kind # "dropped" BY <1>2 DEF StreamOK, LostFirst
  <2>2. KeyRecordOK(d, s, i + 1) BY <2>1, <1>2 DEF StreamOK
  <2>3. ASSUME t[i].kind = "down"
        PROVE  /\ Continues(t, t[i].control, t[i].id, t[i].at, i)' /\ Unheard(t[i].control, t[i].id)'
               /\ <<t[i].control, t[i].id>> \notin cut'
    <3>1. Continues(s, t[i].control, t[i].id, t[i].at, i + 1) BY <2>2, <2>3, <1>2 DEF KeyRecordOK
    <3>2. i \in 0 .. Len(s) - 1 BY <1>2
    <3>3. Continues(t, t[i].control, t[i].id, t[i].at, i)' BY <3>1, <3>2, TailGoes
    <3>4. Unheard(t[i].control, t[i].id)' BY <2>2, <2>3, <1>2 DEF KeyRecordOK, Unheard
    <3>5. <<t[i].control, t[i].id>> # <<s[1].control, s[1].id>>
      <4>1. SUFFICES ASSUME t[i].control = s[1].control, t[i].id = s[1].id PROVE FALSE OBVIOUS
      <4>2. 1 \in DOMAIN s /\ i + 1 \in DOMAIN s /\ 1 < i + 1 BY <1>1, <1>2
      <4>3. s[1].id < s[i + 1].id \/ (s[1].id = s[i + 1].id /\ s[i + 1].kind = "up")
        BY <4>1, <4>2, <1>2 DEF StreamOK, InTurn
      <4>4. s[i + 1].id \in Nat BY <2>2 DEF KeyRecordOK, Presses
      <4>5. QED BY <4>1, <4>3, <4>4, <2>3, <1>2
    <3>6. <<t[i].control, t[i].id>> \notin cut BY <2>2, <2>3, <1>2 DEF KeyRecordOK
    <3>7. QED BY <3>3, <3>4, <3>5, <3>6
  <2>4. QED BY <2>1, <2>2, <2>3, <1>2 DEF KeyRecordOK, Presses
<1>4. InTurn(t)
  <2>1. SUFFICES ASSUME NEW i \in DOMAIN t, NEW j \in DOMAIN t, i < j, t[i].control = t[j].control
        PROVE  t[i].id < t[j].id \/ (t[i].id = t[j].id /\ t[i].kind = "down" /\ t[j].kind = "up")
    BY DEF InTurn
  <2>2. i + 1 \in DOMAIN s /\ j + 1 \in DOMAIN s /\ i + 1 < j + 1 BY <2>1, <1>1
  <2>3. QED BY <2>1, <2>2, <1>2 DEF StreamOK, InTurn
<1>5. t # <<>> => fds[d] = "open" BY DEF StreamOK
<1>6. QED BY <1>3, <1>4, <1>5 DEF StreamOK, LostFirst

LEMMA StreamLeft ==
  ASSUME NEW d, NEW s, StreamOK(d, s), UNCHANGED <<fds, down, presses, quick, given, begun>>,
         \A i \in DOMAIN s : s[i].kind # "dropped" => (<<s[i].control, s[i].id>> \in cut' => <<s[i].control, s[i].id>> \in cut)
  PROVE  StreamOK(d, s)'
<1>1. ASSUME NEW i \in DOMAIN s, s[i].kind # "dropped" PROVE KeyRecordOK(d, s, i)'
  <2>1. KeyRecordOK(d, s, i) BY <1>1 DEF StreamOK
  <2>2. Continues(s, s[i].control, s[i].id, s[i].at, i)' <=> Continues(s, s[i].control, s[i].id, s[i].at, i) BY DEF Continues
  <2>3. Unheard(s[i].control, s[i].id)' <=> Unheard(s[i].control, s[i].id) BY DEF Unheard
  <2>4. QED BY <2>1, <2>2, <2>3, <1>1 DEF KeyRecordOK, Presses
<1>2. QED BY <1>1 DEF StreamOK

(* What stays known of a press when none of its records is taken in. *)
LEMMA KnownLeft ==
  ASSUME NEW c, NEW s, KnownOK(c, s), pressed'[c] = pressed[c],
         UNCHANGED <<clock, fds, down, presses, quick>>,
         DeviceOf(c) \notin dropping', <<c, pressed[c].id>> \in cut' => <<c, pressed[c].id>> \in cut
  PROVE  KnownOK(c, s)'
<1>1. Continues(s, c, pressed[c].id, pressed[c].since, 0)' <=> Continues(s, c, pressed[c].id, pressed[c].since, 0) BY DEF Continues
<1>2. Old(c, pressed[c].id)' <=> Old(c, pressed[c].id) BY DEF Old
<1>3. QED BY <1>1, <1>2 DEF KnownOK
LEMMA KnownTaken ==
  ASSUME NEW c, NEW s \in Seq(KeyRecords), s # <<>>, KnownOK(c, s), pressed'[c] = pressed[c],
         UNCHANGED <<clock, fds, down, presses, quick>>, fds[DeviceOf(c)] = "open",
         DeviceOf(c) \notin dropping', cut' = cut, s[1].kind # "dropped", s[1].control # c, LostFirst(s),
         NEW t, t = Tail(s)
  PROVE  KnownOK(c, t)'
<1>1. /\ Len(s) \in Nat \ {0} /\ Len(t) = Len(s) - 1 /\ \A i \in 1 .. Len(s) - 1 : t[i] = s[i + 1]
      /\ DOMAIN s = 1 .. Len(s) /\ DOMAIN t = 1 .. Len(s) - 1
  BY Shortened
<1>2. \A i \in DOMAIN t : i + 1 \in DOMAIN s /\ t[i] = s[i + 1] BY <1>1
<1> DEFINE p == pressed[c]
<1>3. Continues(s, c, p.id, p.since, 0) /\ ~Lost(s) BY DEF KnownOK, Lost
<1>4. Continues(s, c, p.id, p.since, 0 + 1)
  <2>1. CASE c \in DOMAIN down /\ presses[c] = p.id /\ down[c] <= p.since /\ \A j \in 0 + 1 .. Len(s) : s[j].control # c
    <3>1. \A j \in (0 + 1) + 1 .. Len(s) : s[j].control # c BY <2>1, <1>1
    <3>2. QED BY <2>1, <3>1 DEF Continues
  <2>2. CASE \E i \in 0 + 1 .. Len(s) :
             /\ s[i].control = c /\ s[i].kind = "up" /\ s[i].id = p.id
             /\ <<c, p.id>> \in quick => s[i].at - p.since < Long
             /\ \A j \in 0 + 1 .. i - 1 : s[j].control # c
    <3>1. PICK i \in 0 + 1 .. Len(s) :
             /\ s[i].control = c /\ s[i].kind = "up" /\ s[i].id = p.id
             /\ <<c, p.id>> \in quick => s[i].at - p.since < Long
             /\ \A j \in 0 + 1 .. i - 1 : s[j].control # c BY <2>2
    <3>2. i # 1 BY <3>1
    <3>3. i \in (0 + 1) + 1 .. Len(s) /\ \A j \in (0 + 1) + 1 .. i - 1 : s[j].control # c BY <3>1, <3>2, <1>1
    <3>4. QED BY <3>1, <3>3 DEF Continues
  <2>3. QED BY <1>3, <2>1, <2>2 DEF Continues
<1>5. 0 \in 0 .. Len(s) - 1 BY <1>1
<1>6. Continues(t, c, p.id, p.since, 0)' BY <1>4, <1>5, TailGoes
<1>7. Old(c, p.id)' <=> Old(c, p.id) BY DEF Old
<1>8. <<c, p.id>> \in cut' => p.resumed BY <1>3 DEF KnownOK
<1>9. \A i \in DOMAIN t : t[i].control = c => p.id < t[i].id \/ (p.id = t[i].id /\ t[i].kind = "up")
  BY <1>2 DEF KnownOK
<1>10. QED BY <1>6, <1>7, <1>8, <1>9 DEF KnownOK
LEMMA IngestDevices ==
  ASSUME ButtonsAssumption, ButtonsInv, Ingest PROVE DevicesInv' /\ SpentOK' /\ HeldOK'
<1>t. ButtonsTyped BY DEF ButtonsInv
<1>1. PICK d \in Devices, r \in KeyRecords :
           /\ Takes(d, r) /\ r.at \in Nat
           /\ Drops(d, r) \/ Overlooks(d, r) \/ Begins(d, r) \/ Ends(d, r)
  BY IngestTakes
<1>2. UNCHANGED <<clock, down, presses, lines, fds, quick, given, begun>> BY DEF Ingest, deviceVars
<1>3. PICK s, t : s = Stream(d) /\ t = Stream(d)' OBVIOUS
<1>4. /\ s \in Seq(KeyRecords) /\ s # <<>> /\ s[1] = r /\ t = Tail(s) /\ fds[d] = "open"
      /\ r.kind # "dropped" => DeviceOf(r.control) = d /\ <<r.control, r.id>> \in Presses
      /\ \A e \in Devices \ {d} : Stream(e)' = Stream(e)
  BY <1>1, <1>3, <1>t, StreamIs DEF Takes
<1>5. /\ Len(s) \in Nat \ {0} /\ \A i \in 1 .. Len(s) - 1 : t[i] = s[i + 1]
      /\ DOMAIN s = 1 .. Len(s) /\ DOMAIN t = 1 .. Len(s) - 1
  BY <1>4, Shortened
<1>6. \A e \in Devices : StreamOK(e, Stream(e)) BY DEF ButtonsInv, DevicesInv
<1>7. cut' = cut \/ (r.kind # "dropped" /\ d \in dropping /\ cut' = cut \cup {<<r.control, r.id>>})
  BY <1>1 DEF Drops, Overlooks, Begins, Ends
<1>8. ASSUME NEW e \in Devices PROVE StreamOK(e, Stream(e))'
  <2>1. CASE e = d
    <3>1. StreamOK(d, s) BY <1>3, <1>6
    <3>2. cut' = cut \/ cut' = cut \cup {<<s[1].control, s[1].id>>} BY <1>4, <1>7
    <3>3. StreamOK(d, t)' BY <3>1, <3>2, <1>2, <1>4, StreamTaken
    <3>4. QED BY <3>3, <2>1, <1>3
  <2>2. CASE e # d
    <3>1. PICK u : u = Stream(e) OBVIOUS
    <3>2. StreamOK(e, u) BY <3>1, <1>6
    <3>3. ASSUME NEW i \in DOMAIN u, u[i].kind # "dropped", <<u[i].control, u[i].id>> \in cut'
          PROVE  <<u[i].control, u[i].id>> \in cut
      <4>1. DeviceOf(u[i].control) = e BY <3>2, <3>3 DEF StreamOK, KeyRecordOK
      <4>2. QED BY <4>1, <3>3, <2>2, <1>4, <1>7
    <3>4. StreamOK(e, u)' BY <3>2, <3>3, <1>2, StreamLeft
    <3>5. Stream(e)' = u BY <3>1, <2>2, <1>4
    <3>6. QED BY <3>4, <3>5
  <2>3. QED BY <2>1, <2>2
<1>9. ASSUME NEW c \in DOMAIN pressed, DeviceOf(c) # d, pressed'[c] = pressed[c]
      PROVE  KnownOK(c, Stream(DeviceOf(c)))'
  <2>1. PICK e, u : e = DeviceOf(c) /\ u = Stream(e) OBVIOUS
  <2>2. KnownOK(c, u) BY <2>1 DEF ButtonsInv, DevicesInv
  <2>3. e \notin dropping' BY <2>1, <2>2, <1>1, <1>9 DEF KnownOK, Drops, Overlooks, Begins, Ends
  <2>4. <<c, pressed[c].id>> \in cut' => <<c, pressed[c].id>> \in cut BY <1>4, <1>7, <1>9
  <2>5. KnownOK(c, u)' BY <2>1, <2>2, <2>3, <2>4, <1>2, <1>9, KnownLeft
  <2>6. Stream(e)' = u BY <2>1, <1>4, <1>9, DevicesAre
  <2>7. QED BY <2>1, <2>5, <2>6
<1>10. ASSUME NEW c \in DOMAIN pressed, DeviceOf(c) = d, c # r.control, pressed'[c] = pressed[c],
              r.kind # "dropped", d \notin dropping', cut' = cut
       PROVE  KnownOK(c, Stream(DeviceOf(c)))'
  <2>1. KnownOK(c, s) BY <1>3, <1>10 DEF ButtonsInv, DevicesInv
  <2>2. LostFirst(s) BY <1>3, <1>6 DEF StreamOK
  <2>3. KnownOK(c, t)' BY <2>1, <2>2, <1>2, <1>4, <1>10, KnownTaken
  <2>4. QED BY <2>3, <1>3, <1>10
<1>11. ASSUME NEW c \in DOMAIN pressed' PROVE KnownOK(c, Stream(DeviceOf(c)))'
  <2>1. CASE Drops(d, r)
    <3>1. c \in DOMAIN pressed /\ pressed'[c] = pressed[c] /\ DeviceOf(c) # d
      BY <2>1, <1>11 DEF Drops, Without, Stale, Restrict
    <3>2. QED BY <3>1, <1>9
  <2>2. CASE Overlooks(d, r)
    <3>1. c \in DOMAIN pressed /\ pressed'[c] = pressed[c] /\ d \in dropping BY <2>2, <1>11 DEF Overlooks
    <3>2. DeviceOf(c) \notin dropping BY <3>1 DEF ButtonsInv, DevicesInv, KnownOK
    <3>3. QED BY <3>1, <3>2, <1>9
  <2>3. CASE Begins(d, r) /\ c = r.control
    <3>1. pressed'[c] = Begun(r.at, r.id, FALSE) BY <2>3 DEF Begins, With
    <3>2. /\ Continues(s, c, r.id, r.at, 1) /\ Unheard(c, r.id) /\ <<c, r.id>> \notin cut' /\ d \notin dropping'
          /\ r.kind = "down"
      BY <2>3, <1>3 DEF Begins
    <3>3. Continues(t, c, r.id, r.at, 0)'
      <4>1. 0 \in 0 .. Len(s) - 1 /\ 0 + 1 = 1 BY <1>5
      <4>2. QED BY <4>1, <3>2, <1>2, <1>4, TailGoes
    <3>4. \A i \in DOMAIN t : t[i].control = c => r.id < t[i].id \/ (r.id = t[i].id /\ t[i].kind = "up")
      <4>1. SUFFICES ASSUME NEW i \in DOMAIN t, t[i].control = c
            PROVE  r.id < t[i].id \/ (r.id = t[i].id /\ t[i].kind = "up") OBVIOUS
      <4>2. 1 \in DOMAIN s /\ i + 1 \in DOMAIN s /\ 1 < i + 1 /\ t[i] = s[i + 1] BY <1>5
      <4>3. InTurn(s) BY <1>3, <1>6 DEF StreamOK
      <4>4. QED BY <4>1, <4>2, <4>3, <2>3, <1>4 DEF InTurn
    <3>5. r.id <= presses[c] BY <2>3, <3>2, <1>4 DEF Presses
    <3>6. KnownOK(c, t)'
      BY <3>1, <3>2, <3>3, <3>4, <3>5, <2>3, <1>2, <1>4 DEF KnownOK, Begun
    <3>7. DeviceOf(c) = d BY <2>3, <3>2, <1>4
    <3>8. QED BY <3>6, <3>7, <1>3
  <2>4. CASE Begins(d, r) /\ c # r.control
    <3>1. c \in DOMAIN pressed /\ pressed'[c] = pressed[c] /\ d \notin dropping' /\ cut' = cut /\ r.kind # "dropped"
      BY <2>4, <1>11 DEF Begins, With
    <3>2. QED BY <3>1, <2>4, <1>9, <1>10
  <2>5. CASE Ends(d, r)
    <3>1. /\ c \in DOMAIN pressed /\ pressed'[c] = pressed[c] /\ d \notin dropping' /\ cut' = cut /\ r.kind # "dropped"
          /\ c # r.control
      BY <2>5, <1>11 DEF Ends, Without, Restrict
    <3>2. QED BY <3>1, <1>9, <1>10
  <2>6. QED BY <2>1, <2>2, <2>3, <2>4, <2>5, <1>1
<1>12. SpentOK'
  <2>1. SUFFICES ASSUME NEW g \in given, Spent(g[1], g[2])
        PROVE  Finished(g[1], g[2])' /\ <<g[1], g[2]>> \notin cut'
    BY <1>2 DEF SpentOK, Spent, Gave
  <2> DEFINE c == g[1]
             id == g[2]
  <2>2. Finished(c, id) /\ <<c, id>> \notin cut BY <2>1 DEF ButtonsInv, SpentOK
  <2>3. c \in Controls /\ id \in Nat BY <1>t DEF ButtonsTyped, Presses
  <2>4. PICK e, u, v : e = DeviceOf(c) /\ u = Stream(e) /\ v = Stream(e)' OBVIOUS
  <2>5. \A i \in DOMAIN u : u[i].control = c => id < u[i].id BY <2>2, <2>4 DEF Finished
  <2>6. \A i \in DOMAIN v : v[i].control = c => id < v[i].id
    <3>1. CASE e = d
      <4>1. u = s /\ v = t BY <3>1, <2>4, <1>3
      <4>2. \A i \in DOMAIN t : i + 1 \in DOMAIN s /\ t[i] = s[i + 1] BY <1>5
      <4>3. QED BY <4>1, <4>2, <2>5
    <3>2. CASE e # d
      <4>1. v = u BY <3>2, <2>4, <1>4, DevicesAre
      <4>2. QED BY <4>1, <2>5
    <3>3. QED BY <3>1, <3>2
  <2>7. r.control = c /\ r.kind # "dropped" => id < r.id
    <3>1. SUFFICES ASSUME r.control = c, r.kind # "dropped" PROVE id < r.id OBVIOUS
    <3>2. u = s BY <3>1, <2>4, <1>3, <1>4
    <3>3. 1 \in DOMAIN s BY <1>5
    <3>4. QED BY <3>1, <3>2, <3>3, <2>5, <1>4
  <2>8. c \in DOMAIN pressed' => id < pressed'[c].id
    <3>1. CASE Begins(d, r) /\ c = r.control
      <4>1. pressed'[c].id = r.id BY <3>1 DEF Begins, With, Begun
      <4>2. QED BY <4>1, <3>1, <2>7 DEF Begins
    <3>2. CASE ~(Begins(d, r) /\ c = r.control)
      <4>1. c \in DOMAIN pressed' => c \in DOMAIN pressed /\ pressed'[c] = pressed[c]
        BY <3>2, <1>1 DEF Drops, Overlooks, Begins, Ends, With, Without, Restrict
      <4>2. QED BY <4>1, <2>2 DEF Finished
    <3>3. QED BY <3>1, <3>2
  <2>9. <<c, id>> \notin cut'
    <3>1. <<c, id>> = <<r.control, r.id>> /\ r.kind # "dropped" => FALSE BY <2>7, <2>3
    <3>2. QED BY <3>1, <2>2, <1>7
  <2>10. c \in DOMAIN down' => id < presses'[c] BY <2>2, <1>2 DEF Finished
  <2>11. Finished(c, id)' BY <2>4, <2>6, <2>8, <2>10 DEF Finished
  <2>12. QED BY <2>9, <2>11
<1>13. HeldOK'
  <2>1. \A c, id : Old(c, id)' <=> Old(c, id) BY <1>2 DEF Old
  <2>2. QED BY <2>1, <1>2 DEF ButtonsInv, HeldOK
<1>14. QED BY <1>8, <1>11, <1>12, <1>13 DEF DevicesInv
(* What a round of poll_at ends with: S are cancelled, T become holds, R repeat. *)
Ages(S, T, R) ==
  /\ S = {c \in DOMAIN pressed : fds[DeviceOf(c)] = "dead"}
  /\ T \subseteq DOMAIN pressed \ S /\ R \subseteq DOMAIN pressed \ S /\ T \cap R = {}
  /\ \A c \in T : ~pressed[c].long /\ clock - pressed[c].since >= Long /\ DeviceOf(c) \notin blocked
  /\ \A c \in R : pressed[c].long
  /\ events' = Events("Cancel", S) \o Events("LongPress", T) \o Events("Repeat", R)
  /\ DOMAIN pressed' = DOMAIN pressed \ S
  /\ \A c \in DOMAIN pressed' : pressed'[c] = IF c \in T THEN [pressed[c] EXCEPT !.long = TRUE] ELSE pressed[c]
  /\ dropping' \subseteq dropping
  /\ fds' = [d \in Devices |-> IF fds[d] = "dead" THEN "closed" ELSE fds[d]]
LEMMA AgeAges ==
  ASSUME ButtonsTyped, Age PROVE \E S, T, R : Ages(S, T, R)
<1> DEFINE dead == {d \in Devices : fds[d] = "dead"}
           S == {c \in DOMAIN pressed : DeviceOf(c) \in dead}
           remaining == Without(S)
           T == TurnLong(remaining)
           R == Repeats(remaining)
<1>1. /\ events' = Events("Cancel", S) \o Events("LongPress", T) \o Events("Repeat", R)
      /\ pressed' = [c \in DOMAIN remaining |-> IF c \in T THEN [remaining[c] EXCEPT !.long = TRUE] ELSE remaining[c]]
      /\ dropping' = dropping \ dead
      /\ fds' = [d \in Devices |-> IF d \in dead THEN "closed" ELSE fds[d]]
  BY DEF Age
<1>2. S = {c \in DOMAIN pressed : fds[DeviceOf(c)] = "dead"} BY DevicesAre
<1>3. DOMAIN remaining = DOMAIN pressed \ S /\ \A c \in DOMAIN remaining : remaining[c] = pressed[c] BY RestrictIs DEF Without
<1>4. T \subseteq DOMAIN remaining /\ R \subseteq DOMAIN remaining /\ T \cap R = {} BY DEF TurnLong, Repeats, Ageing
<1>5. \A c \in T : ~remaining[c].long /\ clock - remaining[c].since >= Long /\ DeviceOf(c) \notin blocked BY DEF TurnLong, Ageing
<1>6. \A c \in R : remaining[c].long BY DEF TurnLong, Repeats
<1>7. fds' = [d \in Devices |-> IF fds[d] = "dead" THEN "closed" ELSE fds[d]] BY <1>1
<1> HIDE DEF S, remaining, T, R
<1>8. Ages(S, T, R) BY <1>1, <1>2, <1>3, <1>4, <1>5, <1>6, <1>7 DEF Ages
<1>9. QED BY <1>8
(* What becomes a hold was down long enough, and is not released. *)
LEMMA AgeOld ==
  ASSUME ButtonsAssumption, ButtonsInv, Age, NEW S, NEW T, NEW R, Ages(S, T, R), NEW c \in T
  PROVE  Old(c, pressed[c].id)
<1>t. ButtonsTyped /\ Long \in Nat /\ clock \in Nat BY DEF ButtonsInv, ButtonsAssumption, ButtonsTyped
<1>1. raw = NoRecords /\ reading BY DEF Age
<1>2. PICK d, s : d = DeviceOf(c) /\ s = Stream(d) OBVIOUS
<1>3. d \in Devices BY <1>2, DevicesAre
<1>4. c \in DOMAIN pressed /\ c \notin S BY DEF Ages
<1>5. KnownOK(c, s) /\ StreamOK(d, s) BY <1>2, <1>3, <1>4 DEF ButtonsInv, DevicesInv
<1>6. pressed[c] \in KnownPress /\ c \in Controls BY <1>4, <1>t DEF ButtonsTyped
<1>7. fds[d] = "open"
  <2>1. fds[d] \in {"open", "dead", "closed"} BY <1>3, <1>t DEF ButtonsTyped
  <2>2. fds[d] # "dead" BY <1>2, <1>4 DEF Ages
  <2>3. fds[d] # "closed" BY <1>5, <1>2 DEF KnownOK
  <2>4. QED BY <2>1, <2>2, <2>3
<1>8. clock - pressed[c].since >= Long /\ d \notin blocked BY <1>2 DEF Ages
<1>9. s = <<>>
  <2>1. lines[d] = <<>> BY <1>8, <1>3, <1>1 DEF ButtonsInv, ReadingOK
  <2>2. QED BY <2>1, <1>2, <1>3, <1>t, <1>1, StreamRests
<1>10. Continues(s, c, pressed[c].id, pressed[c].since, 0) BY <1>9, <1>2, <1>5, <1>7 DEF KnownOK, Lost
<1>11. c \in DOMAIN down /\ presses[c] = pressed[c].id /\ down[c] <= pressed[c].since
  <2>1. 0 + 1 .. Len(s) = {} BY <1>9
  <2>2. QED BY <2>1, <1>10 DEF Continues
<1>12. down[c] \in Nat /\ pressed[c].since \in Nat BY <1>11, <1>6, <1>t DEF ButtonsTyped, KnownPress
<1>13. clock - down[c] >= Long BY <1>8, <1>11, <1>12, <1>t
<1>14. <<c, pressed[c].id>> \notin quick
  <2>1. \A p \in quick : p[1] \in DOMAIN down => p[2] < presses[p[1]] BY <1>t DEF ButtonsTyped
  <2>2. SUFFICES ASSUME <<c, pressed[c].id>> \in quick PROVE FALSE OBVIOUS
  <2>3. pressed[c].id < presses[c] BY <2>1, <2>2, <1>11
  <2>4. presses[c] \in Nat BY <1>6, <1>t DEF ButtonsTyped
  <2>5. QED BY <2>3, <2>4, <1>11
<1>15. QED BY <1>13, <1>14 DEF Old

LEMMA AgeDevices ==
  ASSUME ButtonsAssumption, ButtonsInv, Age PROVE DevicesInv' /\ SpentOK' /\ HeldOK'
<1>t. ButtonsTyped /\ Long \in Nat /\ clock \in Nat BY DEF ButtonsInv, ButtonsAssumption, ButtonsTyped
<1>1. PICK S, T, R : Ages(S, T, R) BY <1>t, AgeAges
<1>2. UNCHANGED <<clock, down, presses, lines, raw, quick, given, begun, cut>> /\ raw = NoRecords /\ reading
  BY DEF Age, ghosts
<1>3. \A d \in Devices : Stream(d)' = Stream(d) BY <1>2 DEF Stream
<1>4. \A c, id, since, n, s : Continues(s, c, id, since, n)' <=> Continues(s, c, id, since, n) BY <1>2 DEF Continues
<1>5. \A c, id : Old(c, id)' <=> Old(c, id) BY <1>2 DEF Old
<1>6. \A d \in Devices : fds'[d] = IF fds[d] = "dead" THEN "closed" ELSE fds[d] BY <1>1 DEF Ages
<1>7. ASSUME NEW d \in Devices PROVE StreamOK(d, Stream(d))'
  <2>1. PICK s : s = Stream(d) OBVIOUS
  <2>2. StreamOK(d, s) BY <2>1 DEF ButtonsInv, DevicesInv
  <2>3. ASSUME NEW i \in DOMAIN s, s[i].kind # "dropped" PROVE KeyRecordOK(d, s, i)'
    <3>1. KeyRecordOK(d, s, i) BY <2>2, <2>3 DEF StreamOK
    <3>2. Unheard(s[i].control, s[i].id)' <=> Unheard(s[i].control, s[i].id) BY <1>2 DEF Unheard
    <3>3. Continues(s, s[i].control, s[i].id, s[i].at, i)' <=> Continues(s, s[i].control, s[i].id, s[i].at, i) BY <1>4
    <3>4. QED BY <3>1, <3>2, <3>3, <1>2 DEF KeyRecordOK, Presses
  <2>4. s # <<>> => fds'[d] = "open" BY <2>2, <1>6 DEF StreamOK
  <2>5. StreamOK(d, s)' BY <2>2, <2>3, <2>4 DEF StreamOK
  <2>6. QED BY <2>1, <2>5, <1>3
<1>8. ASSUME NEW c \in DOMAIN pressed' PROVE KnownOK(c, Stream(DeviceOf(c)))'
  <2>1. PICK d, s : d = DeviceOf(c) /\ s = Stream(d) OBVIOUS
  <2>2. d \in Devices BY <2>1, DevicesAre
  <2>3. c \in DOMAIN pressed /\ c \notin S BY <1>1, <1>8 DEF Ages
  <2>4. KnownOK(c, s) /\ StreamOK(d, s) BY <2>1, <2>2, <2>3 DEF ButtonsInv, DevicesInv
  <2>5. pressed[c] \in KnownPress /\ c \in Controls BY <2>3, <1>t DEF ButtonsTyped
  <2>6. fds[d] = "open" /\ fds'[d] = "open"
    <3>1. fds[d] \in {"open", "dead", "closed"} BY <2>2, <1>t DEF ButtonsTyped
    <3>2. fds[d] # "dead" BY <2>1, <2>3, <1>1 DEF Ages
    <3>3. fds[d] # "closed" BY <2>4, <2>1 DEF KnownOK
    <3>4. QED BY <3>1, <3>2, <3>3, <1>6, <2>2
  <2>7. /\ pressed'[c].id = pressed[c].id /\ pressed'[c].since = pressed[c].since
        /\ pressed'[c].resumed = pressed[c].resumed /\ (pressed'[c].long => c \in T \/ pressed[c].long)
    <3>1. pressed'[c] = IF c \in T THEN [pressed[c] EXCEPT !.long = TRUE] ELSE pressed[c] BY <1>1, <1>8 DEF Ages
    <3>2. QED BY <3>1, <2>5 DEF KnownPress
  <2>8. c \in T => Old(c, pressed[c].id) BY <1>1, AgeOld
  <2>10. d \notin dropping' BY <2>1, <2>4, <1>1 DEF KnownOK, Ages
  <2>p. PICK p : p = pressed'[c] OBVIOUS
  <2>q. p.id = pressed[c].id /\ p.since = pressed[c].since /\ p.resumed = pressed[c].resumed BY <2>7, <2>p
  <2>11. ~Lost(s) => Continues(s, c, p.id, p.since, 0)'
    <3>0. SUFFICES ASSUME ~Lost(s) PROVE Continues(s, c, p.id, p.since, 0)' OBVIOUS
    <3>1. Continues(s, c, pressed[c].id, pressed[c].since, 0) BY <2>1, <2>4, <2>6, <3>0 DEF KnownOK
    <3>2. Continues(s, c, p.id, p.since, 0) BY <3>1, <2>q
    <3>3. QED BY <3>2, <1>4
  <2>12. p.long => Old(c, p.id)'
    <3>1. p.long => Old(c, pressed[c].id) BY <2>7, <2>8, <2>4, <2>p DEF KnownOK
    <3>2. p.long => Old(c, p.id) BY <3>1, <2>q
    <3>3. QED BY <3>2, <1>5
  <2>13. KnownOK(c, s)'
    BY <2>1, <2>4, <2>6, <2>p, <2>q, <2>10, <2>11, <2>12, <1>2 DEF KnownOK
  <2>14. Stream(d)' = s BY <2>1, <2>2, <1>3
  <2>15. QED BY <2>1, <2>13, <2>14
<1>9. SpentOK'
  <2>1. SUFFICES ASSUME NEW g \in given, Spent(g[1], g[2])
        PROVE  Finished(g[1], g[2])' /\ <<g[1], g[2]>> \notin cut'
    BY <1>2 DEF SpentOK, Spent, Gave
  <2>2. Finished(g[1], g[2]) /\ <<g[1], g[2]>> \notin cut BY <2>1 DEF ButtonsInv, SpentOK
  <2>3. Stream(DeviceOf(g[1]))' = Stream(DeviceOf(g[1])) BY DevicesAre, <1>3
  <2>4. g[1] \in DOMAIN pressed' => g[1] \in DOMAIN pressed /\ pressed'[g[1]].id = pressed[g[1]].id
    <3>1. SUFFICES ASSUME g[1] \in DOMAIN pressed'
          PROVE  g[1] \in DOMAIN pressed /\ pressed'[g[1]].id = pressed[g[1]].id OBVIOUS
    <3>2. PICK c : c = g[1] OBVIOUS
    <3>3. c \in DOMAIN pressed BY <3>1, <3>2, <1>1 DEF Ages
    <3>4. pressed'[c] = IF c \in T THEN [pressed[c] EXCEPT !.long = TRUE] ELSE pressed[c]
      BY <3>1, <3>2, <1>1 DEF Ages
    <3>5. pressed[c] \in KnownPress BY <3>3, <1>t DEF ButtonsTyped
    <3>6. pressed'[c].id = pressed[c].id BY <3>4, <3>5 DEF KnownPress
    <3>7. QED BY <3>2, <3>3, <3>6
  <2>5. QED BY <2>2, <2>3, <2>4, <1>2 DEF Finished
<1>10. HeldOK' BY <1>2, <1>5 DEF ButtonsInv, HeldOK
<1>11. QED BY <1>7, <1>8, <1>9, <1>10 DEF DevicesInv

LEMMA ResumedDevices ==
  ASSUME ButtonsAssumption, ButtonsInv, Resumed PROVE DevicesInv' /\ SpentOK' /\ HeldOK'
<1>t. ButtonsTyped /\ raw = NoRecords /\ clock \in Nat BY DEF ButtonsInv, ButtonsTyped, ReadingOK, Resumed, Rests
<1>2. /\ UNCHANGED <<clock, down, presses, raw, quick, given, begun>>
      /\ lines' = NoRecords /\ fds' = [d \in Devices |-> "open"] /\ dropping' = {}
      /\ cut' = cut \cup Losing("pmic") \cup Losing("nav")
  BY DEF Resumed
<1>3. ASSUME NEW d \in Devices PROVE Stream(d)' = <<>>
  <2>1. raw'[d] = <<>> /\ lines'[d] = <<>> BY <1>t, <1>2 DEF NoRecords
  <2>2. QED BY <2>1 DEF Stream
<1>4. ASSUME NEW d \in Devices PROVE StreamOK(d, Stream(d))'
  <2>1. PICK s : s = <<>> OBVIOUS
  <2>2. StreamOK(d, s)' BY <2>1 DEF StreamOK, LostFirst, InTurn
  <2>3. QED BY <2>1, <2>2, <1>3
<1>5. \A c \in DOMAIN pressed' : c = "Power" /\ c \in DOMAIN down /\ pressed'[c] = Begun(clock, presses["Power"], TRUE)
  BY DEF Resumed, With, NoPress
<1>6. ASSUME NEW c \in DOMAIN pressed' PROVE KnownOK(c, Stream(DeviceOf(c)))'
  <2>1. PICK p : p = pressed'[c] /\ p = Begun(clock, presses[c], TRUE) BY <1>5, <1>6
  <2>2. c \in DOMAIN down /\ c \in Controls /\ down[c] <= clock /\ presses[c] \in Nat BY <1>5, <1>6, <1>t DEF ButtonsTyped
  <2>3. PICK s : s = <<>> OBVIOUS
  <2>4. Continues(s, c, p.id, p.since, 0)'
    <3>1. 0 + 1 .. Len(s) = {} BY <2>3
    <3>2. c \in DOMAIN down' /\ presses'[c] = p.id /\ down'[c] <= p.since BY <2>1, <2>2, <1>2 DEF Begun
    <3>3. QED BY <3>1, <3>2 DEF Continues
  <2>5. p.id <= presses'[c] /\ p.resumed /\ ~p.long BY <2>1, <2>2, <1>2 DEF Begun
  <2>6. fds'[DeviceOf(c)] = "open" BY <1>2, DevicesAre
  <2>7. c = "Power" /\ (\A i \in DOMAIN s : FALSE) /\ dropping' = {}
    <3>1. c = "Power" BY <1>5, <1>6
    <3>2. \A i \in DOMAIN s : FALSE BY <2>3
    <3>3. dropping' = {} BY <1>2
    <3>4. QED BY <3>1, <3>2, <3>3
  <2>8. KnownOK(c, s)' BY <2>1, <2>4, <2>5, <2>6, <2>7 DEF KnownOK
  <2>9. QED BY <2>3, <2>8, <1>3, DevicesAre
<1>7. SpentOK'
  <2>1. SUFFICES ASSUME NEW g \in given, Spent(g[1], g[2])
        PROVE  Finished(g[1], g[2])' /\ <<g[1], g[2]>> \notin cut'
    BY <1>2 DEF SpentOK, Spent, Gave
  <2>2. Finished(g[1], g[2]) /\ <<g[1], g[2]>> \notin cut BY <2>1 DEF ButtonsInv, SpentOK
  <2>3. g[1] \in Controls /\ g[2] \in Nat BY <1>t DEF ButtonsTyped, Presses
  <2>4. <<g[1], g[2]>> \notin Losing("pmic") /\ <<g[1], g[2]>> \notin Losing("nav")
    BY <2>2, <2>3, <1>t, FinishedLoses DEF Devices
  <2>5. Stream(DeviceOf(g[1]))' = <<>> BY DevicesAre, <1>3
  <2>6. g[1] \in DOMAIN pressed' => g[2] < pressed'[g[1]].id BY <2>2, <1>5 DEF Finished, Begun
  <2>7. \A i \in DOMAIN Stream(DeviceOf(g[1]))' : FALSE BY <2>5
  <2>8. g[1] \in DOMAIN down' => g[2] < presses'[g[1]] BY <2>2, <1>2 DEF Finished
  <2>9. Finished(g[1], g[2])' BY <2>6, <2>7, <2>8 DEF Finished
  <2>10. QED BY <2>2, <2>4, <2>9, <1>2
<1>8. HeldOK'
  <2>1. \A c, id : Old(c, id)' <=> Old(c, id) BY <1>2 DEF Old
  <2>2. QED BY <2>1, <1>2 DEF ButtonsInv, HeldOK
<1>9. QED BY <1>4, <1>6, <1>7, <1>8 DEF DevicesInv
-----------------------------------------------------------------------------
(* What the events tell of: S cancelled, T become holds, R repeating, each once. *)
Tells(q, S, T, R) ==
  /\ q \in Seq(KeyEvents)
  /\ \A i \in DOMAIN q :
       /\ q[i].control \in S \cup T \cup R /\ q[i].id = pressed[q[i].control].id
       /\ q[i].kind = "Cancel" => q[i].control \in S
       /\ q[i].kind = "LongPress" => q[i].control \in T
       /\ q[i].kind = "Repeat" => q[i].control \in R
       /\ q[i].control \in S => q[i].kind = "Cancel"
       /\ q[i].control \in T => q[i].kind = "LongPress"
       /\ q[i].control \in R => q[i].kind = "Repeat"
  /\ \A i, j \in DOMAIN q : q[i].control = q[j].control => i = j
  /\ \A c \in S \cup T \cup R : \E i \in DOMAIN q : q[i].control = c
LEMMA TellsOne ==
  ASSUME ButtonsAssumption, ButtonsTyped, NEW S \in SUBSET DOMAIN pressed
  PROVE  Tells(Events("Cancel", S), S, {}, {})
<1>1. "Cancel" \in Kinds BY DEF Kinds
<1>2. PICK q : q = Events("Cancel", S) OBVIOUS
<1>3. /\ q \in Seq(KeyEvents)
      /\ \A i \in DOMAIN q : q[i].control \in S /\ q[i] = Event("Cancel", q[i].control, pressed[q[i].control].id)
      /\ \A i, j \in DOMAIN q : q[i].control = q[j].control => i = j
      /\ \A c \in S : \E i \in DOMAIN q : q[i].control = c
  BY <1>1, <1>2, EventsAre
<1>4. \A i \in DOMAIN q : q[i].kind = "Cancel" /\ q[i].id = pressed[q[i].control].id
  <2>1. SUFFICES ASSUME NEW i \in DOMAIN q PROVE q[i].kind = "Cancel" /\ q[i].id = pressed[q[i].control].id OBVIOUS
  <2>2. PICK c : c = q[i].control OBVIOUS
  <2>3. q[i] = Event("Cancel", c, pressed[c].id) BY <1>3, <2>2
  <2>4. QED BY <2>2, <2>3 DEF Event
<1>5. Tells(q, S, {}, {}) BY <1>3, <1>4 DEF Tells
<1>6. QED BY <1>2, <1>5
LEMMA TellsAll ==
  ASSUME ButtonsAssumption, ButtonsTyped, NEW S \in SUBSET DOMAIN pressed, NEW T \in SUBSET DOMAIN pressed,
         NEW R \in SUBSET DOMAIN pressed, S \cap T = {}, S \cap R = {}, T \cap R = {}
  PROVE  Tells(Events("Cancel", S) \o Events("LongPress", T) \o Events("Repeat", R), S, T, R)
<1>0. {"Cancel", "LongPress", "Repeat"} \subseteq Kinds BY DEF Kinds
<1>1. PICK a, b, e : a = Events("Cancel", S) /\ b = Events("LongPress", T) /\ e = Events("Repeat", R) OBVIOUS
<1>2. ASSUME NEW kind \in {"Cancel", "LongPress", "Repeat"}, NEW X \in SUBSET DOMAIN pressed, NEW q, q = Events(kind, X)
      PROVE  /\ q \in Seq(KeyEvents)
             /\ \A i \in DOMAIN q : q[i].control \in X /\ q[i].kind = kind /\ q[i].id = pressed[q[i].control].id
             /\ \A i, j \in DOMAIN q : q[i].control = q[j].control => i = j
             /\ \A c \in X : \E i \in DOMAIN q : q[i].control = c
  <2>1. /\ q \in Seq(KeyEvents)
        /\ \A i \in DOMAIN q : q[i].control \in X /\ q[i] = Event(kind, q[i].control, pressed[q[i].control].id)
        /\ \A i, j \in DOMAIN q : q[i].control = q[j].control => i = j
        /\ \A c \in X : \E i \in DOMAIN q : q[i].control = c
    BY <1>0, <1>2, EventsAre
  <2>2. ASSUME NEW i \in DOMAIN q PROVE q[i].kind = kind /\ q[i].id = pressed[q[i].control].id
    <3>1. PICK c : c = q[i].control OBVIOUS
    <3>2. q[i] = Event(kind, c, pressed[c].id) BY <2>1, <3>1
    <3>3. QED BY <3>1, <3>2 DEF Event
  <2>3. QED BY <2>1, <2>2
<1>a. /\ a \in Seq(KeyEvents)
      /\ \A i \in DOMAIN a : a[i].control \in S /\ a[i].kind = "Cancel" /\ a[i].id = pressed[a[i].control].id
      /\ \A i, j \in DOMAIN a : a[i].control = a[j].control => i = j
      /\ \A c \in S : \E i \in DOMAIN a : a[i].control = c
  BY <1>1, <1>2
<1>b. /\ b \in Seq(KeyEvents)
      /\ \A i \in DOMAIN b : b[i].control \in T /\ b[i].kind = "LongPress" /\ b[i].id = pressed[b[i].control].id
      /\ \A i, j \in DOMAIN b : b[i].control = b[j].control => i = j
      /\ \A c \in T : \E i \in DOMAIN b : b[i].control = c
  BY <1>1, <1>2
<1>e. /\ e \in Seq(KeyEvents)
      /\ \A i \in DOMAIN e : e[i].control \in R /\ e[i].kind = "Repeat" /\ e[i].id = pressed[e[i].control].id
      /\ \A i, j \in DOMAIN e : e[i].control = e[j].control => i = j
      /\ \A c \in R : \E i \in DOMAIN e : e[i].control = c
  BY <1>1, <1>2
<1>3. PICK la \in Nat, lb \in Nat, le \in Nat :
        /\ la = Len(a) /\ lb = Len(b) /\ le = Len(e)
        /\ DOMAIN a = 1 .. la /\ DOMAIN b = 1 .. lb /\ DOMAIN e = 1 .. le
  BY <1>a, <1>b, <1>e, LenProperties
<1>4. PICK q : q = a \o b \o e OBVIOUS
<1>5. /\ q \in Seq(KeyEvents) /\ DOMAIN q = 1 .. la + lb + le
      /\ \A i \in 1 .. la : q[i] = a[i]
      /\ \A i \in la + 1 .. la + lb : q[i] = b[i - la]
      /\ \A i \in la + lb + 1 .. la + lb + le : q[i] = e[i - (la + lb)]
  <2>1. PICK p : p = a \o b OBVIOUS
  <2>2. /\ p \in Seq(KeyEvents) /\ Len(p) = la + lb
        /\ \A i \in 1 .. la + lb : p[i] = IF i <= la THEN a[i] ELSE b[i - la]
    BY <1>a, <1>b, <1>3, <2>1, ConcatProperties
  <2>3. q = p \o e BY <1>4, <2>1
  <2>4. /\ q \in Seq(KeyEvents) /\ Len(q) = la + lb + le
        /\ \A i \in 1 .. la + lb + le : q[i] = IF i <= la + lb THEN p[i] ELSE e[i - (la + lb)]
    <3>1. p \in Seq(KeyEvents) /\ e \in Seq(KeyEvents) BY <2>2, <1>e
    <3>2. /\ p \o e \in Seq(KeyEvents) /\ Len(p \o e) = Len(p) + Len(e)
          /\ \A i \in 1 .. Len(p) + Len(e) : (p \o e)[i] = IF i <= Len(p) THEN p[i] ELSE e[i - Len(p)]
      BY <3>1, ConcatProperties
    <3>3. QED BY <3>2, <2>2, <2>3, <1>3
  <2>5. DOMAIN q = 1 .. la + lb + le BY <2>4, LenProperties
  <2>6. QED BY <2>2, <2>4, <2>5, <1>3
<1>6. ASSUME NEW i \in DOMAIN q
      PROVE  \/ i \in 1 .. la /\ q[i] = a[i] /\ i \in DOMAIN a
             \/ i - la \in DOMAIN b /\ q[i] = b[i - la] /\ i \in la + 1 .. la + lb
             \/ i - (la + lb) \in DOMAIN e /\ q[i] = e[i - (la + lb)] /\ i \in la + lb + 1 .. la + lb + le
  <2>1. i \in 1 .. la \/ i \in la + 1 .. la + lb \/ i \in la + lb + 1 .. la + lb + le BY <1>5, <1>3
  <2>2. CASE i \in 1 .. la BY <2>2, <1>3, <1>5
  <2>3. CASE i \in la + 1 .. la + lb
    <3>1. i - la \in 1 .. lb BY <2>3, <1>3
    <3>2. QED BY <2>3, <3>1, <1>3, <1>5
  <2>4. CASE i \in la + lb + 1 .. la + lb + le
    <3>1. i - (la + lb) \in 1 .. le BY <2>4, <1>3
    <3>2. QED BY <2>4, <3>1, <1>3, <1>5
  <2>5. QED BY <2>1, <2>2, <2>3, <2>4
<1>7. ASSUME NEW i \in DOMAIN q
      PROVE  /\ q[i].id = pressed[q[i].control].id
             /\ \/ q[i].control \in S /\ q[i].kind = "Cancel"
                \/ q[i].control \in T /\ q[i].kind = "LongPress"
                \/ q[i].control \in R /\ q[i].kind = "Repeat"
  BY <1>6, <1>a, <1>b, <1>e
<1>8. ASSUME NEW i \in DOMAIN q, NEW j \in DOMAIN q, q[i].control = q[j].control PROVE i = j
  <2>1. CASE q[i].control \in S
    <3>1. i \in DOMAIN a /\ q[i] = a[i] BY <2>1, <1>6, <1>b, <1>e
    <3>2. j \in DOMAIN a /\ q[j] = a[j] BY <2>1, <1>8, <1>6, <1>b, <1>e
    <3>3. QED BY <3>1, <3>2, <1>8, <1>a
  <2>2. CASE q[i].control \in T
    <3>1. i - la \in DOMAIN b /\ q[i] = b[i - la] /\ i \in la + 1 .. la + lb BY <2>2, <1>6, <1>a, <1>e
    <3>2. j - la \in DOMAIN b /\ q[j] = b[j - la] /\ j \in la + 1 .. la + lb BY <2>2, <1>8, <1>6, <1>a, <1>e
    <3>3. i - la = j - la BY <3>1, <3>2, <1>8, <1>b
    <3>4. QED BY <3>1, <3>2, <3>3, <1>3
  <2>3. CASE q[i].control \in R
    <3>1. i - (la + lb) \in DOMAIN e /\ q[i] = e[i - (la + lb)] /\ i \in la + lb + 1 .. la + lb + le
      BY <2>3, <1>6, <1>a, <1>b
    <3>2. j - (la + lb) \in DOMAIN e /\ q[j] = e[j - (la + lb)] /\ j \in la + lb + 1 .. la + lb + le
      BY <2>3, <1>8, <1>6, <1>a, <1>b
    <3>3. i - (la + lb) = j - (la + lb) BY <3>1, <3>2, <1>8, <1>e
    <3>4. QED BY <3>1, <3>2, <3>3, <1>3
  <2>4. QED BY <1>7, <2>1, <2>2, <2>3
<1>9. ASSUME NEW c \in S \cup T \cup R PROVE \E i \in DOMAIN q : q[i].control = c
  <2>1. CASE c \in S
    <3>1. PICK i \in DOMAIN a : a[i].control = c BY <2>1, <1>a
    <3>2. i \in DOMAIN q /\ q[i] = a[i] BY <3>1, <1>3, <1>5
    <3>3. QED BY <3>1, <3>2
  <2>2. CASE c \in T
    <3>1. PICK i \in DOMAIN b : b[i].control = c BY <2>2, <1>b
    <3>2. i \in 1 .. lb BY <3>1, <1>3
    <3>3. i + la \in la + 1 .. la + lb /\ (i + la) - la = i BY <3>2, <1>3
    <3>4. i + la \in DOMAIN q /\ q[i + la] = b[i] BY <3>3, <1>3, <1>5
    <3>5. QED BY <3>1, <3>4
  <2>3. CASE c \in R
    <3>1. PICK i \in DOMAIN e : e[i].control = c BY <2>3, <1>e
    <3>2. i \in 1 .. le BY <3>1, <1>3
    <3>3. i + (la + lb) \in la + lb + 1 .. la + lb + le /\ (i + (la + lb)) - (la + lb) = i BY <3>2, <1>3
    <3>4. i + (la + lb) \in DOMAIN q /\ q[i + (la + lb)] = e[i] BY <3>3, <1>3, <1>5
    <3>5. QED BY <3>1, <3>4
  <2>4. QED BY <2>1, <2>2, <2>3
<1>10. Tells(q, S, T, R) BY <1>5, <1>7, <1>8, <1>9 DEF Tells
<1>11. QED BY <1>1, <1>4, <1>10
-----------------------------------------------------------------------------
(* The types. *)
LEMMA LosingTyped ==
  ASSUME ButtonsAssumption, ButtonsInv, raw = NoRecords, NEW d \in Devices
  PROVE  Losing(d) \subseteq Presses \cup ({"all"} \X Nat)
<1>t. ButtonsTyped /\ presses \in [Controls -> Nat] BY DEF ButtonsInv, ButtonsTyped
<1>1. ASSUME NEW c \in DOMAIN down \cup DOMAIN pressed PROVE <<c, presses[c]>> \in Presses
  <2>1. c \in Controls /\ presses[c] \in Nat BY <1>t DEF ButtonsTyped
  <2>2. c \in DOMAIN down => presses[c] # 0 BY <1>t DEF ButtonsTyped
  <2>3. c \in DOMAIN pressed => presses[c] # 0
    <3>1. SUFFICES ASSUME c \in DOMAIN pressed PROVE presses[c] # 0 OBVIOUS
    <3>2. pressed[c].id <= presses[c] BY <3>1 DEF ButtonsInv, DevicesInv, KnownOK
    <3>3. pressed[c].id \in Nat \ {0} BY <3>1, <1>t DEF ButtonsTyped, KnownPress
    <3>4. QED BY <3>2, <3>3, <2>1
  <2>4. QED BY <2>1, <2>2, <2>3 DEF Presses
<1>2. ASSUME NEW i \in DOMAIN lines[d] PROVE <<lines[d][i].control, lines[d][i].id>> \in Presses \cup ({"all"} \X Nat)
  <2>1. Stream(d) = lines[d] /\ lines[d] \in Seq(KeyRecords) BY <1>t, StreamRests, StreamIs
  <2>2. StreamOK(d, lines[d]) BY <2>1 DEF ButtonsInv, DevicesInv
  <2>3. lines[d][i] \in KeyRecords BY <2>1, LenProperties, ElementOfSeq
  <2>4. CASE lines[d][i].kind = "dropped"
    <3>1. lines[d][i].control = "all" BY <2>2, <2>4 DEF StreamOK, LostFirst
    <3>2. QED BY <3>1, <2>3 DEF KeyRecords
  <2>5. CASE lines[d][i].kind # "dropped" BY <2>2, <2>5 DEF StreamOK, KeyRecordOK
  <2>6. QED BY <2>4, <2>5
<1>3. QED BY <1>1, <1>2 DEF Losing

TypesKept == ButtonsTyped' /\ RouterTyped' /\ ReadingOK'
LEMMA DownTyped ==
  ASSUME ButtonsAssumption, ButtonsInv, Down PROVE TypesKept
<1>t. ButtonsTyped /\ presses \in [Controls -> Nat] /\ clock \in Nat BY DEF ButtonsInv, ButtonsTyped
<1>1. PICK b \in Controls \ DOMAIN down :
        /\ presses' = [presses EXCEPT ![b] = @ + 1] /\ down' = With(down, b, clock)
        /\ Reports(b, "down", presses[b] + 1)
        /\ cut' = IF fds[DeviceOf(b)] = "open" THEN cut ELSE cut \cup {<<b, presses[b] + 1>>}
  BY Zenon DEF Down
<1>2. UNCHANGED <<clock, fds, reading, raw, blocked, events, pressed, dropping, router, mode, lit, resume, given, begun, quick>>
      /\ events = <<>> /\ ~reading
  BY DEF Down, loopVars, uiVars, Rests
<1>3. presses' \in [Controls -> Nat] /\ presses'[b] = presses[b] + 1 /\ \A c \in Controls : c # b => presses'[c] = presses[c]
  BY <1>1, <1>t
<1>4. Presses \subseteq Presses' /\ <<b, presses[b] + 1>> \in Presses'
  <2>1. <<b, presses[b] + 1>> \in Presses' BY <1>3, <1>t DEF Presses
  <2>2. ASSUME NEW p \in Presses PROVE p \in Presses'
    <3>1. p \in Controls \X (Nat \ {0}) /\ p[2] <= presses[p[1]] BY DEF Presses
    <3>2. p[2] <= presses'[p[1]]
      <4>1. CASE p[1] = b BY <4>1, <3>1, <1>3, <1>t
      <4>2. CASE p[1] # b BY <4>2, <3>1, <1>3
      <4>3. QED BY <4>1, <4>2
    <3>3. QED BY <3>1, <3>2 DEF Presses
  <2>3. QED BY <2>1, <2>2
<1>5. lines' \in [Devices -> Seq(KeyRecords)]
  <2>1. Record(b, "down", presses[b] + 1) \in KeyRecords BY <1>t DEF Record, KeyRecords
  <2>2. lines \in [Devices -> Seq(KeyRecords)] BY <1>t DEF ButtonsTyped
  <2>3. Append(lines[DeviceOf(b)], Record(b, "down", presses[b] + 1)) \in Seq(KeyRecords)
    BY <2>1, <2>2, DevicesAre
  <2>4. QED BY <2>2, <2>3, <1>1 DEF Reports
<1>6. /\ DOMAIN down' \subseteq Controls
      /\ \A c \in DOMAIN down' : down'[c] \in Nat /\ down'[c] <= clock /\ presses'[c] # 0
  <2>1. DOMAIN down' = DOMAIN down \cup {b} /\ down'[b] = clock /\ \A c \in DOMAIN down : c # b => down'[c] = down[c]
    BY <1>1 DEF With
  <2>2. DOMAIN down \subseteq Controls /\ \A c \in DOMAIN down : down[c] \in Nat /\ down[c] <= clock /\ presses[c] # 0
    BY <1>t DEF ButtonsTyped
  <2>3. presses[b] \in Nat BY <1>t
  <2>4. QED BY <2>1, <2>2, <2>3, <1>3, <1>t
<1>7. \A p \in quick : p[1] \in DOMAIN down' => p[2] < presses'[p[1]]
  <2>1. SUFFICES ASSUME NEW p \in quick, p[1] \in DOMAIN down' PROVE p[2] < presses'[p[1]] OBVIOUS
  <2>2. p \in Controls \X (Nat \ {0}) /\ p[2] <= presses[p[1]] BY <1>t DEF ButtonsTyped, Presses
  <2>3. CASE p[1] = b BY <2>2, <2>3, <1>3, <1>t
  <2>4. CASE p[1] # b
    <3>1. p[1] \in DOMAIN down BY <2>1, <2>4, <1>1 DEF With
    <3>2. p[2] < presses[p[1]] BY <3>1, <1>t DEF ButtonsTyped
    <3>3. QED BY <3>2, <2>2, <2>4, <1>3
  <2>5. QED BY <2>3, <2>4
<1>8. \A i \in DOMAIN events : FALSE BY <1>2
<1>9. ButtonsTyped'
  <2>1. cut' \subseteq Presses' \cup ({"all"} \X Nat) BY <1>1, <1>4, <1>t DEF ButtonsTyped
  <2>2. begun' \subseteq Presses' /\ quick' \subseteq Presses' BY <1>2, <1>4, <1>t DEF ButtonsTyped
  <2>3. \A g \in given' : <<g[1], g[2]>> \in Presses' BY <1>2, <1>4, <1>t DEF ButtonsTyped
  <2>4. QED BY <1>2, <1>3, <1>5, <1>6, <1>7, <1>8, <2>1, <2>2, <2>3, <1>t DEF ButtonsTyped
<1>10. RouterTyped' BY <1>2 DEF ButtonsInv, RouterTyped, RestsInTheDark
<1>11. ReadingOK' BY <1>2 DEF ButtonsInv, ReadingOK
<1>12. QED BY <1>9, <1>10, <1>11 DEF TypesKept

LEMMA UpTyped ==
  ASSUME ButtonsAssumption, ButtonsInv, Up PROVE TypesKept
<1>t. ButtonsTyped /\ presses \in [Controls -> Nat] /\ clock \in Nat BY DEF ButtonsInv, ButtonsTyped
<1>1. PICK b \in DOMAIN down :
        /\ down' = Restrict(down, DOMAIN down \ {b}) /\ Reports(b, "up", presses[b])
        /\ quick' = IF clock - down[b] < Long THEN quick \cup {<<b, presses[b]>>} ELSE quick
  BY Zenon DEF Up
<1>2. UNCHANGED <<clock, presses, fds, reading, raw, blocked, events, pressed, dropping, router, mode, lit, resume, given, begun, cut>>
      /\ events = <<>> /\ ~reading
  BY DEF Up, loopVars, uiVars, Rests
<1>3. b \in Controls /\ presses[b] \in Nat \ {0} BY <1>t DEF ButtonsTyped
<1>4. <<b, presses[b]>> \in Presses /\ Presses' = Presses BY <1>2, <1>3 DEF Presses
<1>5. lines' \in [Devices -> Seq(KeyRecords)]
  <2>1. Record(b, "up", presses[b]) \in KeyRecords BY <1>3, <1>t DEF Record, KeyRecords
  <2>2. lines \in [Devices -> Seq(KeyRecords)] BY <1>t DEF ButtonsTyped
  <2>3. Append(lines[DeviceOf(b)], Record(b, "up", presses[b])) \in Seq(KeyRecords)
    BY <2>1, <2>2, DevicesAre
  <2>4. QED BY <2>2, <2>3, <1>1 DEF Reports
<1>6. DOMAIN down' = DOMAIN down \ {b} /\ \A c \in DOMAIN down' : down'[c] = down[c] BY <1>1, RestrictIs
<1>7. \A p \in quick' : p[1] \in DOMAIN down' => p[2] < presses[p[1]]
  <2>1. SUFFICES ASSUME NEW p \in quick', p[1] \in DOMAIN down' PROVE p[2] < presses[p[1]] OBVIOUS
  <2>2. p \in quick BY <2>1, <1>1, <1>6
  <2>3. QED BY <2>1, <2>2, <1>6, <1>t DEF ButtonsTyped
<1>8. quick' \subseteq Presses BY <1>1, <1>4, <1>t DEF ButtonsTyped
<1>9. ButtonsTyped' BY <1>2, <1>4, <1>5, <1>6, <1>7, <1>8, <1>t DEF ButtonsTyped
<1>10. RouterTyped' BY <1>2 DEF ButtonsInv, RouterTyped, RestsInTheDark
<1>11. ReadingOK' BY <1>2 DEF ButtonsInv, ReadingOK
<1>12. QED BY <1>9, <1>10, <1>11 DEF TypesKept
LEMMA QuietTyped ==
  ASSUME ButtonsAssumption, ButtonsInv, Time \/ Completes \/ Interface \/ Prepare \/ Restore PROVE TypesKept
<1>t. ButtonsTyped /\ clock \in Nat /\ lit \in BOOLEAN BY DEF ButtonsInv, ButtonsTyped
<1>1. UNCHANGED <<deviceVars, loopVars, mode, ghosts>>
  BY DEF Time, Completes, Interface, Prepare, Restore
<1>2. UNCHANGED <<raw, lines, fds, down, presses, quick, given, begun, pressed, dropping, cut, reading, blocked, events, router, mode>>
      /\ events = <<>> /\ ~reading
  BY <1>1 DEF Time, Completes, Interface, Prepare, Restore, Rests, deviceVars, loopVars, ghosts
<1>3. clock' \in Nat /\ clock' >= clock BY <1>t DEF Time, Completes, Interface, Prepare, Restore
<1>4. lit' \in BOOLEAN BY <1>t DEF Time, Completes, Interface, Prepare, Restore, uiVars
<1>5. Presses' = Presses BY <1>2 DEF Presses
<1>6. \A c \in DOMAIN down : down[c] <= clock'
  <2>1. \A c \in DOMAIN down : down[c] \in Nat /\ down[c] <= clock BY <1>t DEF ButtonsTyped
  <2>2. QED BY <2>1, <1>3, <1>t
<1>7. ButtonsTyped' BY <1>2, <1>3, <1>4, <1>5, <1>6, <1>t DEF ButtonsTyped
<1>8. RouterTyped' BY <1>2 DEF ButtonsInv, RouterTyped, RestsInTheDark
<1>9. ReadingOK' BY <1>2 DEF ButtonsInv, ReadingOK
<1>10. QED BY <1>7, <1>8, <1>9 DEF TypesKept

LEMMA LostTyped ==
  ASSUME ButtonsAssumption, ButtonsInv, Overflow \/ Rebind PROVE TypesKept
<1>t. /\ ButtonsTyped /\ clock \in Nat /\ raw = NoRecords /\ lines \in [Devices -> Seq(KeyRecords)]
      /\ fds \in [Devices -> {"open", "dead", "closed"}]
  BY DEF ButtonsInv, ButtonsTyped, ReadingOK, Overflow, Rebind, Rests
<1>1. UNCHANGED <<clock, raw, down, presses, quick, given, begun, pressed, dropping, reading, blocked, events, router, mode, lit, resume>>
      /\ events = <<>> /\ ~reading
  BY DEF Overflow, Rebind, Rests, loopVars, uiVars
<1>2. \E d \in Devices : cut' = cut \cup Losing(d) BY DEF Overflow, Rebind
<1>3. cut' \subseteq Presses \cup ({"all"} \X Nat) BY <1>2, <1>t, LosingTyped DEF ButtonsTyped
<1>4. lines' \in [Devices -> Seq(KeyRecords)] /\ fds' \in [Devices -> {"open", "dead", "closed"}]
  <2>1. CASE Overflow
    <3>1. [control |-> "all", kind |-> "dropped", at |-> clock, id |-> 0] \in KeyRecords BY <1>t DEF KeyRecords
    <3>2. <<[control |-> "all", kind |-> "dropped", at |-> clock, id |-> 0]>> \in Seq(KeyRecords) BY <3>1
    <3>3. QED BY <3>2, <2>1, <1>t DEF Overflow
  <2>2. CASE Rebind BY <2>2, <1>t DEF Rebind
  <2>3. QED BY <2>1, <2>2
<1>5. Presses' = Presses BY <1>1 DEF Presses
<1>6. ButtonsTyped' BY <1>1, <1>3, <1>4, <1>5, <1>t DEF ButtonsTyped
<1>7. RouterTyped' BY <1>1 DEF ButtonsInv, RouterTyped, RestsInTheDark
<1>8. ReadingOK' BY <1>1 DEF ButtonsInv, ReadingOK
<1>9. QED BY <1>6, <1>7, <1>8 DEF TypesKept

LEMMA ReadTyped ==
  ASSUME ButtonsAssumption, ButtonsInv, Read PROVE TypesKept
<1>t. /\ ButtonsTyped /\ lines \in [Devices -> Seq(KeyRecords)] /\ fds \in [Devices -> {"open", "dead", "closed"}]
      /\ ~resume
  BY DEF ButtonsInv, ButtonsTyped, Read
<1>1. PICK taken : /\ taken \in [pmic : 0 .. Len(lines["pmic"]), nav : 0 .. Len(lines["nav"])]
                   /\ raw' = [d \in Devices |-> SubSeq(lines[d], 1, taken[d])]
                   /\ lines' = [d \in Devices |-> SubSeq(lines[d], taken[d] + 1, Len(lines[d]))]
                   /\ blocked' = {d \in Devices : taken[d] < Len(lines[d])}
  BY Zenon DEF Read
<1>2. taken["pmic"] \in 0 .. Len(lines["pmic"]) /\ taken["nav"] \in 0 .. Len(lines["nav"]) BY <1>1
<1>3. ASSUME NEW d \in Devices
      PROVE  /\ SubSeq(lines[d], 1, taken[d]) \in Seq(KeyRecords)
             /\ SubSeq(lines[d], taken[d] + 1, Len(lines[d])) \in Seq(KeyRecords)
             /\ ~(taken[d] < Len(lines[d])) => SubSeq(lines[d], taken[d] + 1, Len(lines[d])) = <<>>
  <2>1. PICK k : k = taken[d] OBVIOUS
  <2>2. PICK s \in Seq(KeyRecords) : s = lines[d] BY <1>t
  <2>3. k \in 0 .. Len(s) /\ Len(s) \in Nat BY <2>1, <2>2, <1>2, LenProperties DEF Devices
  <2>4. \A i \in 1 .. Len(s) : s[i] \in KeyRecords BY ElementOfSeq
  <2>5. SubSeq(s, 1, k) \in Seq(KeyRecords)
    <3>1. 1 \in Int /\ k \in Int /\ \A i \in 1 .. k : s[i] \in KeyRecords BY <2>3, <2>4
    <3>2. QED BY <3>1, SubSeqProperties
  <2>6. SubSeq(s, k + 1, Len(s)) \in Seq(KeyRecords)
    <3>1. k + 1 \in Int /\ Len(s) \in Int /\ \A i \in k + 1 .. Len(s) : s[i] \in KeyRecords BY <2>3, <2>4
    <3>2. QED BY <3>1, SubSeqProperties
  <2>7. ~(k < Len(s)) => SubSeq(s, k + 1, Len(s)) = <<>>
    <3>1. ~(k < Len(s)) => k + 1 \in Int /\ Len(s) \in Int /\ Len(s) < k + 1 BY <2>3
    <3>2. QED BY <3>1, SubSeqEmpty
  <2>8. QED BY <2>1, <2>2, <2>5, <2>6, <2>7
<1>4. raw' \in [Devices -> Seq(KeyRecords)] /\ lines' \in [Devices -> Seq(KeyRecords)]
  BY <1>1, <1>3
<1>5. fds' \in [Devices -> {"open", "dead", "closed"}] BY <1>t DEF Read
<1>6. UNCHANGED <<clock, down, presses, events, pressed, dropping, router, mode, lit, given, begun, cut, quick>>
      /\ events = <<>> /\ reading' = TRUE /\ ~resume'
  BY <1>t DEF Read, Rests, uiVars, ghosts
<1>7. Presses' = Presses BY <1>6 DEF Presses
<1>8. ButtonsTyped' BY <1>4, <1>5, <1>6, <1>7, <1>t DEF ButtonsTyped
<1>9. RouterTyped' BY <1>6 DEF ButtonsInv, RouterTyped, RestsInTheDark
<1>10. \A d \in Devices \ blocked' : lines'[d] = <<>> BY <1>1, <1>3
<1>11. ReadingOK' BY <1>6, <1>10 DEF ReadingOK
<1>12. QED BY <1>8, <1>9, <1>11 DEF TypesKept

LEMMA OneThenOne ==
  ASSUME NEW S, NEW a \in S, NEW e \in S
  PROVE  <<a>> \o <<e>> = <<a, e>> /\ <<>> \o <<e>> = <<e>>
<1>1. <<a>> \in Seq(S) /\ <<e>> \in Seq(S) /\ <<a, e>> \in Seq(S) OBVIOUS
<1>2. PICK p, q, w : p = <<a>> /\ q = <<e>> /\ w = <<a, e>> OBVIOUS
<1>3. Len(p) = 1 /\ Len(q) = 1 /\ Len(w) = 2 /\ p[1] = a /\ q[1] = e /\ w[1] = a /\ w[2] = e BY <1>2
<1>4. p \in Seq(S) /\ q \in Seq(S) /\ w \in Seq(S) BY <1>1, <1>2
<1>5. /\ p \o q \in Seq(S) /\ Len(p \o q) = Len(p) + Len(q)
      /\ \A i \in 1 .. Len(p) + Len(q) : (p \o q)[i] = IF i <= Len(p) THEN p[i] ELSE q[i - Len(p)]
  BY <1>4, ConcatProperties
<1>6. Len(p \o q) = 2 /\ (p \o q)[1] = a /\ (p \o q)[2] = e BY <1>3, <1>5
<1>7. \A i \in 1 .. Len(p \o q) : (p \o q)[i] = w[i] BY <1>3, <1>6
<1>8. p \o q = w BY <1>3, <1>4, <1>5, <1>6, <1>7, SeqEqual
<1>9. <<>> \o q = q BY <1>4, ConcatEmptySeq
<1>10. QED BY <1>2, <1>8, <1>9
LEMMA IngestTyped ==
  ASSUME ButtonsAssumption, ButtonsInv, Ingest PROVE TypesKept
<1>t. ButtonsTyped /\ raw \in [Devices -> Seq(KeyRecords)] BY DEF ButtonsInv, ButtonsTyped
<1>1. PICK d \in Devices, r \in KeyRecords :
           /\ Takes(d, r) /\ r.at \in Nat
           /\ Drops(d, r) \/ Overlooks(d, r) \/ Begins(d, r) \/ Ends(d, r)
  BY IngestTakes
<1>2. UNCHANGED <<clock, down, presses, lines, fds, quick, given, begun, blocked, reading, router, mode, lit, resume>>
      /\ reading
  BY DEF Ingest, deviceVars, uiVars
<1>3. Presses' = Presses BY <1>2 DEF Presses
<1>4. raw' \in [Devices -> Seq(KeyRecords)]
  <2>1. ASSUME NEW e \in Devices PROVE raw'[e] \in Seq(KeyRecords)
    <3>1. CASE e = d BY <3>1, <1>1 DEF Takes
    <3>2. CASE e # d BY <3>2, <1>1, <1>t DEF Takes
    <3>3. QED BY <3>1, <3>2
  <2>2. raw' = [e \in Devices |-> raw'[e]]
    <3>1. Ingest => \E e \in Devices : raw' = [raw EXCEPT ![e] = Tail(@)] BY DEF Ingest
    <3>2. QED BY <3>1, <1>t
  <2>3. QED BY <2>1, <2>2
<1>5. r.kind # "dropped" => r.control \in Controls /\ r.id \in Nat \ {0} /\ <<r.control, r.id>> \in Presses
                             /\ r.id <= presses[r.control]
  BY <1>1 DEF Takes, Presses
<1>6. DOMAIN pressed' \subseteq Controls /\ \A c \in DOMAIN pressed' : pressed'[c] \in KnownPress
  <2>1. DOMAIN pressed \subseteq Controls /\ \A c \in DOMAIN pressed : pressed[c] \in KnownPress BY <1>t DEF ButtonsTyped
  <2>2. CASE Begins(d, r)
    <3>1. Begun(r.at, r.id, FALSE) \in KnownPress BY <2>2, <1>1, <1>5 DEF Begun, KnownPress, Begins
    <3>2. /\ DOMAIN pressed' = DOMAIN pressed \cup {r.control} /\ pressed'[r.control] = Begun(r.at, r.id, FALSE)
          /\ \A c \in DOMAIN pressed : c # r.control => pressed'[c] = pressed[c]
      BY <2>2 DEF Begins, With
    <3>3. r.control \in Controls BY <2>2, <1>5 DEF Begins
    <3>4. QED BY <3>1, <3>2, <3>3, <2>1
  <2>3. CASE ~Begins(d, r)
    <3>1. DOMAIN pressed' \subseteq DOMAIN pressed /\ \A c \in DOMAIN pressed' : pressed'[c] = pressed[c]
      BY <2>3, <1>1 DEF Drops, Overlooks, Ends, Without, Restrict
    <3>2. QED BY <3>1, <2>1
  <2>4. QED BY <2>2, <2>3
<1>7. cut' \subseteq Presses \cup ({"all"} \X Nat)
  BY <1>1, <1>5, <1>t DEF Drops, Overlooks, Begins, Ends, ButtonsTyped
<1>8. events' \in Seq(KeyEvents) /\ \A i \in DOMAIN events' : events'[i].id <= presses[events'[i].control]
  <2>1. CASE Drops(d, r)
    <3>1. PICK q : q = events' OBVIOUS
    <3>2. Stale(d) \in SUBSET DOMAIN pressed BY DEF Stale
    <3>3. Tells(q, Stale(d), {}, {}) BY <3>1, <3>2, <2>1, <1>t, TellsOne DEF Drops
    <3>4. \A c \in DOMAIN pressed : pressed[c].id <= presses[c] BY DEF ButtonsInv, DevicesInv, KnownOK
    <3>5. \A i \in DOMAIN q : q[i].control \in DOMAIN pressed /\ q[i].id = pressed[q[i].control].id
      BY <3>2, <3>3 DEF Tells
    <3>6. QED BY <3>1, <3>3, <3>4, <3>5 DEF Tells
  <2>2. CASE Overlooks(d, r) BY <2>2, <1>1 DEF Overlooks, Takes
  <2>3. ASSUME NEW kind \in Kinds, r.kind # "dropped"
        PROVE  Event(kind, r.control, r.id) \in KeyEvents
    BY <2>3, <1>5 DEF Event, KeyEvents
  <2>4. CASE Begins(d, r)
    <3>1. PICK e : e = Event("Press", r.control, r.id) OBVIOUS
    <3>2. e \in KeyEvents /\ e.id <= presses[e.control] BY <3>1, <2>3, <2>4, <1>5 DEF Begins, Kinds, Event
    <3>3. events' = <<e>> BY <3>1, <2>4 DEF Begins
    <3>4. QED BY <3>2, <3>3
  <2>5. CASE Ends(d, r)
    <3>1. PICK aged \in BOOLEAN, kind \in {"Release", "Cancel"} : EndsAs(r, aged, kind) BY <2>5 DEF Ends
    <3>2. PICK a, e : a = Event("LongPress", r.control, r.id) /\ e = Event(kind, r.control, r.id) OBVIOUS
    <3>3. a \in KeyEvents /\ e \in KeyEvents BY <3>2, <2>3, <2>5 DEF Ends, Kinds
    <3>4. a.id <= presses[a.control] /\ e.id <= presses[e.control] BY <3>2, <2>5, <1>5 DEF Ends, Event
    <3>5. events' = <<a, e>> \/ events' = <<e>>
      <4>1. <<a>> \o <<e>> = <<a, e>> /\ <<>> \o <<e>> = <<e>> BY <3>3, OneThenOne
      <4>2. QED BY <4>1, <3>1, <3>2 DEF EndsAs
    <3>6. CASE events' = <<e>> BY <3>3, <3>4, <3>6
    <3>7. CASE events' = <<a, e>> BY <3>3, <3>4, <3>7
    <3>8. QED BY <3>5, <3>6, <3>7
  <2>6. QED BY <2>1, <2>2, <2>4, <2>5, <1>1
<1>p. pressed' \in [DOMAIN pressed' -> KnownPress]
  <2>1. pressed' = [c \in DOMAIN pressed' |-> pressed'[c]]
    <3>1. CASE Drops(d, r) BY <3>1 DEF Drops, Without, Restrict
    <3>2. CASE Overlooks(d, r) BY <3>2, <1>t DEF Overlooks, ButtonsTyped
    <3>3. CASE Begins(d, r) BY <3>3 DEF Begins, With
    <3>4. CASE Ends(d, r) BY <3>4 DEF Ends, Without, Restrict
    <3>5. QED BY <3>1, <3>2, <3>3, <3>4, <1>1
  <2>2. QED BY <2>1, <1>6
<1>9. ButtonsTyped' BY <1>2, <1>3, <1>4, <1>6, <1>p, <1>7, <1>8, <1>t DEF ButtonsTyped
<1>10. RouterTyped' BY <1>2 DEF ButtonsInv, RouterTyped, RestsInTheDark
<1>11. ReadingOK' BY <1>2 DEF ButtonsInv, ReadingOK
<1>12. QED BY <1>9, <1>10, <1>11 DEF TypesKept
LEMMA AgeTyped ==
  ASSUME ButtonsAssumption, ButtonsInv, Age PROVE TypesKept
<1>t. ButtonsTyped BY DEF ButtonsInv
<1>1. PICK S, T, R : Ages(S, T, R) BY <1>t, AgeAges
<1>2. UNCHANGED <<clock, down, presses, lines, raw, router, mode, lit, resume, given, begun, cut, quick>>
      /\ raw = NoRecords /\ reading' = FALSE /\ reading
  BY DEF Age, ghosts, uiVars
<1>3. Presses' = Presses BY <1>2 DEF Presses
<1>4. S \subseteq DOMAIN pressed /\ T \subseteq DOMAIN pressed /\ R \subseteq DOMAIN pressed
      /\ S \cap T = {} /\ S \cap R = {} /\ T \cap R = {}
  BY <1>1 DEF Ages
<1>5. PICK q : q = events' OBVIOUS
<1>6. Tells(q, S, T, R) BY <1>1, <1>4, <1>5, <1>t, TellsAll DEF Ages
<1>7. events' \in Seq(KeyEvents) /\ \A i \in DOMAIN events' : events'[i].id <= presses[events'[i].control]
  <2>1. \A c \in DOMAIN pressed : pressed[c].id <= presses[c] BY DEF ButtonsInv, DevicesInv, KnownOK
  <2>2. \A i \in DOMAIN q : q[i].control \in DOMAIN pressed /\ q[i].id = pressed[q[i].control].id
    BY <1>4, <1>6 DEF Tells
  <2>3. QED BY <1>5, <1>6, <2>1, <2>2 DEF Tells
<1>8. DOMAIN pressed' \subseteq Controls /\ \A c \in DOMAIN pressed' : pressed'[c] \in KnownPress
  <2>1. DOMAIN pressed \subseteq Controls /\ \A c \in DOMAIN pressed : pressed[c] \in KnownPress BY <1>t DEF ButtonsTyped
  <2>2. DOMAIN pressed' \subseteq DOMAIN pressed BY <1>1 DEF Ages
  <2>3. ASSUME NEW c \in DOMAIN pressed' PROVE pressed'[c] \in KnownPress
    <3>1. pressed'[c] = IF c \in T THEN [pressed[c] EXCEPT !.long = TRUE] ELSE pressed[c] BY <1>1, <2>3 DEF Ages
    <3>2. pressed[c] \in KnownPress BY <2>1, <2>2, <2>3
    <3>3. QED BY <3>1, <3>2 DEF KnownPress
  <2>4. QED BY <2>1, <2>2, <2>3
<1>p. pressed' \in [DOMAIN pressed' -> KnownPress]
  <2>1. pressed' = [c \in DOMAIN pressed' |-> pressed'[c]] BY DEF Age
  <2>2. QED BY <2>1, <1>8
<1>9. fds' \in [Devices -> {"open", "dead", "closed"}] BY <1>1, <1>t DEF Ages, ButtonsTyped
<1>10. ButtonsTyped' BY <1>2, <1>3, <1>7, <1>8, <1>p, <1>9, <1>t DEF ButtonsTyped
<1>11. RouterTyped' BY <1>2 DEF ButtonsInv, RouterTyped, RestsInTheDark
<1>12. ReadingOK' BY <1>2 DEF ButtonsInv, ReadingOK
<1>13. QED BY <1>10, <1>11, <1>12 DEF TypesKept

LEMMA ResumedTyped ==
  ASSUME ButtonsAssumption, ButtonsInv, Resumed PROVE TypesKept
<1>t. ButtonsTyped /\ raw = NoRecords /\ clock \in Nat /\ presses \in [Controls -> Nat]
  BY DEF ButtonsInv, ButtonsTyped, ReadingOK, Resumed, Rests
<1>1. UNCHANGED <<clock, down, presses, reading, raw, events, mode, lit, given, begun, quick>> /\ ~resume'
      /\ ~reading /\ raw = NoRecords
  BY <1>t DEF Resumed, Rests
<1>2. Presses' = Presses BY <1>1 DEF Presses
<1>3. lines' \in [Devices -> Seq(KeyRecords)] /\ fds' \in [Devices -> {"open", "dead", "closed"}]
  BY DEF Resumed, NoRecords
<1>4. cut' \subseteq Presses \cup ({"all"} \X Nat) BY <1>t, LosingTyped DEF Resumed, ButtonsTyped, Devices
<1>5. DOMAIN pressed' \subseteq Controls /\ \A c \in DOMAIN pressed' : pressed'[c] \in KnownPress
  <2>1. CASE "Power" \in DOMAIN down
    <3>1. "Power" \in Controls /\ presses["Power"] \in Nat \ {0} BY <2>1, <1>t DEF ButtonsTyped
    <3>2. Begun(clock, presses["Power"], TRUE) \in KnownPress BY <3>1, <1>t DEF Begun, KnownPress
    <3>3. QED BY <2>1, <3>1, <3>2 DEF Resumed, With, NoPress
  <2>2. CASE "Power" \notin DOMAIN down BY <2>2 DEF Resumed, NoPress
  <2>3. QED BY <2>1, <2>2
<1>p. pressed' \in [DOMAIN pressed' -> KnownPress]
  <2>1. pressed' = [c \in DOMAIN pressed' |-> pressed'[c]] BY DEF Resumed, With, NoPress
  <2>2. QED BY <2>1, <1>5
<1>6. ButtonsTyped' BY <1>1, <1>2, <1>3, <1>4, <1>5, <1>p, <1>t DEF ButtonsTyped
<1>7. RouterTyped' BY <1>1 DEF ButtonsInv, RouterTyped, RestsInTheDark, Resumed, NoRouter
<1>8. ReadingOK' BY <1>1 DEF ReadingOK
<1>9. QED BY <1>6, <1>7, <1>8 DEF TypesKept
-----------------------------------------------------------------------------
(* What is routed. *)
Calm == Down \/ Up \/ Overflow \/ Rebind \/ Time \/ Read \/ Completes \/ Interface \/ Prepare \/ Restore
LEMMA CalmRouting ==
  ASSUME ButtonsAssumption, ButtonsInv, Calm PROVE RoutingInv' /\ HoldOK'
<1>1. /\ UNCHANGED <<events, pressed, router, mode, given, begun>> /\ events = <<>>
      /\ Awake' => Awake
  <2>1. CASE Down BY <2>1 DEF Down, Rests, loopVars, uiVars, Awake
  <2>2. CASE Up BY <2>2 DEF Up, Rests, loopVars, uiVars, Awake
  <2>3. CASE Overflow BY <2>3 DEF Overflow, Rests, loopVars, uiVars, Awake
  <2>4. CASE Rebind BY <2>4 DEF Rebind, Rests, loopVars, uiVars, Awake
  <2>5. CASE Time BY <2>5 DEF Time, Rests, loopVars, uiVars, ghosts, Awake
  <2>6. CASE Read BY <2>6 DEF Read, Rests, uiVars, ghosts, Awake
  <2>7. CASE Completes BY <2>7 DEF Completes, Rests, loopVars, ghosts, Awake
  <2>8. CASE Interface BY <2>8 DEF Interface, Rests, loopVars, ghosts, Awake
  <2>9. CASE Prepare BY <2>9 DEF Prepare, Rests, loopVars, ghosts, Awake
  <2>10. CASE Restore BY <2>10 DEF Restore, Rests, loopVars, ghosts, Awake
  <2>11. QED BY <2>1, <2>2, <2>3, <2>4, <2>5, <2>6, <2>7, <2>8, <2>9, <2>10 DEF Calm
<1>2. \A i \in DOMAIN events' : FALSE BY <1>1
<1>3. (\A c, kinds : Has(c, kinds)' <=> Has(c, kinds)) /\ (\A c : Kept(c)' <=> Kept(c))
  BY <1>1 DEF Has, Kept
<1>4. \A c \in DOMAIN pressed : RouterKnows(c) => RouterKnows(c)'
  BY <1>1 DEF RouterKnows, Noted, Resting, Gave, Has, RestsInTheDark
<1>5. RouterOK => RouterOK' BY <1>1, <1>2, <1>3, <1>4 DEF RouterOK
<1>6. ShortIsShort' /\ DarkIsDark'
  BY <1>1 DEF ButtonsInv, RoutingInv, ShortIsShort, DarkIsDark, Gave, RestsInTheDark
<1>7. RoutingInv' BY <1>1, <1>2, <1>5, <1>6 DEF ButtonsInv, RoutingInv
<1>8. HoldOK'
  <2>0. HoldIsPressed /\ hold # 0 => HoldIsPressed' BY <1>1 DEF HoldIsPressed
  <2>1. CASE Completes BY <2>1 DEF Completes, HoldOK
  <2>2. CASE ~Completes
    <3>1. SUFFICES ASSUME ~WakeFails, hold' # 0
          PROVE  Awake' /\ lit' /\ "Power" \in router.long /\ HoldIsPressed'
      BY <1>1 DEF HoldOK
    <3>2. hold # 0
      BY <2>2, <3>1 DEF Calm, Down, Up, Overflow, Rebind, Time, Read, Interface, Prepare, Restore, uiVars
    <3>3. Awake /\ lit /\ "Power" \in router.long /\ HoldIsPressed BY <3>1, <3>2 DEF ButtonsInv, HoldOK
    <3>4. Awake' /\ lit'
      <4>1. CASE Down \/ Up \/ Overflow \/ Rebind \/ Time \/ Read
        <5>1. UNCHANGED <<lit, sleepPrepared, resume>> BY <4>1 DEF Down, Up, Overflow, Rebind, Time, Read, uiVars
        <5>2. QED BY <5>1, <3>3 DEF Awake
      <4>2. CASE Interface BY <4>2, <3>2, <3>3 DEF Interface, Awake
      <4>3. CASE Prepare BY <4>3, <3>3 DEF Prepare, Awake
      <4>4. CASE Restore BY <4>4, <3>3 DEF Restore, Awake
      <4>5. QED BY <4>1, <4>2, <4>3, <4>4, <2>2 DEF Calm
    <3>5. QED BY <2>0, <3>2, <3>3, <3>4
  <2>3. QED BY <2>1, <2>2
<1>9. QED BY <1>7, <1>8
LEMMA ResumedRouting ==
  ASSUME ButtonsAssumption, ButtonsInv, Resumed PROVE RoutingInv' /\ HoldOK'
<1>1. /\ UNCHANGED <<events, mode, given, begun, hold>> /\ events = <<>> /\ router' = NoRouter /\ resume
  BY DEF Resumed, Rests
<1>2. \A i \in DOMAIN events' : FALSE BY <1>1
<1>3. \A c \in DOMAIN pressed' : c = "Power" /\ pressed'[c] = Begun(clock, presses["Power"], TRUE)
  BY DEF Resumed, With, NoPress
<1>4. RouterOK'
  <2>1. \A c \in Controls : ~Kept(c)' BY <1>1 DEF Kept, NoRouter
  <2>2. router'.keys \cap (router'.long \cup router'.dark) = {} BY <1>1 DEF NoRouter
  <2>3. \A c \in DOMAIN pressed' : RouterKnows(c)' BY <1>3 DEF RouterKnows, Begun
  <2>4. QED BY <1>2, <2>1, <2>2, <2>3 DEF RouterOK
<1>5. ShortIsShort' /\ DarkIsDark'
  BY <1>1 DEF ButtonsInv, RoutingInv, ShortIsShort, DarkIsDark, Gave, RestsInTheDark
<1>6. RoutingInv' BY <1>2, <1>4, <1>5 DEF RoutingInv
<1>7. HoldOK' BY <1>1 DEF ButtonsInv, HoldOK, Awake
<1>8. QED BY <1>6, <1>7
LEMMA SpentIsFinished ==
  ASSUME SpentOK, NEW c, NEW id, Spent(c, id) PROVE Finished(c, id) /\ <<c, id>> \notin cut
<1>1. PICK x : <<c, id, x>> \in given BY DEF Spent, Gave
<1>2. PICK g \in given : g = <<c, id, x>> BY <1>1
<1>3. g[1] = c /\ g[2] = id BY <1>2
<1>4. QED BY <1>3 DEF SpentOK
LEMMA PressedIsUnspent ==
  ASSUME ButtonsTyped, SpentOK, NEW c \in DOMAIN pressed PROVE ~Spent(c, pressed[c].id)
<1>1. pressed[c].id \in Nat BY DEF ButtonsTyped, KnownPress
<1>2. SUFFICES ASSUME Spent(c, pressed[c].id) PROVE FALSE OBVIOUS
<1>3. PICK id : id = pressed[c].id OBVIOUS
<1>4. Finished(c, id) BY <1>2, <1>3, SpentIsFinished
<1>5. id < id BY <1>3, <1>4 DEF Finished
<1>6. QED BY <1>1, <1>3, <1>5

LEMMA TellsRouting ==
  ASSUME ButtonsAssumption, ButtonsInv, events = <<>>,
         NEW S \in SUBSET DOMAIN pressed, NEW T \in SUBSET DOMAIN pressed, NEW R \in SUBSET DOMAIN pressed,
         S \cap T = {}, S \cap R = {}, T \cap R = {}, Tells(events', S, T, R),
         DOMAIN pressed' = DOMAIN pressed \ S,
         \A c \in DOMAIN pressed' :
           pressed'[c].id = pressed[c].id /\ pressed'[c].resumed = pressed[c].resumed
           /\ (pressed'[c].long <=> c \in T \/ pressed[c].long),
         \A c \in T : Old(c, pressed[c].id), \A c \in R : pressed[c].long,
         UNCHANGED <<clock, down, presses, quick, router, mode, given, begun, hold, lit, sleepPrepared, resume>>
  PROVE  RoutingInv' /\ HoldOK'
<1>t. ButtonsTyped /\ SpentOK BY DEF ButtonsInv
<1>1. PICK q : q = events' OBVIOUS
<1>2. Tells(q, S, T, R) BY <1>1
<1>3. ASSUME NEW i \in DOMAIN q
      PROVE  /\ q[i].control \in S \cup T \cup R /\ q[i].id = pressed[q[i].control].id
             /\ q[i].kind \in {"Cancel", "LongPress", "Repeat"} /\ q[i].control \in Controls
             /\ (q[i].kind = "Cancel" <=> q[i].control \in S) /\ (q[i].kind = "LongPress" <=> q[i].control \in T)
             /\ (q[i].kind = "Repeat" <=> q[i].control \in R)
  BY <1>2, <1>t DEF Tells, ButtonsTyped
<1>4. \A c, id : (Spent(c, id)' <=> Spent(c, id)) /\ (Old(c, id)' <=> Old(c, id)) /\ (Unheard(c, id)' <=> Unheard(c, id))
  BY DEF Spent, Gave, Old, Unheard
<1>5. ASSUME NEW i \in DOMAIN q PROVE EventOK(i)'
  <2>1. PICK c, id : c = q[i].control /\ id = q[i].id OBVIOUS
  <2>2. c \in DOMAIN pressed /\ id = pressed[c].id BY <2>1, <1>3
  <2>3. ~Spent(c, id)' BY <2>2, <1>4, <1>t, PressedIsUnspent
  <2>4. q[i].kind = "LongPress" => Old(c, id)' /\ c \in DOMAIN pressed' /\ pressed'[c].id = id /\ pressed'[c].long
    BY <2>1, <2>2, <1>3, <1>4
  <2>5. q[i].kind = "Repeat" => c \in DOMAIN pressed' /\ pressed'[c].id = id /\ pressed'[c].long
    BY <2>1, <2>2, <1>3
  <2>6. q[i].kind = "Cancel" => c \notin DOMAIN pressed' BY <2>1, <1>3
  <2>7. \A j \in DOMAIN q : i < j => q[j].control # c
    <3>1. SUFFICES ASSUME NEW j \in DOMAIN q, i < j, q[j].control = c PROVE FALSE OBVIOUS
    <3>2. i = j BY <3>1, <2>1, <1>2 DEF Tells
    <3>3. i \in Nat BY <1>2, LenProperties DEF Tells
    <3>4. QED BY <3>1, <3>2, <3>3
  <2>8. q[i].kind \notin {"Press", "Release"} BY <1>3
  <2>9. QED BY <1>1, <2>1, <2>3, <2>4, <2>5, <2>6, <2>7, <2>8 DEF EventOK
<1>6. ASSUME NEW c \in S \cup T \cup R PROVE \E i \in DOMAIN q : q[i].control = c BY <1>2 DEF Tells
<1>7. \A c \in S : Has(c, {"Release", "Cancel"})' BY <1>1, <1>3, <1>6 DEF Has
<1>8. \A c \in T : Has(c, {"LongPress"})' BY <1>1, <1>3, <1>6 DEF Has
<1>9. \A c : ~Has(c, {"Press"})' /\ (Has(c, {"LongPress"})' => c \in T) BY <1>1, <1>3 DEF Has
<1>10. \A c : Kept(c)' <=> Kept(c) BY DEF Kept
<1>11. \A i \in DOMAIN events : FALSE OBVIOUS
<1>12. ASSUME RouterOK PROVE RouterOK'
  <2>1. router'.keys \cap (router'.long \cup router'.dark) = {} BY <1>12 DEF RouterOK
  <2>2. \A c \in Controls : Kept(c)' => c \in DOMAIN pressed' \/ Has(c, {"Release", "Cancel"})'
    <3>1. SUFFICES ASSUME NEW c \in Controls, Kept(c) PROVE c \in DOMAIN pressed' \/ c \in S BY <1>7, <1>10
    <3>2. c \in DOMAIN pressed BY <3>1, <1>11, <1>12 DEF RouterOK, Has
    <3>3. QED BY <3>2
  <2>3. ASSUME NEW c \in DOMAIN pressed' PROVE RouterKnows(c)'
    <3>1. RouterKnows(c) /\ c \in DOMAIN pressed BY <2>3, <1>12 DEF RouterOK
    <3>2. ~Has(c, {"LongPress"}) BY <1>11 DEF Has
    <3>3. ~Has(c, {"LongPress"})' => (pressed'[c].long <=> pressed[c].long) BY <1>8, <2>3
    <3>4. (Noted(c)' <=> Noted(c)) /\ (Resting(c)' <=> Resting(c)) /\ (RestsInTheDark(c)' <=> RestsInTheDark(c))
      BY DEF Noted, Resting, RestsInTheDark
    <3>5. PICK p : p = pressed'[c] OBVIOUS
    <3>6. p.id = pressed[c].id /\ (p.resumed <=> pressed[c].resumed) BY <2>3, <3>5
    <3>7. p.long /\ ~Has(c, {"LongPress"})' => Noted(c)' BY <3>1, <3>2, <3>3, <3>4, <3>5 DEF RouterKnows
    <3>8. ~p.resumed /\ (Gave(c, p.id, "hold") \/ Gave(c, p.id, "arrow")) => Noted(c)'
      BY <3>1, <3>2, <3>4, <3>6 DEF RouterKnows
    <3>9. ~p.resumed /\ <<c, p.id>> \in begun =>
            (c = "Power" => router.power = "dark") /\ (RestsInTheDark(c) => Resting(c)')
      BY <3>1, <3>4, <3>6 DEF RouterKnows
    <3>10. QED BY <3>4, <3>5, <3>7, <3>8, <3>9 DEF RouterKnows, Gave
  <2>4. ASSUME NEW i \in DOMAIN q PROVE RouterExpects(i)'
    <3>1. PICK c, id : c = q[i].control /\ id = q[i].id OBVIOUS
    <3>2. c \in DOMAIN pressed /\ id = pressed[c].id /\ c \in Controls BY <3>1, <1>3
    <3>3. q[i].kind # "Release" BY <1>3
    <3>4. q[i].kind # "Cancel" /\ <<c, id>> \in begun /\ RestsInTheDark(c) => Resting(c)
      <4>1. SUFFICES ASSUME <<c, id>> \in begun, RestsInTheDark(c) PROVE Resting(c) OBVIOUS
      <4>2. c # "Power" BY <4>1, <1>t DEF RestsInTheDark, ButtonsTyped
      <4>3. ~pressed[c].resumed BY <3>2, <4>2 DEF ButtonsInv, DevicesInv, KnownOK
      <4>4. RouterKnows(c) BY <3>2, <1>12 DEF RouterOK
      <4>5. QED BY <4>1, <4>3, <4>4, <3>2 DEF RouterKnows
    <3>5. (Resting(c)' <=> Resting(c)) /\ (RestsInTheDark(c)' <=> RestsInTheDark(c)) BY DEF Resting, RestsInTheDark
    <3>6. QED BY <1>1, <3>1, <3>3, <3>4, <3>5 DEF RouterExpects
  <2>5. QED BY <1>1, <1>9, <2>1, <2>2, <2>3, <2>4 DEF RouterOK
<1>13. Awake' <=> Awake BY DEF Awake
<1>14. ShortIsShort' /\ DarkIsDark'
  BY DEF ButtonsInv, RoutingInv, ShortIsShort, DarkIsDark, Gave, RestsInTheDark
<1>15. RoutingInv' BY <1>1, <1>5, <1>12, <1>13, <1>14 DEF ButtonsInv, RoutingInv
<1>16. HoldOK'
  <2>1. SUFFICES ASSUME ~WakeFails, hold # 0 PROVE Awake /\ lit /\ "Power" \in router.long /\ HoldIsPressed'
    BY <1>13 DEF HoldOK
  <2>2. Awake /\ lit /\ "Power" \in router.long /\ HoldIsPressed BY <2>1 DEF ButtonsInv, HoldOK
  <2>3. "Power" \in DOMAIN pressed /\ pressed["Power"].long BY <2>1, <2>2, <1>11 DEF HoldIsPressed
  <2>4. CASE "Power" \in S
    <3>1. PICK i \in DOMAIN q : q[i].control = "Power" BY <2>4, <1>6
    <3>2. q[i].kind = "Cancel" BY <2>4, <3>1, <1>3
    <3>3. QED BY <2>2, <3>1, <3>2, <1>1 DEF HoldIsPressed
  <2>5. CASE "Power" \notin S BY <2>2, <2>3, <2>5 DEF HoldIsPressed
  <2>6. QED BY <2>4, <2>5
<1>17. QED BY <1>15, <1>16
LEMMA AgeRouting ==
  ASSUME ButtonsAssumption, ButtonsInv, Age PROVE RoutingInv' /\ HoldOK'
<1>t. ButtonsTyped BY DEF ButtonsInv
<1>1. PICK S, T, R : Ages(S, T, R) BY <1>t, AgeAges
<1>2. /\ UNCHANGED <<clock, down, presses, quick, router, mode, given, begun, hold, lit, sleepPrepared, resume>>
      /\ events = <<>>
  BY DEF Age, uiVars, ghosts
<1>3. /\ S \in SUBSET DOMAIN pressed /\ T \in SUBSET DOMAIN pressed /\ R \in SUBSET DOMAIN pressed
      /\ S \cap T = {} /\ S \cap R = {} /\ T \cap R = {}
      /\ DOMAIN pressed' = DOMAIN pressed \ S
  BY <1>1 DEF Ages
<1>4. Tells(events', S, T, R)
  <2>1. Tells(Events("Cancel", S) \o Events("LongPress", T) \o Events("Repeat", R), S, T, R) BY <1>3, <1>t, TellsAll
  <2>2. QED BY <2>1, <1>1 DEF Ages
<1>5. ASSUME NEW c \in DOMAIN pressed'
      PROVE  /\ pressed'[c].id = pressed[c].id /\ pressed'[c].resumed = pressed[c].resumed
             /\ (pressed'[c].long <=> c \in T \/ pressed[c].long)
  <2>1. c \in DOMAIN pressed BY <1>3, <1>5
  <2>2. pressed[c] \in KnownPress BY <2>1, <1>t DEF ButtonsTyped
  <2>3. pressed'[c] = IF c \in T THEN [pressed[c] EXCEPT !.long = TRUE] ELSE pressed[c] BY <1>1, <1>5 DEF Ages
  <2>4. QED BY <2>2, <2>3 DEF KnownPress
<1>6. \A c \in T : Old(c, pressed[c].id) BY <1>1, AgeOld
<1>7. \A c \in R : pressed[c].long BY <1>1 DEF Ages
<1>8. QED BY <1>2, <1>3, <1>4, <1>5, <1>6, <1>7, TellsRouting
LEMMA BeginsRouting ==
  ASSUME ButtonsAssumption, ButtonsInv, NEW d \in Devices, NEW r \in KeyRecords, Takes(d, r), Begins(d, r),
         UNCHANGED <<clock, down, presses, quick, router, mode, given, begun, hold, lit, sleepPrepared, resume>>
  PROVE  RoutingInv' /\ HoldOK'
<1>t. ButtonsTyped BY DEF ButtonsInv
<1>1. PICK c, id : c = r.control /\ id = r.id OBVIOUS
<1>2. c \in Controls /\ events = <<>> BY <1>1 DEF Begins, Takes, Presses
<1>3. /\ c \notin DOMAIN pressed /\ Unheard(c, id) /\ events' = <<Event("Press", c, id)>>
      /\ pressed' = With(pressed, c, Begun(r.at, id, FALSE))
  BY <1>1 DEF Begins
<1>4. PICK q : q = events' OBVIOUS
<1>5. /\ \A i \in DOMAIN q : i = 1 /\ q[i].control = c /\ q[i].id = id /\ q[i].kind = "Press"
      /\ 1 \in DOMAIN q
  BY <1>3, <1>4 DEF Event
<1>6. /\ DOMAIN pressed' = DOMAIN pressed \cup {c} /\ \A b \in DOMAIN pressed : pressed'[b] = pressed[b]
      /\ pressed'[c].id = id /\ ~pressed'[c].long
  BY <1>3 DEF With, Begun
<1>7. ~Gave(c, id, "short") /\ ~Gave(c, id, "sleep") /\ ~Gave(c, id, "wake") /\ ~Gave(c, id, "hold") /\ ~Gave(c, id, "arrow")
  <2>1. ASSUME NEW x, Gave(c, id, x) PROVE FALSE
    <3>1. PICK g \in given : g = <<c, id, x>> BY <2>1 DEF Gave
    <3>2. g[1] = c /\ g[2] = id BY <3>1
    <3>3. QED BY <3>2, <1>3 DEF Unheard
  <2>2. QED BY <2>1
<1>8. ~Spent(c, id) /\ <<c, id>> \notin begun BY <1>3, <1>7 DEF Spent, Unheard
<1>9. (Spent(c, id)' <=> Spent(c, id)) /\ (Unheard(c, id)' <=> Unheard(c, id)) BY DEF Spent, Gave, Unheard
<1>10. ASSUME NEW i \in DOMAIN q PROVE EventOK(i)'
  <2>1. \A j \in DOMAIN q : ~(i < j) BY <1>5
  <2>2. PICK p : p = pressed'[c] OBVIOUS
  <2>3. QED BY <2>1, <2>2, <1>3, <1>4, <1>5, <1>6, <1>8, <1>9 DEF EventOK
<1>11. \A b, kinds : Has(b, kinds)' => b = c BY <1>4, <1>5 DEF Has
<1>12. \A i \in DOMAIN events : FALSE BY <1>2
<1>13. \A b, kinds : ~Has(b, kinds) BY <1>12 DEF Has
<1>14. ~Has(c, {"LongPress"})' BY <1>4, <1>5 DEF Has
<1>15. ASSUME RouterOK PROVE RouterOK'
  <2>1. router'.keys \cap (router'.long \cup router'.dark) = {} BY <1>15 DEF RouterOK
  <2>2. \A b \in Controls : Kept(b) => b \in DOMAIN pressed BY <1>13, <1>15 DEF RouterOK
  <2>3. \A b : Kept(b)' <=> Kept(b) BY DEF Kept
  <2>4. \A b \in Controls : Has(b, {"Press"})' => ~Kept(b)' BY <2>2, <2>3, <1>3, <1>11
  <2>5. ASSUME NEW b \in DOMAIN pressed' PROVE RouterKnows(b)'
    <3>1. CASE b = c
      <4>1. PICK p : p = pressed'[c] OBVIOUS
      <4>2. p.id = id /\ ~p.long BY <4>1, <1>6
      <4>3. ~Gave(c, p.id, "hold") /\ ~Gave(c, p.id, "arrow") /\ <<c, p.id>> \notin begun BY <4>2, <1>7, <1>8
      <4>4. QED BY <3>1, <4>1, <4>2, <4>3 DEF RouterKnows, Gave
    <3>2. CASE b # c
      <4>1. RouterKnows(b) /\ b \in DOMAIN pressed BY <3>2, <2>5, <1>6, <1>15 DEF RouterOK
      <4>2. PICK p : p = pressed'[b] OBVIOUS
      <4>3. p = pressed[b] BY <4>1, <4>2, <1>6
      <4>4. (Has(b, {"LongPress"})' <=> Has(b, {"LongPress"})) BY <3>2, <1>11, <1>13
      <4>5. (Noted(b)' <=> Noted(b)) /\ (Resting(b)' <=> Resting(b)) /\ (RestsInTheDark(b)' <=> RestsInTheDark(b))
        BY DEF Noted, Resting, RestsInTheDark
      <4>6. QED BY <4>1, <4>2, <4>3, <4>4, <4>5 DEF RouterKnows, Gave
    <3>3. QED BY <3>1, <3>2
  <2>6. ASSUME NEW i \in DOMAIN q PROVE RouterExpects(i)' BY <1>4, <1>5, <1>8 DEF RouterExpects
  <2>7. QED BY <1>4, <1>6, <2>1, <2>2, <2>3, <2>4, <2>5, <2>6 DEF RouterOK
<1>16. Awake' <=> Awake BY DEF Awake
<1>17. ShortIsShort' /\ DarkIsDark'
  BY DEF ButtonsInv, RoutingInv, ShortIsShort, DarkIsDark, Gave, RestsInTheDark
<1>18. RoutingInv' BY <1>4, <1>10, <1>15, <1>16, <1>17 DEF ButtonsInv, RoutingInv
<1>19. HoldOK'
  <2>1. SUFFICES ASSUME ~WakeFails, hold # 0 PROVE Awake /\ lit /\ "Power" \in router.long /\ HoldIsPressed'
    BY <1>16 DEF HoldOK
  <2>2. Awake /\ lit /\ "Power" \in router.long /\ HoldIsPressed BY <2>1 DEF ButtonsInv, HoldOK
  <2>3. "Power" \in DOMAIN pressed /\ pressed["Power"].long BY <2>1, <2>2, <1>12 DEF HoldIsPressed
  <2>4. "Power" \in DOMAIN pressed' /\ pressed'["Power"].long BY <2>3, <1>6
  <2>5. QED BY <2>2, <2>4 DEF HoldIsPressed
<1>20. QED BY <1>18, <1>19
LEMMA EndsRouting ==
  ASSUME ButtonsAssumption, ButtonsInv, NEW d \in Devices, NEW r \in KeyRecords, Takes(d, r), Ends(d, r),
         UNCHANGED <<clock, down, presses, quick, router, mode, given, begun, hold, lit, sleepPrepared, resume>>
  PROVE  RoutingInv' /\ HoldOK'
<1>t. ButtonsTyped /\ SpentOK BY DEF ButtonsInv
<1>1. PICK c, id : c = r.control /\ id = r.id OBVIOUS
<1>2. r.kind = "up" BY DEF Ends
<1>3. c \in Controls /\ id \in Nat /\ DeviceOf(c) = d /\ events = <<>> /\ presses[c] \in Nat
  BY <1>1, <1>2, <1>t DEF Takes, Presses, ButtonsTyped
<1>4. /\ pressed' = Without({c}) /\ UNCHANGED cut
      /\ c \in DOMAIN down => id < presses[c]
      /\ c \in DOMAIN pressed =>
           /\ pressed[c].id = id
           /\ <<c, id>> \in quick => r.at - pressed[c].since < Long
           /\ <<c, id>> \in cut => pressed[c].resumed
  BY <1>1 DEF Ends
<1>5. PICK aged \in BOOLEAN, kind \in {"Release", "Cancel"} : EndsAs(r, aged, kind) BY DEF Ends
<1>6. /\ events' = (IF aged THEN <<Event("LongPress", c, id)>> ELSE <<>>) \o <<Event(kind, c, id)>>
      /\ aged => c \in DOMAIN pressed /\ ~pressed[c].long /\ r.at - pressed[c].since >= Long /\ kind = "Release"
      /\ kind = "Release" => c \in DOMAIN pressed /\ (pressed[c].resumed => pressed[c].long \/ aged)
  BY <1>1, <1>5 DEF EndsAs
<1>7. DOMAIN pressed' = DOMAIN pressed \ {c} /\ \A b \in DOMAIN pressed' : pressed'[b] = pressed[b]
  BY <1>4, RestrictIs DEF Without
<1>8. PICK q : q = events' OBVIOUS
<1>9. \/ aged /\ q = <<Event("LongPress", c, id), Event("Release", c, id)>> /\ kind = "Release"
      \/ ~aged /\ q = <<Event(kind, c, id)>>
  <2>1. PICK a, e : a = Event("LongPress", c, id) /\ e = Event(kind, c, id) OBVIOUS
  <2>2. PICK E : E = {a, e} OBVIOUS
  <2>3. <<a>> \o <<e>> = <<a, e>> /\ <<>> \o <<e>> = <<e>> BY <2>2, OneThenOne
  <2>4. QED BY <2>1, <2>3, <1>6, <1>8
<1>10. ASSUME NEW i \in DOMAIN q
       PROVE  /\ q[i].control = c /\ q[i].id = id /\ i \in {1, 2}
              /\ q[i].kind = "LongPress" => aged /\ i = 1 /\ 2 \in DOMAIN q /\ q[2] = Event("Release", c, id)
              /\ q[i].kind # "LongPress" => q[i].kind = kind
              /\ i = 1 /\ 2 \in DOMAIN q => q[1].kind = "LongPress" /\ q[2].kind = "Release"
  <2>1. CASE aged BY <2>1, <1>9, <1>10 DEF Event
  <2>2. CASE ~aged BY <2>2, <1>9, <1>10, <1>5 DEF Event
  <2>3. QED BY <2>1, <2>2
<1>11. /\ \E i \in DOMAIN q : q[i].control = c /\ q[i].kind = kind
       /\ aged => \E i \in DOMAIN q : q[i].control = c /\ q[i].kind = "LongPress"
  <2>1. CASE aged
    <3>1. 1 \in DOMAIN q /\ 2 \in DOMAIN q /\ q[1] = Event("LongPress", c, id) /\ q[2] = Event(kind, c, id) BY <2>1, <1>9
    <3>2. QED BY <3>1 DEF Event
  <2>2. CASE ~aged
    <3>1. 1 \in DOMAIN q /\ q[1] = Event(kind, c, id) BY <2>2, <1>9
    <3>2. QED BY <2>2, <3>1 DEF Event
  <2>3. QED BY <2>1, <2>2
<1>12. PICK s : s = Stream(d) OBVIOUS
<1>13. /\ s \in Seq(KeyRecords) /\ s # <<>> /\ s[1] = r /\ Stream(d)' = Tail(s) /\ StreamOK(d, s)
  BY <1>12, <1>t, StreamIs DEF Takes, ButtonsInv, DevicesInv
<1>14. ~Spent(c, id)
  <2>1. CASE c \in DOMAIN pressed BY <2>1, <1>4, <1>t, PressedIsUnspent
  <2>2. CASE c \notin DOMAIN pressed
    <3>1. SUFFICES ASSUME Spent(c, id) PROVE FALSE OBVIOUS
    <3>2. Finished(c, id) BY <3>1, <1>t, SpentIsFinished
    <3>3. 1 \in DOMAIN s BY <1>13, Shortened
    <3>4. id < id BY <3>2, <3>3, <1>1, <1>3, <1>12, <1>13 DEF Finished
    <3>5. QED BY <3>4, <1>3
  <2>3. QED BY <2>1, <2>2
<1>15. Finished(c, id)'
  <2>1. PICK t : t = Tail(s) OBVIOUS
  <2>2. /\ Len(s) \in Nat \ {0} /\ \A i \in 1 .. Len(s) - 1 : t[i] = s[i + 1]
        /\ DOMAIN s = 1 .. Len(s) /\ DOMAIN t = 1 .. Len(s) - 1
    BY <2>1, <1>13, Shortened
  <2>3. ASSUME NEW i \in DOMAIN t, t[i].control = c PROVE id < t[i].id
    <3>1. 1 \in DOMAIN s /\ i + 1 \in DOMAIN s /\ 1 < i + 1 /\ t[i] = s[i + 1] BY <2>2
    <3>2. s[1].control = s[i + 1].control BY <3>1, <2>3, <1>1, <1>13
    <3>3. s[1].id < s[i + 1].id \/ s[1].kind = "down" BY <3>1, <3>2, <1>13 DEF StreamOK, InTurn
    <3>4. QED BY <3>1, <3>3, <1>1, <1>2, <1>13
  <2>4. c \in DOMAIN down' => id < presses'[c] BY <1>4
  <2>5. c \notin DOMAIN pressed' BY <1>7
  <2>6. Stream(DeviceOf(c))' = t BY <2>1, <1>3, <1>13
  <2>7. QED BY <2>3, <2>4, <2>5, <2>6 DEF Finished
<1>16. aged => Old(c, id)
  <2>1. SUFFICES ASSUME aged PROVE Old(c, id) OBVIOUS
  <2>2. pressed[c].since \in Nat /\ r.at \in Nat /\ Long \in Nat
    BY <2>1, <1>6, <1>t DEF ButtonsTyped, KnownPress, KeyRecords, ButtonsAssumption
  <2>3. <<c, id>> \notin quick BY <2>1, <2>2, <1>4, <1>6
  <2>4. ~(c \in DOMAIN down /\ presses[c] = id) BY <1>3, <1>4
  <2>5. QED BY <2>3, <2>4 DEF Old
<1>17. (Spent(c, id)' <=> Spent(c, id)) /\ (Old(c, id)' <=> Old(c, id)) BY DEF Spent, Gave, Old
<1>18. ASSUME NEW i \in DOMAIN q PROVE EventOK(i)'
  <2>1. q[i].kind = "LongPress" => Old(c, id)' /\ i + 1 \in DOMAIN q /\ q[i + 1] = Event("Release", c, id)
    BY <1>10, <1>16, <1>17
  <2>2. ASSUME NEW j \in DOMAIN q, i < j PROVE q[i].kind = "LongPress" /\ q[j].kind = "Release" /\ q[j].id = id
    <3>1. i = 1 /\ j = 2 BY <2>2, <1>10
    <3>2. QED BY <3>1, <1>10
  <2>3. c \notin DOMAIN pressed' BY <1>7
  <2>4. QED BY <2>1, <2>2, <2>3, <1>5, <1>8, <1>10, <1>14, <1>15, <1>17 DEF EventOK
<1>19. \A b, kinds : Has(b, kinds)' => b = c BY <1>8, <1>10 DEF Has
<1>20. \A i \in DOMAIN events : FALSE BY <1>3
<1>21. \A b, kinds : ~Has(b, kinds) BY <1>20 DEF Has
<1>22. Has(c, {"Release", "Cancel"})' /\ (aged => Has(c, {"LongPress"})') /\ ~Has(c, {"Press"})'
  BY <1>5, <1>8, <1>10, <1>11 DEF Has
<1>23. ASSUME RouterOK PROVE RouterOK'
  <2>1. router'.keys \cap (router'.long \cup router'.dark) = {} BY <1>23 DEF RouterOK
  <2>2. \A b \in Controls : Kept(b) => b \in DOMAIN pressed BY <1>21, <1>23 DEF RouterOK
  <2>3. \A b : (Kept(b)' <=> Kept(b)) /\ (Noted(b)' <=> Noted(b)) /\ (Resting(b)' <=> Resting(b))
               /\ (RestsInTheDark(b)' <=> RestsInTheDark(b))
    BY DEF Kept, Noted, Resting, RestsInTheDark
  <2>4. \A b \in Controls : Kept(b)' => b \in DOMAIN pressed' \/ Has(b, {"Release", "Cancel"})'
    BY <2>2, <2>3, <1>7, <1>22
  <2>5. ASSUME NEW b \in DOMAIN pressed' PROVE RouterKnows(b)'
    <3>1. b # c /\ RouterKnows(b) /\ b \in DOMAIN pressed BY <2>5, <1>7, <1>23 DEF RouterOK
    <3>2. PICK p : p = pressed'[b] OBVIOUS
    <3>3. p = pressed[b] BY <3>2, <1>7
    <3>4. Has(b, {"LongPress"})' <=> Has(b, {"LongPress"}) BY <3>1, <1>19, <1>21
    <3>5. QED BY <3>1, <3>2, <3>3, <3>4, <2>3 DEF RouterKnows, Gave
  <2>6. ASSUME NEW i \in DOMAIN q PROVE RouterExpects(i)'
    <3>1. CASE kind = "Cancel" BY <3>1, <1>6, <1>8, <1>10 DEF RouterExpects
    <3>2. CASE kind = "Release"
      <4>1. c \in DOMAIN pressed /\ pressed[c].id = id BY <3>2, <1>4, <1>6
      <4>2. RouterKnows(c) /\ ~Has(c, {"LongPress"}) BY <4>1, <1>21, <1>23 DEF RouterOK
      <4>3. KnownOK(c, Stream(DeviceOf(c))) BY <4>1 DEF ButtonsInv, DevicesInv
      <4>4. ~Has(c, {"LongPress"})' => ~aged BY <1>22
      <4>5. ~aged /\ pressed[c].resumed => pressed[c].long BY <3>2, <1>6
      <4>6. ~aged /\ (Gave(c, id, "hold") \/ Gave(c, id, "arrow") \/ <<c, id>> \in cut) => Noted(c)
        BY <4>1, <4>2, <4>5, <1>4 DEF RouterKnows
      <4>7. ~aged /\ c = "Power" /\ <<c, id>> \in begun => router.power = "dark" \/ c \in router.long
        <5>1. SUFFICES ASSUME ~aged, c = "Power", <<c, id>> \in begun PROVE router.power = "dark" \/ c \in router.long
          OBVIOUS
        <5>2. CASE ~pressed[c].resumed BY <5>1, <5>2, <4>1, <4>2 DEF RouterKnows
        <5>3. CASE pressed[c].resumed
          <6>1. Noted(c) BY <5>1, <5>3, <4>2, <4>5 DEF RouterKnows
          <6>2. c \notin router.keys BY <5>1 DEF ButtonsInv, RouterTyped, Arrows
          <6>3. QED BY <6>1, <6>2 DEF Noted
        <5>4. QED BY <5>2, <5>3
      <4>8. <<c, id>> \in begun /\ RestsInTheDark(c) => Resting(c)
        <5>1. SUFFICES ASSUME <<c, id>> \in begun, RestsInTheDark(c) PROVE Resting(c) OBVIOUS
        <5>2. c # "Power" BY <5>1, <1>t DEF RestsInTheDark, ButtonsTyped
        <5>3. ~pressed[c].resumed BY <5>2, <4>3 DEF KnownOK
        <5>4. QED BY <5>1, <5>3, <4>1, <4>2 DEF RouterKnows
      <4>9. QED BY <4>4, <4>6, <4>7, <4>8, <2>3, <1>4, <1>8, <1>10 DEF RouterExpects, Gave
    <3>3. QED BY <3>1, <3>2
  <2>7. \A b \in Controls : ~Has(b, {"Press"})' BY <1>19, <1>22
  <2>8. QED BY <1>8, <2>1, <2>4, <2>5, <2>6, <2>7 DEF RouterOK
<1>24. Awake' <=> Awake BY DEF Awake
<1>25. ShortIsShort' /\ DarkIsDark'
  BY DEF ButtonsInv, RoutingInv, ShortIsShort, DarkIsDark, Gave, RestsInTheDark
<1>26. RoutingInv' BY <1>8, <1>18, <1>23, <1>24, <1>25 DEF ButtonsInv, RoutingInv
<1>27. HoldOK'
  <2>1. SUFFICES ASSUME ~WakeFails, hold # 0 PROVE Awake /\ lit /\ "Power" \in router.long /\ HoldIsPressed'
    BY <1>24 DEF HoldOK
  <2>2. Awake /\ lit /\ "Power" \in router.long /\ HoldIsPressed BY <2>1 DEF ButtonsInv, HoldOK
  <2>3. "Power" \in DOMAIN pressed /\ pressed["Power"].long BY <2>1, <2>2, <1>20 DEF HoldIsPressed
  <2>4. CASE c = "Power"
    <3>1. PICK i \in DOMAIN q : q[i].control = c /\ q[i].kind = kind BY <1>11
    <3>2. QED BY <2>2, <2>4, <3>1, <1>5, <1>8 DEF HoldIsPressed
  <2>5. CASE c # "Power"
    <3>1. "Power" \in DOMAIN pressed' /\ pressed'["Power"].long BY <2>3, <2>5, <1>7
    <3>2. QED BY <2>2, <3>1 DEF HoldIsPressed
  <2>6. QED BY <2>4, <2>5
<1>28. QED BY <1>26, <1>27

LEMMA IngestRouting ==
  ASSUME ButtonsAssumption, ButtonsInv, Ingest PROVE RoutingInv' /\ HoldOK'
<1>t. ButtonsTyped BY DEF ButtonsInv
<1>1. PICK d \in Devices, r \in KeyRecords :
           /\ Takes(d, r) /\ r.at \in Nat
           /\ Drops(d, r) \/ Overlooks(d, r) \/ Begins(d, r) \/ Ends(d, r)
  BY IngestTakes
<1>2. /\ UNCHANGED <<clock, down, presses, quick, router, mode, given, begun, hold, lit, sleepPrepared, resume>>
      /\ events = <<>>
  BY DEF Ingest, deviceVars, uiVars
<1>3. CASE Drops(d, r)
  <2>1. PICK S : S = Stale(d) OBVIOUS
  <2>2. S \in SUBSET DOMAIN pressed BY <2>1 DEF Stale
  <2>3. Tells(events', S, {}, {}) BY <1>3, <2>1, <2>2, <1>t, TellsOne DEF Drops
  <2>4. DOMAIN pressed' = DOMAIN pressed \ S /\ \A c \in DOMAIN pressed' : pressed'[c] = pressed[c]
    BY <1>3, <2>1, RestrictIs DEF Drops, Without
  <2>5. QED BY <2>2, <2>3, <2>4, <1>2, TellsRouting
<1>4. CASE Overlooks(d, r)
  <2>1. events' = <<>> /\ pressed' = pressed BY <1>2, <1>4 DEF Overlooks
  <2>2. Tells(events', {}, {}, {}) BY <2>1 DEF Tells
  <2>3. PICK S \in SUBSET DOMAIN pressed : S = {} OBVIOUS
  <2>4. /\ Tells(events', S, S, S) /\ S \cap S = {} /\ DOMAIN pressed' = DOMAIN pressed \ S
        /\ \A c \in S : Old(c, pressed[c].id) /\ pressed[c].long
        /\ \A c \in DOMAIN pressed' : pressed'[c] = pressed[c] /\ c \notin S
    BY <2>1, <2>2, <2>3
  <2>5. QED BY <2>4, <1>2, TellsRouting
<1>5. CASE Begins(d, r) BY <1>5, <1>1, <1>2, BeginsRouting
<1>6. CASE Ends(d, r) BY <1>6, <1>1, <1>2, EndsRouting
<1>7. QED BY <1>1, <1>3, <1>4, <1>5, <1>6
-----------------------------------------------------------------------------
(* What ActionRouter makes of an event, told of all since it was pressed. *)
Answers(e, deeds, r) ==
  LET c == e.control IN
  /\ deeds \subseteq {"arrow", "hold", "wake", "short", "sleep", "cancel"}
  /\ "arrow" \in deeds => c \in r.keys /\ e.kind \in {"Press", "Repeat"} /\ (e.kind = "Press" => lit)
  /\ "hold" \in deeds =>
       /\ e.kind \in {"Repeat", "LongPress"} /\ (c \in r.long \/ c \in r.keys)
       /\ c = "Power" => e.kind = "LongPress" /\ c \in r.long /\ (lit \/ "wake" \in deeds)
  /\ "wake" \in deeds => e.kind = "Release" \/ (e.kind = "LongPress" /\ "hold" \in deeds)
  /\ "short" \in deeds \/ "sleep" \in deeds => e.kind = "Release"
  /\ e.kind = "Release" /\ ~(deeds \subseteq {"cancel"}) => ~Noted(c) /\ c \notin router.dark
  /\ "sleep" \in deeds => c = "Power" /\ router.power # "dark"
  /\ e.kind # "Press" /\ Resting(c) => deeds \subseteq {"cancel"}
  /\ "cancel" \in deeds <=> e.kind \in {"Release", "Cancel"} /\ c = "Power" /\ c \in router.long
  /\ e.kind = "Cancel" => deeds \subseteq {"cancel"}
(* What it keeps of the button, and of the others. *)
Retains(e, r) ==
  LET c == e.control IN
  /\ r \in [long : SUBSET Controls, dark : SUBSET Controls, keys : SUBSET (Arrows \cap Controls),
            power : {"none", "lit", "dark"}, search : BOOLEAN]
  /\ \A b \in r.dark : RestsInTheDark(b)
  /\ r.keys \cap (r.long \cup r.dark) = {}
  /\ \A b \in Controls \ {c} :
       (b \in r.long <=> b \in router.long) /\ (b \in r.dark <=> b \in router.dark) /\ (b \in r.keys <=> b \in router.keys)
  /\ c # "Power" \/ e.kind \in {"LongPress", "Repeat"} => r.power = router.power
  /\ e.kind \in {"Release", "Cancel"} => c \notin r.long /\ c \notin r.dark /\ c \notin r.keys
  /\ e.kind = "LongPress" => (c \in r.long \/ c \in r.keys)
  /\ e.kind \in {"LongPress", "Repeat"} =>
       /\ c \in r.dark <=> c \in router.dark
       /\ c \in r.keys <=> c \in router.keys
       /\ c \in router.long => c \in r.long
  /\ e.kind = "Press" =>
       /\ c \notin r.long
       /\ ~lit => c \notin r.keys /\ (RestsInTheDark(c) => c \in r.dark) /\ (c = "Power" => r.power = "dark")
LEMMA AnswerIs ==
  ASSUME ButtonsAssumption, RouterTyped, lit \in BOOLEAN, NEW e \in KeyEvents,
         router.keys \cap (router.long \cup router.dark) = {}, e.kind = "Press" => ~Kept(e.control),
         mode \in {"Locked", "Buttons", "WheelAndButtons"}
  PROVE  Answers(e, Answer(e).acts, Answer(e).router) /\ Retains(e, Answer(e).router)
<1>1. PICK c : c = e.control OBVIOUS
<1>2. c \in Controls /\ e.kind \in Kinds BY <1>1 DEF KeyEvents
<1>3. /\ router \in [long : SUBSET Controls, dark : SUBSET Controls, keys : SUBSET (Arrows \cap Controls),
                     power : {"none", "lit", "dark"}, search : BOOLEAN]
      /\ \A b \in router.dark : RestsInTheDark(b)
  BY DEF RouterTyped
<1>4. ~RestsInTheDark("Power") BY DEF RestsInTheDark
<1>5. "Power" \notin router.keys /\ "Power" \notin router.dark BY <1>3, <1>4 DEF Arrows
<1>6. PICK a : a = Answer(e) OBVIOUS
<1>7. PICK r, deeds : r = a.router /\ deeds = a.acts OBVIOUS
<1>8. CASE IsTyped(e)
  <2>1. a = Typed(e) BY <1>6, <1>8 DEF Answer
  <2>2. CASE e.kind = "Press"
    <3>1. /\ r = [router EXCEPT !.keys = @ \cup {c}, !.search = IF c = "Back" THEN board = "search" ELSE @]
          /\ deeds = {"arrow"}
      BY <2>1, <2>2, <1>1, <1>7 DEF Typed, Gives
    <3>2. lit /\ c \in Arrows /\ c # "Power" BY <2>2, <1>1, <1>8 DEF IsTyped, Arrows
    <3>3. c \notin router.long /\ c \notin router.dark /\ c \notin router.keys BY <2>2, <1>1 DEF Kept
    <3>4. /\ r.long = router.long /\ r.dark = router.dark /\ r.keys = router.keys \cup {c} /\ r.power = router.power
          /\ r \in [long : SUBSET Controls, dark : SUBSET Controls, keys : SUBSET (Arrows \cap Controls),
                    power : {"none", "lit", "dark"}, search : BOOLEAN]
      BY <3>1, <3>2, <1>2, <1>3
    <3>5. Answers(e, deeds, r) BY <3>1, <3>2, <3>3, <3>4, <2>2, <1>1 DEF Answers, Resting
    <3>6. Retains(e, r) BY <3>2, <3>3, <3>4, <2>2, <1>1, <1>3 DEF Retains
    <3>7. QED BY <3>5, <3>6, <1>6, <1>7
  <2>3. CASE e.kind = "Repeat"
    <3>1. r = router /\ deeds \subseteq {"arrow"} BY <2>1, <2>3, <1>7 DEF Typed, Gives
    <3>2. c \in router.keys /\ c # "Power" BY <2>3, <1>1, <1>5, <1>8 DEF IsTyped
    <3>3. Answers(e, deeds, r) BY <3>1, <3>2, <2>3, <1>1 DEF Answers, Resting
    <3>4. Retains(e, r) BY <3>1, <2>3, <1>1, <1>3 DEF Retains
    <3>5. QED BY <3>3, <3>4, <1>6, <1>7
  <2>4. CASE e.kind = "LongPress"
    <3>1. r = router /\ deeds \subseteq {"hold"} BY <2>1, <2>4, <1>7 DEF Typed, Gives
    <3>2. c \in router.keys /\ c # "Power" BY <2>4, <1>1, <1>5, <1>8 DEF IsTyped
    <3>3. Answers(e, deeds, r) BY <3>1, <3>2, <2>4, <1>1 DEF Answers, Resting
    <3>4. Retains(e, r) BY <3>1, <3>2, <2>4, <1>1, <1>3 DEF Retains
    <3>5. QED BY <3>3, <3>4, <1>6, <1>7
  <2>5. CASE e.kind \in {"Release", "Cancel"}
    <3>1. r = [router EXCEPT !.keys = @ \ {c}] /\ deeds = {} BY <2>1, <2>5, <1>1, <1>7 DEF Typed, Gives
    <3>2. c \in router.keys /\ c # "Power" BY <2>5, <1>1, <1>5, <1>8 DEF IsTyped
    <3>3. c \notin router.long /\ c \notin router.dark BY <3>2
    <3>4. /\ r.long = router.long /\ r.dark = router.dark /\ r.keys = router.keys \ {c} /\ r.power = router.power
          /\ r \in [long : SUBSET Controls, dark : SUBSET Controls, keys : SUBSET (Arrows \cap Controls),
                    power : {"none", "lit", "dark"}, search : BOOLEAN]
      BY <3>1, <1>3
    <3>5. Answers(e, deeds, r) BY <3>1, <3>2, <2>5, <1>1 DEF Answers
    <3>6. Retains(e, r) BY <3>2, <3>3, <3>4, <2>5, <1>1, <1>3 DEF Retains
    <3>7. QED BY <3>5, <3>6, <1>6, <1>7
  <2>6. QED BY <2>2, <2>3, <2>4, <2>5, <1>2 DEF Kinds
<1>9. CASE ~IsTyped(e)
  <2>1. a = Routed(e) BY <1>6, <1>9 DEF Answer
  <2>2. CASE e.kind = "Press"
    <3>1. /\ r = [router EXCEPT !.power = IF c = "Power" THEN (IF lit THEN "lit" ELSE "dark") ELSE @,
                                !.dark = IF ~lit /\ RestsInTheDark(c) THEN @ \cup {c} ELSE @]
          /\ deeds = {}
      BY <2>1, <2>2, <1>1, <1>7 DEF Routed, Gives
    <3>2. c \notin router.long /\ c \notin router.dark /\ c \notin router.keys BY <2>2, <1>1 DEF Kept
    <3>3. /\ r.long = router.long /\ r.keys = router.keys
          /\ r.dark = IF ~lit /\ RestsInTheDark(c) THEN router.dark \cup {c} ELSE router.dark
          /\ r.power = IF c = "Power" THEN (IF lit THEN "lit" ELSE "dark") ELSE router.power
      BY <3>1, <1>3
    <3>4. r \in [long : SUBSET Controls, dark : SUBSET Controls, keys : SUBSET (Arrows \cap Controls),
                 power : {"none", "lit", "dark"}, search : BOOLEAN]
      BY <3>1, <1>2, <1>3
    <3>5. Answers(e, deeds, r) BY <3>1, <2>2 DEF Answers
    <3>6. Retains(e, r) BY <3>2, <3>3, <3>4, <2>2, <1>1, <1>3 DEF Retains
    <3>7. QED BY <3>5, <3>6, <1>6, <1>7
  <2>3. CASE e.kind = "Repeat"
    <3>1. /\ r = router /\ deeds \subseteq {"hold"}
          /\ "hold" \in deeds => c \in router.long /\ c \notin router.dark /\ c \in {"Previous", "Next"}
      BY <2>1, <2>3, <1>1, <1>7 DEF Routed, Gives
    <3>2. Answers(e, deeds, r) BY <3>1, <2>3, <1>1 DEF Answers, Resting
    <3>3. Retains(e, r) BY <3>1, <2>3, <1>1, <1>3 DEF Retains
    <3>4. QED BY <3>2, <3>3, <1>6, <1>7
  <2>4. CASE e.kind = "LongPress"
    <3>1. /\ r = [router EXCEPT !.long = @ \cup {c}]
          /\ deeds = IF c \in router.dark \/ (~lit /\ c \notin {"Previous", "Next", "Power"}) THEN {}
                    ELSE IF c = "Power" /\ ~lit THEN {"wake", "hold"} ELSE {"hold"}
      BY <2>1, <2>4, <1>1, <1>7 DEF Routed, Gives
    <3>2. c \notin router.keys BY <2>4, <1>1, <1>9 DEF IsTyped
    <3>3. /\ r.long = router.long \cup {c} /\ r.dark = router.dark /\ r.keys = router.keys /\ r.power = router.power
          /\ r \in [long : SUBSET Controls, dark : SUBSET Controls, keys : SUBSET (Arrows \cap Controls),
                    power : {"none", "lit", "dark"}, search : BOOLEAN]
      BY <3>1, <1>2, <1>3
    <3>4. Answers(e, deeds, r) BY <3>1, <3>3, <2>4, <1>1 DEF Answers, Resting
    <3>5. Retains(e, r) BY <3>2, <3>3, <2>4, <1>1, <1>3 DEF Retains
    <3>6. QED BY <3>4, <3>5, <1>6, <1>7
  <2>5. CASE e.kind \in {"Release", "Cancel"}
    <3>1. r = Forgets(router, c)
      BY <2>1, <2>5, <1>1, <1>7 DEF Routed, Gives, Cancelled
    <3>2. c \notin router.keys BY <2>5, <1>1, <1>9 DEF IsTyped
    <3>3. /\ r.long = router.long \ {c} /\ r.dark = router.dark \ {c} /\ r.keys = router.keys
          /\ c # "Power" => r.power = router.power
          /\ r \in [long : SUBSET Controls, dark : SUBSET Controls, keys : SUBSET (Arrows \cap Controls),
                    power : {"none", "lit", "dark"}, search : BOOLEAN]
      BY <3>1, <1>3 DEF Forgets
    <3>4. Retains(e, r) BY <3>2, <3>3, <2>5, <1>1, <1>3 DEF Retains
    <3>5. CASE e.kind = "Cancel"
      <4>1. deeds = IF c = "Power" /\ c \in router.long THEN {"cancel"} ELSE {}
        BY <2>1, <3>5, <1>1, <1>7 DEF Routed, Gives, Cancelled
      <4>2. Answers(e, deeds, r) BY <4>1, <3>5, <1>1 DEF Answers
      <4>3. QED BY <4>2, <3>4, <1>6, <1>7
    <3>6. CASE e.kind = "Release"
      <4>1. deeds = IF c \in router.dark THEN {}
                   ELSE IF c \in router.long THEN (IF c = "Power" THEN {"cancel"} ELSE {})
                   ELSE Short(c, router.power)
        BY <2>1, <3>6, <1>1, <1>7 DEF Routed, Gives
      <4>2. /\ Short(c, router.power) \subseteq {"short", "sleep", "wake"}
            /\ "sleep" \in Short(c, router.power) => c = "Power" /\ router.power # "dark"
        BY DEF Short
      <4>3. CASE Noted(c) \/ c \in router.dark
        <5>1. deeds = IF c = "Power" /\ c \in router.long THEN {"cancel"} ELSE {}
          BY <4>1, <4>3, <3>2, <1>5 DEF Noted
        <5>2. Answers(e, deeds, r) BY <5>1, <3>6, <1>1 DEF Answers
        <5>3. QED BY <5>2, <3>4, <1>6, <1>7
      <4>4. CASE ~Noted(c) /\ c \notin router.dark
        <5>1. deeds = Short(c, router.power) /\ c \notin router.long BY <4>1, <4>4 DEF Noted
        <5>2. Answers(e, deeds, r) BY <5>1, <4>2, <4>4, <3>6, <1>1 DEF Answers, Resting
        <5>3. QED BY <5>2, <3>4, <1>6, <1>7
      <4>5. QED BY <4>3, <4>4
    <3>7. QED BY <3>5, <3>6, <2>5
  <2>6. QED BY <2>2, <2>3, <2>4, <2>5, <1>2 DEF Kinds
<1>10. QED BY <1>8, <1>9
-----------------------------------------------------------------------------
(* One event is routed: it is dropped while sleep is prepared. *)
Given(e, deeds) ==
  /\ begun' = IF e.kind = "Press" /\ ~lit THEN begun \cup {<<e.control, e.id>>} ELSE begun
  /\ given' = given \cup {<<e.control, e.id, x>> : x \in deeds \ {"cancel"}}
Shows(e, deeds) ==
  /\ hold' = CASE e.control = "Power" /\ "hold" \in deeds -> clock + Ring
              [] "cancel" \in deeds -> 0
              [] OTHER -> hold
  /\ lit' \in BOOLEAN /\ (~WakeFails /\ "sleep" \notin deeds => (lit' <=> lit \/ "wake" \in deeds))
Hears(e, deeds) ==
  /\ Awake /\ RouterOK /\ Answers(e, deeds, router') /\ Retains(e, router')
  /\ Given(e, deeds) /\ Shows(e, deeds)
Routes(e) ==
  /\ e \in KeyEvents /\ e.id <= presses[e.control]
  /\ 1 \in DOMAIN events /\ events[1] = e /\ EventOK(1)
  /\ events' \in Seq(KeyEvents) /\ \A i \in DOMAIN events' : events'[i].id <= presses[events'[i].control]
  /\ \A i \in DOMAIN events' :
       i \in Nat \ {0} /\ i + 1 \in DOMAIN events /\ events'[i] = events[i + 1] /\ (i + 1 \in DOMAIN events' <=> i + 2 \in DOMAIN events)
  /\ \A i \in DOMAIN events : i \in Nat /\ (i # 1 => i - 1 \in DOMAIN events')
  /\ UNCHANGED <<clock, down, presses, lines, fds, reading, raw, blocked, pressed, dropping, mode,
                 sleepPrepared, resume, cut, quick>>
  /\ ~resume
LEMMA RouteIs ==
  ASSUME ButtonsAssumption, ButtonsInv, Route
  PROVE  \E e : /\ Routes(e)
                /\ \/ sleepPrepared /\ UNCHANGED <<router, lit, hold, given, begun>>
                   \/ \E deeds : Hears(e, deeds)
<1>t. ButtonsTyped /\ ReadingOK /\ RouterTyped BY DEF ButtonsInv
<1>1. events # <<>> /\ events' = Tail(events) BY DEF Route
<1>2. PICK e : e = events[1] OBVIOUS
<1>3. PICK s, t : s = events /\ t = Tail(s) OBVIOUS
<1>4. /\ s \in Seq(KeyEvents) /\ s # <<>> /\ t \in Seq(KeyEvents) /\ Len(s) \in Nat \ {0} /\ Len(t) = Len(s) - 1
      /\ \A i \in 1 .. Len(s) - 1 : t[i] = s[i + 1]
      /\ DOMAIN s = 1 .. Len(s) /\ DOMAIN t = 1 .. Len(s) - 1
      /\ s[1] \in KeyEvents
  <2>1. s \in Seq(KeyEvents) /\ s # <<>> BY <1>1, <1>3, <1>t DEF ButtonsTyped
  <2>2. t \in Seq(KeyEvents) /\ Len(t) = Len(s) - 1 /\ \A i \in 1 .. Len(s) - 1 : t[i] = s[i + 1]
    BY <2>1, <1>3, HeadTailProperties
  <2>3. Len(s) \in Nat \ {0} /\ DOMAIN s = 1 .. Len(s) BY <2>1, EmptySeq, LenProperties
  <2>4. DOMAIN t = 1 .. Len(s) - 1 BY <2>2, LenProperties
  <2>5. s[1] \in KeyEvents BY <2>1, <2>3
  <2>6. QED BY <2>1, <2>2, <2>3, <2>4, <2>5
<1>5. UNCHANGED <<clock, down, presses, lines, fds, reading, raw, blocked, pressed, dropping, mode,
                  sleepPrepared, resume, cut, quick>>
  BY DEF Route, deviceVars
<1>6. ~resume BY <1>1, <1>t DEF ReadingOK
<1>7. \A i \in DOMAIN s : s[i].id <= presses[s[i].control] BY <1>3, <1>t DEF ButtonsTyped
<1>8. Routes(e)
  <2>1. e \in KeyEvents /\ 1 \in DOMAIN s /\ s[1] = e BY <1>2, <1>3, <1>4
  <2>2. EventOK(1) BY <2>1, <1>3 DEF ButtonsInv, RoutingInv
  <2>3. \A i \in DOMAIN t : i \in Nat \ {0} /\ i + 1 \in DOMAIN s /\ t[i] = s[i + 1]
                            /\ (i + 1 \in DOMAIN t <=> i + 2 \in DOMAIN s)
    BY <1>4
  <2>4. \A i \in DOMAIN s : i \in Nat /\ (i # 1 => i - 1 \in DOMAIN t) BY <1>4
  <2>5. \A i \in DOMAIN t : t[i].id <= presses[t[i].control] BY <2>3, <1>7
  <2>6. e.id <= presses[e.control] BY <2>1, <1>7
  <2>7. events' = t BY <1>1, <1>3
  <2>8. QED BY <2>1, <2>2, <2>3, <2>4, <2>5, <2>6, <2>7, <1>3, <1>4, <1>5, <1>6 DEF Routes
<1>9. CASE sleepPrepared
  <2>1. UNCHANGED <<router, lit, hold, given, begun>> BY <1>9 DEF Route
  <2>2. QED BY <2>1, <1>8, <1>9
<1>10. CASE ~sleepPrepared
  <2>1. PICK out, deeds : out = Answer(e) /\ deeds = out.acts OBVIOUS
  <2>2. /\ router' = out.router
        /\ Given(e, deeds)
        /\ \/ Acts(e.control, deeds)
           \/ WakeFails /\ "wake" \in deeds /\ Acts(e.control, deeds \ {"wake"})
    BY <2>1, <1>2, <1>10 DEF Route, Given
  <2>3. Awake /\ RouterOK BY <1>6, <1>10 DEF Awake, ButtonsInv, RoutingInv
  <2>4. e.kind = "Press" => ~Kept(e.control)
    <3>1. SUFFICES ASSUME e.kind = "Press" PROVE ~Kept(e.control) OBVIOUS
    <3>2. Has(e.control, {"Press"}) /\ e.control \in Controls BY <3>1, <1>8 DEF Has, Routes, KeyEvents
    <3>3. QED BY <3>2, <2>3 DEF RouterOK
  <2>5. lit \in BOOLEAN /\ mode \in {"Locked", "Buttons", "WheelAndButtons"} BY <1>t DEF ButtonsTyped
  <2>6. Answers(e, deeds, router') /\ Retains(e, router')
    <3>1. router.keys \cap (router.long \cup router.dark) = {} /\ e \in KeyEvents BY <2>3, <1>8 DEF RouterOK, Routes
    <3>2. QED BY <3>1, <2>1, <2>2, <2>4, <2>5, <1>t, AnswerIs
  <2>7. Shows(e, deeds)
    <3>1. ASSUME NEW A, Acts(e.control, A)
          PROVE  /\ hold' = CASE e.control = "Power" /\ "hold" \in A -> clock + Ring [] "cancel" \in A -> 0 [] OTHER -> hold
                 /\ lit' = ((lit /\ ~("sleep" \in A /\ ~menu)) \/ "wake" \in A)
      BY <3>1 DEF Acts
    <3>2. CASE Acts(e.control, deeds) BY <3>1, <3>2, <2>5 DEF Shows
    <3>3. CASE WakeFails /\ "wake" \in deeds /\ Acts(e.control, deeds \ {"wake"}) BY <3>1, <3>3, <2>5 DEF Shows
    <3>4. QED BY <2>2, <3>2, <3>3
  <2>8. Hears(e, deeds) BY <2>2, <2>3, <2>6, <2>7 DEF Hears
  <2>9. QED BY <2>8, <1>8
<1>11. QED BY <1>9, <1>10

LEMMA RouteTyped ==
  ASSUME ButtonsAssumption, ButtonsInv, Route PROVE TypesKept
<1>t. ButtonsTyped BY DEF ButtonsInv
<1>1. PICK e : Routes(e) /\ \/ sleepPrepared /\ UNCHANGED <<router, lit, hold, given, begun>>
                            \/ \E deeds : Hears(e, deeds)
  BY RouteIs
<1>2. Presses' = Presses BY <1>1 DEF Routes, Presses
<1>3. <<e.control, e.id>> \in Presses BY <1>1 DEF Routes, Presses, KeyEvents
<1>4. /\ \A g \in given' : <<g[1], g[2]>> \in Presses /\ g = <<g[1], g[2], g[3]>>
      /\ begun' \subseteq Presses /\ lit' \in BOOLEAN
  <2>1. (\A g \in given : <<g[1], g[2]>> \in Presses /\ g = <<g[1], g[2], g[3]>>) /\ begun \subseteq Presses /\ lit \in BOOLEAN
    BY <1>t DEF ButtonsTyped
  <2>2. CASE UNCHANGED <<router, lit, hold, given, begun>> BY <2>1, <2>2
  <2>3. CASE \E deeds : Hears(e, deeds)
    <3>1. PICK deeds : Hears(e, deeds) BY <2>3
    <3>2. ASSUME NEW g \in given' PROVE <<g[1], g[2]>> \in Presses /\ g = <<g[1], g[2], g[3]>>
      <4>1. CASE g \in given BY <4>1, <2>1
      <4>2. CASE g \notin given
        <5>1. PICK x : g = <<e.control, e.id, x>> BY <4>2, <3>1, <3>2 DEF Hears, Given
        <5>2. QED BY <5>1, <1>3
      <4>3. QED BY <4>1, <4>2
    <3>3. begun' \subseteq Presses /\ lit' \in BOOLEAN BY <2>1, <3>1, <1>3 DEF Hears, Given, Shows
    <3>4. QED BY <3>2, <3>3
  <2>4. QED BY <1>1, <2>2, <2>3
<1>5. ButtonsTyped' BY <1>1, <1>2, <1>4, <1>t DEF ButtonsTyped, Routes
<1>6. RouterTyped'
  <2>1. \A b : RestsInTheDark(b)' <=> RestsInTheDark(b) BY <1>1 DEF Routes, RestsInTheDark
  <2>2. CASE UNCHANGED router BY <2>1, <2>2 DEF ButtonsInv, RouterTyped
  <2>3. CASE \E deeds : Hears(e, deeds) BY <2>1, <2>3 DEF Hears, Retains, RouterTyped
  <2>4. QED BY <1>1, <2>2, <2>3
<1>7. ReadingOK' BY <1>1 DEF ButtonsInv, ReadingOK, Routes
<1>8. QED BY <1>5, <1>6, <1>7 DEF TypesKept
(* What a press gave before and gives now; it acts as a short one at its release only. *)
LEMMA GivesNow ==
  ASSUME NEW e, NEW deeds, Given(e, deeds), NEW b, NEW k, NEW x
  PROVE  Gave(b, k, x)' <=> Gave(b, k, x) \/ (b = e.control /\ k = e.id /\ x \in deeds \ {"cancel"})
BY DEF Given, Gave
LEMMA SpendsNow ==
  ASSUME NEW e, NEW deeds, Routes(e), Hears(e, deeds), NEW b, NEW k, Spent(b, k)'
  PROVE  Spent(b, k) \/ (b = e.control /\ k = e.id /\ e.kind = "Release" /\ ~Noted(e.control))
<1>1. Given(e, deeds) /\ Answers(e, deeds, router') BY DEF Hears
<1>2. \A x : Gave(b, k, x)' <=> Gave(b, k, x) \/ (b = e.control /\ k = e.id /\ x \in deeds \ {"cancel"})
  BY <1>1, GivesNow
<1>3. SUFFICES ASSUME ~Spent(b, k) PROVE b = e.control /\ k = e.id /\ e.kind = "Release" /\ ~Noted(e.control) OBVIOUS
<1>4. CASE b = e.control /\ k = e.id
  <2>1. "short" \in deeds \/ "sleep" \in deeds \/ ("wake" \in deeds /\ "hold" \notin deeds)
    BY <1>2, <1>3 DEF Spent
  <2>2. e.kind = "Release" BY <2>1, <1>1 DEF Answers
  <2>3. ~(deeds \subseteq {"cancel"}) BY <2>1
  <2>4. QED BY <2>2, <2>3, <1>1, <1>4 DEF Answers
<1>5. CASE ~(b = e.control /\ k = e.id) BY <1>2, <1>3, <1>5 DEF Spent
<1>6. QED BY <1>4, <1>5
LEMMA FreshStays ==
  ASSUME NEW e, NEW deeds, Hears(e, deeds), NEW b, NEW k, Unheard(b, k), ~(b = e.control /\ k = e.id) \/ e.kind = "Cancel"
  PROVE  Unheard(b, k)'
<1>1. Given(e, deeds) /\ Answers(e, deeds, router') BY DEF Hears
<1>2. CASE e.kind = "Cancel"
  <2>1. deeds \ {"cancel"} = {} BY <1>1, <1>2 DEF Answers
  <2>2. given' = given /\ begun' = begun BY <1>1, <1>2, <2>1 DEF Given
  <2>3. QED BY <2>2 DEF Unheard
<1>3. CASE ~(b = e.control /\ k = e.id)
  <2>1. <<b, k>> \notin begun' BY <1>1, <1>3 DEF Unheard, Given
  <2>2. ASSUME NEW g \in given', g[1] = b, g[2] = k PROVE FALSE
    <3>1. g \notin given BY <2>2 DEF Unheard
    <3>2. PICK x : g = <<e.control, e.id, x>> BY <3>1, <2>2, <1>1 DEF Given
    <3>3. QED BY <3>2, <2>2, <1>3
  <2>3. QED BY <2>1, <2>2 DEF Unheard
<1>4. QED BY <1>2, <1>3

LEMMA RouteDevices ==
  ASSUME ButtonsAssumption, ButtonsInv, Route PROVE DevicesInv' /\ SpentOK' /\ HeldOK'
<1>t. ButtonsTyped BY DEF ButtonsInv
<1>1. PICK e : Routes(e) /\ \/ sleepPrepared /\ UNCHANGED <<router, lit, hold, given, begun>>
                            \/ \E deeds : Hears(e, deeds)
  BY RouteIs
<1>2. PICK c, id : c = e.control /\ id = e.id OBVIOUS
<1>3. UNCHANGED <<clock, down, presses, lines, fds, raw, pressed, dropping, cut, quick>> BY <1>1 DEF Routes
<1>4. \A d : Stream(d)' = Stream(d) BY <1>3 DEF Stream
<1>5. \A b, k : Old(b, k)' <=> Old(b, k) BY <1>3 DEF Old
<1>6. \A s, b, k, since, n : Continues(s, b, k, since, n)' <=> Continues(s, b, k, since, n) BY <1>3 DEF Continues
<1>7. \A b, k : Finished(b, k)' <=> Finished(b, k) BY <1>3, <1>4 DEF Finished
<1>8. c \in Controls /\ id \in Nat /\ EventOK(1) /\ events[1] = e /\ 1 \in DOMAIN events
  BY <1>1, <1>2 DEF Routes, KeyEvents
<1>9. /\ \A d \in Devices : StreamOK(d, Stream(d))
      /\ \A b \in DOMAIN pressed : KnownOK(b, Stream(DeviceOf(b)))
  BY DEF ButtonsInv, DevicesInv
<1>10. e.kind # "Cancel" => \A i \in DOMAIN Stream(DeviceOf(c)) :
         LET r == Stream(DeviceOf(c))[i] IN r.control = c /\ r.kind = "down" => r.id # id
  <2>1. SUFFICES ASSUME e.kind # "Cancel", NEW i \in DOMAIN Stream(DeviceOf(c)),
                        Stream(DeviceOf(c))[i].control = c, Stream(DeviceOf(c))[i].kind = "down"
                 PROVE  Stream(DeviceOf(c))[i].id # id
    OBVIOUS
  <2>2. CASE c \in DOMAIN pressed /\ pressed[c].id = id
    <3>1. KnownOK(c, Stream(DeviceOf(c))) BY <2>2, <1>9
    <3>2. id < Stream(DeviceOf(c))[i].id BY <3>1, <2>1, <2>2 DEF KnownOK
    <3>3. QED BY <3>2, <1>8
  <2>3. CASE ~(c \in DOMAIN pressed /\ pressed[c].id = id)
    <3>1. Finished(c, id)
      <4>1. CASE e.kind = "Release" BY <4>1, <1>2, <1>8 DEF EventOK
      <4>2. CASE e.kind = "LongPress"
        <5>1. 2 \in DOMAIN events /\ events[2] = Event("Release", c, id)
          BY <4>2, <2>3, <1>2, <1>8 DEF EventOK
        <5>2. EventOK(2) BY <5>1 DEF ButtonsInv, RoutingInv
        <5>3. QED BY <5>1, <5>2 DEF EventOK, Event
      <4>3. e.kind \notin {"Press", "Repeat"} BY <2>3, <1>2, <1>8 DEF EventOK
      <4>4. e.kind \in Kinds BY <1>1 DEF Routes, KeyEvents
      <4>5. QED BY <4>1, <4>2, <4>3, <4>4, <2>1 DEF Kinds
    <3>2. id < Stream(DeviceOf(c))[i].id BY <3>1, <2>1 DEF Finished
    <3>3. QED BY <3>2, <1>8
  <2>4. QED BY <2>2, <2>3
<1>11. \A b, k : Unheard(b, k) /\ (~(b = c /\ k = id) \/ e.kind = "Cancel") => Unheard(b, k)'
  <2>1. CASE UNCHANGED <<given, begun>> BY <2>1 DEF Unheard
  <2>2. CASE \E deeds : Hears(e, deeds) BY <2>2, <1>2, FreshStays
  <2>3. QED BY <1>1, <2>1, <2>2
<1>12. ASSUME NEW d \in Devices PROVE StreamOK(d, Stream(d))'
  <2>1. PICK s : s = Stream(d) OBVIOUS
  <2>2. StreamOK(d, s) BY <2>1, <1>9
  <2>3. ASSUME NEW i \in DOMAIN s, s[i].kind # "dropped" PROVE KeyRecordOK(d, s, i)'
    <3>1. KeyRecordOK(d, s, i) BY <2>2, <2>3 DEF StreamOK
    <3>2. s[i].kind = "down" => Unheard(s[i].control, s[i].id)'
      <4>1. SUFFICES ASSUME s[i].kind = "down" PROVE Unheard(s[i].control, s[i].id)' OBVIOUS
      <4>2. Unheard(s[i].control, s[i].id) /\ DeviceOf(s[i].control) = d BY <3>1, <4>1 DEF KeyRecordOK
      <4>3. ~(s[i].control = c /\ s[i].id = id) \/ e.kind = "Cancel" BY <4>1, <4>2, <2>1, <2>3, <1>10
      <4>4. QED BY <4>2, <4>3, <1>11
    <3>3. Continues(s, s[i].control, s[i].id, s[i].at, i)' <=> Continues(s, s[i].control, s[i].id, s[i].at, i) BY <1>6
    <3>4. QED BY <3>1, <3>2, <3>3, <1>3 DEF KeyRecordOK, Presses
  <2>4. StreamOK(d, s)' BY <2>2, <2>3, <1>3 DEF StreamOK
  <2>5. QED BY <2>1, <2>4, <1>4
<1>13. ASSUME NEW b \in DOMAIN pressed' PROVE KnownOK(b, Stream(DeviceOf(b)))'
  <2>1. PICK s : s = Stream(DeviceOf(b)) OBVIOUS
  <2>2. KnownOK(b, s) BY <2>1, <1>3, <1>9, <1>13
  <2>3. KnownOK(b, s)' BY <2>2, <1>3, KnownLeft DEF KnownOK
  <2>4. QED BY <2>1, <2>3, <1>4
<1>14. SpentOK'
  <2>1. SUFFICES ASSUME NEW g \in given', Spent(g[1], g[2])'
        PROVE  Finished(g[1], g[2])' /\ <<g[1], g[2]>> \notin cut'
    BY DEF SpentOK
  <2>2. PICK b, k : b = g[1] /\ k = g[2] OBVIOUS
  <2>3. Spent(b, k)' BY <2>1, <2>2 DEF Spent, Gave
  <2>4. CASE Spent(b, k)
    <3>1. Finished(b, k) /\ <<b, k>> \notin cut BY <2>4, SpentIsFinished DEF ButtonsInv
    <3>2. Finished(b, k)' BY <3>1, <1>7
    <3>3. QED BY <3>1, <3>2, <2>2, <1>3 DEF Finished
  <2>5. CASE ~Spent(b, k)
    <3>1. CASE UNCHANGED <<given, begun>> BY <3>1, <2>3, <2>5 DEF Spent, Gave
    <3>2. CASE \E deeds : Hears(e, deeds)
      <4>1. PICK deeds : Hears(e, deeds) BY <3>2
      <4>2. b = c /\ k = id /\ e.kind = "Release" /\ ~Noted(c) BY <2>3, <2>5, <4>1, <1>1, <1>2, SpendsNow
      <4>3. Finished(c, id) BY <4>2, <1>2, <1>8 DEF EventOK
      <4>4. ~Has(c, {"LongPress"})
        <5>1. SUFFICES ASSUME NEW j \in DOMAIN events, events[j].control = c, events[j].kind = "LongPress" PROVE FALSE
          BY DEF Has
        <5>2. j # 1 /\ j \in Nat BY <5>1, <4>2, <1>1, <1>8 DEF Routes
        <5>3. 1 < j
          <6>1. j - 1 \in DOMAIN events' BY <5>1, <5>2, <1>1 DEF Routes
          <6>2. j - 1 \in Nat \ {0} BY <6>1, <1>1 DEF Routes
          <6>3. QED BY <6>2, <5>2
        <5>4. QED BY <5>1, <5>3, <4>2, <1>2, <1>8 DEF EventOK
      <4>5. RouterExpects(1) BY <4>1, <1>8 DEF Hears, RouterOK
      <4>6. <<c, id>> \notin cut BY <4>2, <4>4, <4>5, <1>2, <1>8 DEF RouterExpects
      <4>7. Finished(c, id)' BY <4>3, <1>7
      <4>8. QED BY <4>2, <4>6, <4>7, <2>2, <1>3 DEF Finished
    <3>3. QED BY <3>1, <3>2, <1>1
  <2>6. QED BY <2>4, <2>5
<1>15. HeldOK'
  <2>1. SUFFICES ASSUME NEW g \in given', g[3] = "hold" PROVE Old(g[1], g[2])' BY DEF HeldOK
  <2>2. CASE g \in given
    <3>1. Old(g[1], g[2]) BY <2>1, <2>2 DEF ButtonsInv, HeldOK
    <3>2. QED BY <3>1, <1>5
  <2>3. CASE g \notin given
    <3>1. PICK deeds : Hears(e, deeds) BY <2>1, <2>3, <1>1
    <3>2. PICK x \in deeds : g = <<c, id, x>> BY <2>1, <2>3, <3>1, <1>2 DEF Hears, Given
    <3>3. g[1] = c /\ g[2] = id /\ "hold" \in deeds BY <3>2, <2>1
    <3>4. e.kind \in {"Repeat", "LongPress"} BY <3>1, <3>3 DEF Hears, Answers
    <3>5. Old(c, id)
      <4>1. CASE e.kind = "LongPress" BY <4>1, <1>2, <1>8 DEF EventOK
      <4>2. CASE e.kind = "Repeat"
        <5>1. c \in DOMAIN pressed /\ pressed[c].id = id /\ pressed[c].long BY <4>2, <1>2, <1>8 DEF EventOK
        <5>2. KnownOK(c, Stream(DeviceOf(c))) BY <5>1, <1>9
        <5>3. QED BY <5>1, <5>2 DEF KnownOK
      <4>3. QED BY <3>4, <4>1, <4>2
    <3>6. Old(c, id)' BY <3>5, <1>5
    <3>7. QED BY <3>3, <3>6 DEF Old
  <2>4. QED BY <2>2, <2>3
<1>16. QED BY <1>12, <1>13, <1>14, <1>15 DEF DevicesInv
LEMMA LaterEvents ==
  ASSUME NEW e, Routes(e), \A i \in DOMAIN events : EventOK(i),
         NEW j \in DOMAIN events, j # 1, events[j].control = e.control
  PROVE  e.kind = "LongPress" /\ events[j].kind = "Release" /\ events[j].id = e.id
<1>1. j - 1 \in DOMAIN events' /\ j \in Nat BY DEF Routes
<1>2. j - 1 \in Nat \ {0} BY <1>1 DEF Routes
<1>3. 1 < j BY <1>1, <1>2
<1>4. QED BY <1>3 DEF Routes, EventOK
LEMMA LaterOK ==
  ASSUME NEW e, Routes(e), \A i \in DOMAIN events : EventOK(i),
         \A b, k : Spent(b, k)' => Spent(b, k) \/ (b = e.control /\ k = e.id /\ e.kind = "Release"),
         \A b, k : Unheard(b, k) /\ b # e.control => Unheard(b, k)',
         NEW j \in DOMAIN events'
  PROVE  EventOK(j)'
<1>1. PICK i : i = j + 1 OBVIOUS
<1>2. j \in Nat \ {0} /\ i \in DOMAIN events /\ i # 1 /\ (j + 1 \in DOMAIN events' <=> i + 1 \in DOMAIN events)
  BY <1>1 DEF Routes
<1>3. PICK v, b, k : v = events[i] /\ b = v.control /\ k = v.id OBVIOUS
<1>4. events'[j] = v BY <1>1, <1>3 DEF Routes
<1>5. EventOK(i) BY <1>2
<1>6. b = e.control => e.kind = "LongPress" /\ v.kind = "Release" BY <1>2, <1>3, LaterEvents
<1>7. ~Spent(b, k)' BY <1>3, <1>5, <1>6 DEF EventOK
<1>8. v.kind = "Press" => Unheard(b, k)' BY <1>3, <1>5, <1>6 DEF EventOK
<1>9. UNCHANGED <<clock, down, presses, lines, raw, pressed, quick>> BY DEF Routes
<1>10. (Old(b, k)' <=> Old(b, k)) /\ (Finished(b, k)' <=> Finished(b, k)) BY <1>9 DEF Old, Finished, Stream
<1>11. i + 1 \in DOMAIN events => j + 1 \in DOMAIN events' /\ events'[j + 1] = events[i + 1]
  <2>1. SUFFICES ASSUME i + 1 \in DOMAIN events PROVE j + 1 \in DOMAIN events' /\ events'[j + 1] = events[i + 1] OBVIOUS
  <2>2. j + 1 \in DOMAIN events' BY <1>2, <2>1
  <2>3. events'[j + 1] = events[(j + 1) + 1] BY <2>2 DEF Routes
  <2>4. QED BY <2>2, <2>3, <1>1
<1>12. ASSUME NEW l \in DOMAIN events', j < l, events'[l].control = b
       PROVE  v.kind = "LongPress" /\ events'[l].kind = "Release" /\ events'[l].id = k
  <2>1. l \in Nat /\ l + 1 \in DOMAIN events /\ events'[l] = events[l + 1] BY DEF Routes
  <2>2. i < l + 1 BY <2>1, <1>1, <1>2, <1>12
  <2>3. QED BY <2>1, <2>2, <1>3, <1>5, <1>12 DEF EventOK
<1>13. PICK x : x = events' OBVIOUS
<1>14. v.kind = "LongPress" =>
         /\ Old(b, k)'
         /\ \/ b \in DOMAIN pressed' /\ pressed'[b].id = k /\ pressed'[b].long
            \/ j + 1 \in DOMAIN x /\ x[j + 1] = Event("Release", b, k)
  BY <1>3, <1>5, <1>9, <1>10, <1>11, <1>13 DEF EventOK
<1>15. /\ v.kind \in {"Press", "Repeat"} => b \in DOMAIN pressed' /\ pressed'[b].id = k
       /\ v.kind = "Press" => ~pressed'[b].long
       /\ v.kind = "Repeat" => pressed'[b].long
       /\ v.kind \in {"Release", "Cancel"} => b \notin DOMAIN pressed'
       /\ v.kind = "Release" => Finished(b, k)'
  BY <1>3, <1>5, <1>9, <1>10 DEF EventOK
<1>16. QED BY <1>3, <1>4, <1>7, <1>8, <1>12, <1>13, <1>14, <1>15 DEF EventOK
LEMMA RouteEvents ==
  ASSUME ButtonsAssumption, ButtonsInv, Route PROVE \A i \in DOMAIN events' : EventOK(i)'
<1>1. PICK e : Routes(e) /\ \/ sleepPrepared /\ UNCHANGED <<router, lit, hold, given, begun>>
                            \/ \E deeds : Hears(e, deeds)
  BY RouteIs
<1>2. \A i \in DOMAIN events : EventOK(i) BY DEF ButtonsInv, RoutingInv
<1>3. CASE UNCHANGED <<given, begun>>
  <2>1. \A b, k : (Spent(b, k)' <=> Spent(b, k)) /\ (Unheard(b, k)' <=> Unheard(b, k)) BY <1>3 DEF Spent, Gave, Unheard
  <2>2. QED BY <1>1, <1>2, <2>1, LaterOK
<1>4. CASE \E deeds : Hears(e, deeds)
  <2>1. \A b, k : Spent(b, k)' => Spent(b, k) \/ (b = e.control /\ k = e.id /\ e.kind = "Release")
    BY <1>1, <1>4, SpendsNow
  <2>2. \A b, k : Unheard(b, k) /\ b # e.control => Unheard(b, k)' BY <1>4, FreshStays
  <2>3. QED BY <1>1, <1>2, <2>1, <2>2, LaterOK
<1>5. QED BY <1>1, <1>3, <1>4
LEMMA RouteRouter ==
  ASSUME ButtonsAssumption, ButtonsInv, NEW e, NEW deeds, Routes(e), Hears(e, deeds) PROVE RouterOK'
<1>1. RouterOK /\ Answers(e, deeds, router') /\ Retains(e, router') /\ Given(e, deeds) BY DEF Hears
<1>2. PICK c, id : c = e.control /\ id = e.id OBVIOUS
<1>3. /\ c \in Controls /\ e.kind \in Kinds /\ EventOK(1) /\ events[1] = e /\ 1 \in DOMAIN events
      /\ UNCHANGED <<pressed, mode, cut>>
  BY <1>2 DEF Routes, KeyEvents
<1>4. \A i \in DOMAIN events : EventOK(i) BY DEF ButtonsInv, RoutingInv
<1>5. ASSUME NEW j \in DOMAIN events'
      PROVE  /\ j + 1 \in DOMAIN events /\ j + 1 # 1 /\ events'[j] = events[j + 1]
             /\ events'[j].control = c => e.kind = "LongPress" /\ events'[j].kind = "Release" /\ events'[j].id = id
  <2>1. j + 1 \in DOMAIN events /\ j + 1 # 1 /\ events'[j] = events[j + 1] BY <1>5 DEF Routes
  <2>2. QED BY <2>1, <1>2, <1>4, LaterEvents
<1>6. ASSUME NEW b, b # c, NEW kinds PROVE Has(b, kinds)' <=> Has(b, kinds)
  <2>1. Has(b, kinds)' => Has(b, kinds) BY <1>5 DEF Has
  <2>2. ASSUME NEW i \in DOMAIN events, events[i].control = b, events[i].kind \in kinds PROVE Has(b, kinds)'
    <3>1. i # 1 /\ i \in Nat BY <2>2, <1>2, <1>3, <1>6 DEF Routes
    <3>2. i - 1 \in DOMAIN events' BY <3>1, <2>2 DEF Routes
    <3>3. events'[i - 1] = events[(i - 1) + 1] BY <3>2, <1>5
    <3>4. (i - 1) + 1 = i BY <3>1
    <3>5. QED BY <3>2, <3>3, <3>4, <2>2 DEF Has
  <2>3. QED BY <2>1, <2>2 DEF Has
<1>7. ~Has(c, {"LongPress"})' /\ ~Has(c, {"Press"})' BY <1>5 DEF Has
<1>8. e.kind # "LongPress" => ~Has(c, {"LongPress"})
  <2>1. SUFFICES ASSUME e.kind # "LongPress", NEW j \in DOMAIN events, events[j].control = c, events[j].kind = "LongPress"
        PROVE FALSE
    BY DEF Has
  <2>2. j # 1 BY <2>1, <1>3
  <2>3. QED BY <2>1, <2>2, <1>2, <1>4, LaterEvents
<1>9. \A b : RestsInTheDark(b)' <=> RestsInTheDark(b) BY <1>3 DEF RestsInTheDark
<1>10. ASSUME NEW b \in Controls, b # c
       PROVE  (Kept(b)' <=> Kept(b)) /\ (Noted(b)' <=> Noted(b)) /\ (Resting(b)' <=> Resting(b))
  BY <1>1, <1>2, <1>10 DEF Retains, Kept, Noted, Resting
<1>11. ASSUME NEW b, b # c, NEW k
       PROVE  (\A x : Gave(b, k, x)' <=> Gave(b, k, x)) /\ (<<b, k>> \in begun' <=> <<b, k>> \in begun)
  <2>1. \A x : Gave(b, k, x)' <=> Gave(b, k, x) BY <1>1, <1>2, <1>11, GivesNow
  <2>2. <<b, k>> \in begun' <=> <<b, k>> \in begun BY <1>1, <1>2, <1>11 DEF Given
  <2>3. QED BY <2>1, <2>2
<1>12. e.kind # "Press" => begun' = begun BY <1>1 DEF Given
<1>13. e.kind \in {"Press", "Repeat"} => c \in DOMAIN pressed /\ pressed[c].id = id BY <1>2, <1>3 DEF EventOK
<1>14. e.kind = "LongPress" => \/ c \in DOMAIN pressed /\ pressed[c].id = id /\ pressed[c].long
                               \/ c \notin DOMAIN pressed /\ Has(c, {"Release", "Cancel"})'
  <2>1. SUFFICES ASSUME e.kind = "LongPress", ~(c \in DOMAIN pressed /\ pressed[c].id = id /\ pressed[c].long)
        PROVE  c \notin DOMAIN pressed /\ Has(c, {"Release", "Cancel"})'
    OBVIOUS
  <2>2. 2 \in DOMAIN events /\ events[2] = Event("Release", c, id) BY <2>1, <1>2, <1>3 DEF EventOK
  <2>3. EventOK(2) BY <2>2, <1>4
  <2>4. 2 - 1 \in DOMAIN events' BY <2>2 DEF Routes
  <2>5. 1 \in DOMAIN events' BY <2>4
  <2>6. events'[1] = events[1 + 1] BY <2>5, <1>5
  <2>7. events'[1] = Event("Release", c, id) BY <2>2, <2>6
  <2>8. QED BY <2>2, <2>3, <2>5, <2>7 DEF EventOK, Event, Has
<1>15. router'.keys \cap (router'.long \cup router'.dark) = {} BY <1>1 DEF Retains
<1>16. ASSUME NEW b \in Controls, Kept(b)' PROVE b \in DOMAIN pressed' \/ Has(b, {"Release", "Cancel"})'
  <2>1. CASE b # c BY <2>1, <1>1, <1>3, <1>6, <1>10, <1>16 DEF RouterOK
  <2>2. CASE b = c
    <3>1. e.kind \notin {"Release", "Cancel"} BY <2>2, <1>1, <1>2, <1>16 DEF Retains, Kept
    <3>2. QED BY <3>1, <2>2, <1>3, <1>13, <1>14 DEF Kinds
  <2>3. QED BY <2>1, <2>2
<1>17. ASSUME NEW b \in Controls, Has(b, {"Press"})' PROVE ~Kept(b)'
  <2>1. b # c BY <1>7, <1>17
  <2>2. QED BY <2>1, <1>1, <1>6, <1>10, <1>17 DEF RouterOK
<1>18. "Power" \notin router'.keys BY <1>1 DEF Retains, Arrows
<1>19. ASSUME NEW b \in DOMAIN pressed' PROVE RouterKnows(b)'
  <2>0. b \in DOMAIN pressed /\ b \in Controls BY <1>3, <1>19 DEF ButtonsInv, ButtonsTyped
  <2>1. RouterKnows(b) BY <2>0, <1>1 DEF RouterOK
  <2>2. PICK k, long, resumed : k = pressed[b].id /\ long = pressed[b].long /\ resumed = pressed[b].resumed OBVIOUS
  <2>3. k = pressed'[b].id /\ long = pressed'[b].long /\ resumed = pressed'[b].resumed BY <2>2, <1>3
  <2>4. /\ long /\ ~Has(b, {"LongPress"}) => Noted(b)
        /\ ~resumed /\ (Gave(b, k, "hold") \/ Gave(b, k, "arrow")) /\ ~Has(b, {"LongPress"}) => Noted(b)
        /\ ~resumed /\ <<b, k>> \in begun => (b = "Power" => router.power = "dark") /\ (RestsInTheDark(b) => Resting(b))
    BY <2>1, <2>2 DEF RouterKnows
  <2>5. SUFFICES /\ long /\ ~Has(b, {"LongPress"})' => Noted(b)'
                 /\ ~resumed /\ (Gave(b, k, "hold")' \/ Gave(b, k, "arrow")') /\ ~Has(b, {"LongPress"})' => Noted(b)'
                 /\ ~resumed /\ <<b, k>> \in begun' =>
                      (b = "Power" => router'.power = "dark") /\ (RestsInTheDark(b) => Resting(b)')
    BY <2>3, <1>9 DEF RouterKnows, Gave
  <2>6. CASE b # c
    <3>1. b = "Power" => router'.power = router.power BY <2>6, <1>1, <1>2 DEF Retains
    <3>2. QED BY <3>1, <2>0, <2>4, <2>6, <1>6, <1>10, <1>11
  <2>7. CASE b = c
    <3>1. e.kind \in {"Press", "Repeat", "LongPress"} BY <2>0, <2>7, <1>2, <1>3 DEF EventOK, Kinds
    <3>2. k = id BY <3>1, <2>0, <2>2, <2>7, <1>13, <1>14
    <3>3. CASE e.kind = "LongPress"
      <4>1. Noted(c)' BY <3>3, <1>1, <1>2 DEF Retains, Noted
      <4>2. begun' = begun BY <3>3, <1>12
      <4>3. (Resting(c)' <=> Resting(c)) /\ router'.power = router.power BY <3>3, <1>1, <1>2 DEF Retains, Resting
      <4>4. QED BY <4>1, <4>2, <4>3, <2>4, <2>7
    <3>4. CASE e.kind = "Repeat"
      <4>1. long BY <3>4, <2>2, <2>7, <1>2, <1>3 DEF EventOK
      <4>2. Noted(c) BY <4>1, <3>4, <2>4, <2>7, <1>8
      <4>3. Noted(c)' BY <4>2, <3>4, <1>1, <1>2 DEF Retains, Noted
      <4>4. begun' = begun BY <3>4, <1>12
      <4>5. (Resting(c)' <=> Resting(c)) /\ router'.power = router.power BY <3>4, <1>1, <1>2 DEF Retains, Resting
      <4>6. QED BY <4>3, <4>4, <4>5, <2>4, <2>7
    <3>5. CASE e.kind = "Press"
      <4>1. Unheard(c, id) /\ ~long BY <3>5, <2>2, <2>7, <1>2, <1>3 DEF EventOK
      <4>2. ASSUME NEW x, Gave(c, id, x)' PROVE x \in deeds
        <5>1. ~Gave(c, id, x)
          <6>1. SUFFICES ASSUME NEW g \in given, g = <<c, id, x>> PROVE FALSE BY DEF Gave
          <6>2. g[1] = c /\ g[2] = id BY <6>1
          <6>3. QED BY <6>2, <4>1 DEF Unheard
        <5>2. QED BY <5>1, <4>2, <1>1, GivesNow
      <4>3. (Gave(c, id, "hold")' \/ Gave(c, id, "arrow")') => Noted(c)' BY <4>2, <1>1, <1>2 DEF Answers, Noted
      <4>4. <<c, id>> \in begun' => ~lit BY <4>1, <1>1 DEF Given, Unheard
      <4>5. <<c, id>> \in begun' => (c = "Power" => router'.power = "dark") /\ (RestsInTheDark(c) => Resting(c)')
        BY <4>4, <3>5, <1>1, <1>2 DEF Retains, Resting
      <4>6. QED BY <4>1, <4>3, <4>5, <3>2, <2>7
    <3>6. QED BY <3>1, <3>3, <3>4, <3>5
  <2>8. QED BY <2>6, <2>7
<1>20. ASSUME NEW j \in DOMAIN events' PROVE RouterExpects(j)'
  <2>1. PICK i, v, b, k : i = j + 1 /\ v = events[i] /\ b = v.control /\ k = v.id OBVIOUS
  <2>2. i \in DOMAIN events /\ events'[j] = v BY <2>1, <1>5
  <2>3. /\ v.kind = "Release" /\ ~Has(b, {"LongPress"}) =>
              /\ Gave(b, k, "hold") \/ Gave(b, k, "arrow") \/ <<b, k>> \in cut => Noted(b)
              /\ b = "Power" /\ <<b, k>> \in begun => router.power = "dark" \/ b \in router.long
        /\ v.kind # "Cancel" /\ <<b, k>> \in begun /\ RestsInTheDark(b) => Resting(b)
    BY <2>1, <2>2, <1>1 DEF RouterOK, RouterExpects
  <2>4. SUFFICES
        /\ v.kind = "Release" /\ ~Has(b, {"LongPress"})' =>
              /\ Gave(b, k, "hold")' \/ Gave(b, k, "arrow")' \/ <<b, k>> \in cut => Noted(b)'
              /\ b = "Power" /\ <<b, k>> \in begun' => router'.power = "dark" \/ b \in router'.long
        /\ v.kind # "Cancel" /\ <<b, k>> \in begun' /\ RestsInTheDark(b) => Resting(b)'
    BY <2>1, <2>2, <1>3, <1>9 DEF RouterExpects, Gave
  <2>5. b \in Controls
    <3>1. v \in KeyEvents BY <2>1, <2>2, LenProperties, ElementOfSeq DEF ButtonsInv, ButtonsTyped
    <3>2. QED BY <3>1, <2>1 DEF KeyEvents
  <2>6. CASE b # c
    <3>1. b = "Power" => router'.power = router.power BY <2>6, <1>1, <1>2 DEF Retains
    <3>2. b \in router'.long <=> b \in router.long BY <2>5, <2>6, <1>1, <1>2 DEF Retains
    <3>3. QED BY <3>1, <3>2, <2>3, <2>5, <2>6, <1>6, <1>10, <1>11
  <2>7. CASE b = c
    <3>1. e.kind = "LongPress" /\ v.kind = "Release" /\ k = id BY <2>1, <2>2, <2>7, <1>5
    <3>2. Noted(c)' BY <3>1, <1>1, <1>2 DEF Retains, Noted
    <3>3. c = "Power" => c \in router'.long BY <3>2, <1>18 DEF Noted
    <3>4. begun' = begun /\ (Resting(c)' <=> Resting(c)) BY <3>1, <1>1, <1>2, <1>12 DEF Retains, Resting
    <3>5. RouterExpects(1) BY <1>1, <1>3 DEF RouterOK
    <3>6. <<c, id>> \in begun /\ RestsInTheDark(c) => Resting(c) BY <3>1, <3>5, <1>2, <1>3 DEF RouterExpects
    <3>7. QED BY <3>1, <3>2, <3>3, <3>4, <3>6, <2>7
  <2>8. QED BY <2>6, <2>7
<1>21. QED BY <1>15, <1>16, <1>17, <1>19, <1>20 DEF RouterOK
LEMMA RouteMeans ==
  ASSUME ButtonsAssumption, ButtonsInv, NEW e, NEW deeds, Routes(e), Hears(e, deeds)
  PROVE  ShortIsShort' /\ DarkIsDark'
<1>1. RouterOK /\ Answers(e, deeds, router') /\ Given(e, deeds) BY DEF Hears
<1>2. PICK c, id : c = e.control /\ id = e.id OBVIOUS
<1>3. EventOK(1) /\ events[1] = e /\ 1 \in DOMAIN events /\ RouterExpects(1) /\ e.kind \in Kinds /\ UNCHANGED mode
  BY <1>1 DEF Routes, RouterOK, KeyEvents
<1>4. ~Spent(c, id) BY <1>2, <1>3 DEF EventOK
<1>5. \A b, k, x : Gave(b, k, x)' <=> Gave(b, k, x) \/ (b = c /\ k = id /\ x \in deeds \ {"cancel"})
  BY <1>1, <1>2, GivesNow
<1>6. ShortIsShort /\ DarkIsDark BY DEF ButtonsInv, RoutingInv
<1>7. e.kind = "Release" => ~Has(c, {"LongPress"})
  <2>1. SUFFICES ASSUME e.kind = "Release", NEW j \in DOMAIN events, events[j].control = c, events[j].kind = "LongPress"
        PROVE FALSE
    BY DEF Has
  <2>2. j # 1 BY <2>1, <1>3
  <2>3. \A i \in DOMAIN events : EventOK(i) BY DEF ButtonsInv, RoutingInv
  <2>4. QED BY <2>1, <2>2, <2>3, <1>2, LaterEvents
<1>8. ASSUME NEW x \in {"short", "sleep"}, x \in deeds
      PROVE  /\ e.kind = "Release" /\ ~Noted(c) /\ "hold" \notin deeds /\ "arrow" \notin deeds
             /\ ~Gave(c, id, "hold") /\ ~Gave(c, id, "arrow")
  <2>1. e.kind = "Release" BY <1>1, <1>8 DEF Answers
  <2>2. ~Noted(c)
    <3>1. ~(deeds \subseteq {"cancel"}) BY <1>8
    <3>2. QED BY <3>1, <2>1, <1>1, <1>2 DEF Answers
  <2>3. "hold" \notin deeds /\ "arrow" \notin deeds BY <2>1, <1>1 DEF Answers
  <2>4. ~Gave(c, id, "hold") /\ ~Gave(c, id, "arrow") BY <2>1, <2>2, <1>2, <1>3, <1>7 DEF RouterExpects
  <2>5. QED BY <2>1, <2>2, <2>3, <2>4
<1>9. ShortIsShort'
  <2>1. SUFFICES ASSUME NEW g \in given', g[3] \in {"short", "sleep"}
        PROVE  ~Gave(g[1], g[2], "hold")' /\ ~Gave(g[1], g[2], "arrow")'
    BY DEF ShortIsShort, Gave
  <2>2. PICK b, k, x : b = g[1] /\ k = g[2] /\ x = g[3] OBVIOUS
  <2>3. SUFFICES ~Gave(b, k, "hold")' /\ ~Gave(b, k, "arrow")' BY <2>2 DEF Gave
  <2>4. CASE b = c /\ k = id
    <3>1. x \in deeds
      <4>1. CASE g \in given
        <5>1. <<b, k, x>> \in given BY <4>1, <2>2 DEF ButtonsInv, ButtonsTyped
        <5>2. QED BY <5>1, <2>1, <2>2, <2>4, <1>4 DEF Spent, Gave
      <4>2. CASE g \notin given
        <5>1. PICK y \in deeds : g = <<c, id, y>> BY <4>2, <1>1, <1>2 DEF Given
        <5>2. QED BY <5>1, <2>2
      <4>3. QED BY <4>1, <4>2
    <3>2. ~Gave(c, id, "hold") /\ ~Gave(c, id, "arrow") /\ "hold" \notin deeds /\ "arrow" \notin deeds
      BY <3>1, <2>1, <2>2, <1>8
    <3>3. QED BY <3>2, <2>4, <1>5
  <2>5. CASE ~(b = c /\ k = id)
    <3>1. g \in given
      <4>1. SUFFICES ASSUME g \notin given PROVE FALSE OBVIOUS
      <4>2. PICK y : g = <<c, id, y>> BY <4>1, <1>1, <1>2 DEF Given
      <4>3. QED BY <4>2, <2>2, <2>5
    <3>2. ~Gave(b, k, "hold") /\ ~Gave(b, k, "arrow") BY <3>1, <2>1, <2>2, <1>6 DEF ShortIsShort
    <3>3. QED BY <3>2, <2>5, <1>5
  <2>6. QED BY <2>4, <2>5
<1>10. DarkIsDark'
  <2>1. SUFFICES ASSUME NEW p \in begun'
        PROVE  /\ ~Gave(p[1], p[2], "sleep")'
               /\ RestsInTheDark(p[1])' => ~\E g \in given' : g[1] = p[1] /\ g[2] = p[2]
    BY DEF DarkIsDark, Gave
  <2>2. PICK b, k : b = p[1] /\ k = p[2] OBVIOUS
  <2>3. RestsInTheDark(b)' <=> RestsInTheDark(b) BY <1>3 DEF RestsInTheDark
  <2>4. p \notin begun => b = c /\ k = id /\ e.kind = "Press" /\ ~lit BY <2>1, <2>2, <1>1, <1>2 DEF Given
  <2>5. p \notin begun => Unheard(c, id) BY <2>4, <1>2, <1>3 DEF EventOK
  <2>6. ~Gave(b, k, "sleep")'
    <3>1. SUFFICES ASSUME Gave(b, k, "sleep")' PROVE FALSE OBVIOUS
    <3>2. CASE Gave(b, k, "sleep")
      <4>1. p \notin begun BY <3>2, <2>2, <1>6 DEF DarkIsDark
      <4>2. PICK g \in given : g = <<c, id, "sleep">> BY <3>2, <2>4, <4>1 DEF Gave
      <4>3. g[1] = c /\ g[2] = id BY <4>2
      <4>4. QED BY <4>1, <4>3, <2>5 DEF Unheard
    <3>3. CASE ~Gave(b, k, "sleep")
      <4>1. b = c /\ k = id /\ "sleep" \in deeds BY <3>1, <3>3, <1>5
      <4>2. e.kind = "Release" /\ ~Noted(c) /\ c = "Power" /\ router.power # "dark" BY <4>1, <1>1, <1>2, <1>8 DEF Answers
      <4>3. p \in begun BY <4>2, <2>4
      <4>4. <<c, id>> \in begun
        <5>1. p \in Controls \X (Nat \ {0}) BY <4>3 DEF ButtonsInv, ButtonsTyped, Presses
        <5>2. p = <<b, k>> BY <5>1, <2>2
        <5>3. QED BY <5>2, <4>1, <4>3
      <4>5. QED BY <4>2, <4>4, <1>2, <1>3, <1>7 DEF RouterExpects, Noted
    <3>4. QED BY <3>2, <3>3
  <2>7. ASSUME RestsInTheDark(b), NEW g \in given', g[1] = b, g[2] = k PROVE FALSE
    <3>1. CASE g \in given
      <4>1. CASE p \in begun BY <4>1, <3>1, <2>2, <2>7, <1>6 DEF DarkIsDark
      <4>2. CASE p \notin begun BY <4>2, <3>1, <2>4, <2>5, <2>7 DEF Unheard
      <4>3. QED BY <4>1, <4>2
    <3>2. CASE g \notin given
      <4>1. PICK x \in deeds \ {"cancel"} : g = <<c, id, x>> BY <3>2, <1>1, <1>2 DEF Given
      <4>2. b = c /\ k = id /\ ~(deeds \subseteq {"cancel"}) BY <4>1, <2>7
      <4>3. CASE p \notin begun
        <5>1. e.kind = "Press" /\ ~lit BY <4>3, <2>4
        <5>2. QED BY <5>1, <4>2, <1>1 DEF Answers
      <4>4. CASE p \in begun
        <5>1. <<c, id>> \in begun
          <6>1. p \in Controls \X (Nat \ {0}) BY <4>4 DEF ButtonsInv, ButtonsTyped, Presses
          <6>2. p = <<b, k>> BY <6>1, <2>2
          <6>3. QED BY <6>2, <4>2, <4>4
        <5>2. e.kind # "Press" BY <5>1, <1>2, <1>3 DEF EventOK, Unheard
        <5>3. e.kind # "Cancel" BY <4>2, <1>1 DEF Answers
        <5>4. Resting(c) BY <5>1, <5>3, <4>2, <2>7, <1>2, <1>3 DEF RouterExpects
        <5>5. QED BY <5>2, <5>4, <4>2, <1>1, <1>2 DEF Answers
      <4>5. QED BY <4>3, <4>4
    <3>3. QED BY <3>1, <3>2
  <2>8. ~Gave(p[1], p[2], "sleep")' BY <2>2, <2>6 DEF Gave
  <2>9. RestsInTheDark(p[1])' => RestsInTheDark(b) BY <2>2, <2>3 DEF RestsInTheDark
  <2>10. QED BY <2>2, <2>7, <2>8, <2>9
<1>11. QED BY <1>9, <1>10
LEMMA RouteHolds ==
  ASSUME ButtonsAssumption, ButtonsInv, NEW e, NEW deeds, Routes(e), Hears(e, deeds) PROVE HoldOK'
<1>1. /\ RouterOK /\ Awake /\ Answers(e, deeds, router') /\ Retains(e, router') /\ Shows(e, deeds)
      /\ UNCHANGED <<pressed, sleepPrepared, resume>>
  BY DEF Hears, Routes
<1>2. Awake' BY <1>1 DEF Awake
<1>3. PICK c, id : c = e.control /\ id = e.id OBVIOUS
<1>4. EventOK(1) /\ events[1] = e /\ 1 \in DOMAIN events /\ e.kind \in Kinds /\ c \in Controls
  BY <1>3 DEF Routes, KeyEvents
<1>5. SUFFICES ASSUME ~WakeFails, hold' # 0 PROVE lit' /\ "Power" \in router'.long /\ HoldIsPressed'
  BY <1>2 DEF HoldOK
<1>6. ASSUME NEW i \in DOMAIN events, i # 1, events[i].control = "Power", events[i].kind \in {"Release", "Cancel"}
      PROVE  HoldIsPressed'
  <2>1. i - 1 \in DOMAIN events' /\ i \in Nat BY <1>6 DEF Routes
  <2>2. events'[i - 1] = events[(i - 1) + 1] BY <2>1 DEF Routes
  <2>3. (i - 1) + 1 = i BY <2>1
  <2>4. QED BY <2>1, <2>2, <2>3, <1>6 DEF HoldIsPressed
<1>7. CASE c = "Power" /\ "hold" \in deeds
  <2>1. e.kind = "LongPress" /\ c \in router'.long /\ (lit \/ "wake" \in deeds) BY <1>1, <1>3, <1>7 DEF Answers
  <2>2. "sleep" \notin deeds BY <2>1, <1>1 DEF Answers
  <2>3. lit' BY <2>1, <2>2, <1>1, <1>5 DEF Shows
  <2>4. HoldIsPressed'
    <3>1. CASE c \in DOMAIN pressed /\ pressed[c].id = id /\ pressed[c].long BY <3>1, <1>1, <1>7 DEF HoldIsPressed
    <3>2. CASE ~(c \in DOMAIN pressed /\ pressed[c].id = id /\ pressed[c].long)
      <4>1. 1 + 1 \in DOMAIN events /\ events[1 + 1] = Event("Release", c, id) BY <3>2, <2>1, <1>3, <1>4 DEF EventOK
      <4>2. 1 + 1 # 1 OBVIOUS
      <4>3. QED BY <4>1, <4>2, <1>6, <1>7 DEF Event
    <3>3. QED BY <3>1, <3>2
  <2>5. QED BY <2>1, <2>3, <2>4, <1>7
<1>8. CASE ~(c = "Power" /\ "hold" \in deeds)
  <2>1. "cancel" \notin deeds /\ hold # 0
    <3>1. "cancel" \in deeds => hold' = 0 BY <1>1, <1>3, <1>8 DEF Shows
    <3>2. "cancel" \notin deeds => hold' = hold BY <1>1, <1>3, <1>8 DEF Shows
    <3>3. QED BY <3>1, <3>2, <1>5
  <2>2. lit /\ "Power" \in router.long /\ HoldIsPressed BY <2>1, <1>5 DEF ButtonsInv, HoldOK
  <2>3. c = "Power" => e.kind \notin {"Release", "Cancel"} BY <2>1, <2>2, <1>1, <1>3 DEF Answers
  <2>4. "sleep" \notin deeds BY <2>3, <1>1, <1>3 DEF Answers
  <2>5. lit' BY <2>2, <2>4, <1>1, <1>5 DEF Shows
  <2>6. "Power" \in router'.long
    <3>1. CASE c # "Power"
      <4>1. "Power" \in Controls BY <2>2 DEF ButtonsInv, RouterTyped
      <4>2. QED BY <4>1, <3>1, <2>2, <1>1, <1>3 DEF Retains
    <3>2. CASE c = "Power"
      <4>1. e.kind # "Press"
        <5>1. SUFFICES ASSUME e.kind = "Press" PROVE FALSE OBVIOUS
        <5>2. Has("Power", {"Press"}) BY <5>1, <3>2, <1>3, <1>4 DEF Has
        <5>3. QED BY <5>2, <3>2, <2>2, <1>1, <1>4 DEF RouterOK, Kept
      <4>2. e.kind \in {"LongPress", "Repeat"} BY <4>1, <3>2, <2>3, <1>4 DEF Kinds
      <4>3. QED BY <4>2, <3>2, <2>2, <1>1, <1>3 DEF Retains
    <3>3. QED BY <3>1, <3>2
  <2>7. HoldIsPressed'
    <3>1. CASE "Power" \in DOMAIN pressed /\ pressed["Power"].long BY <3>1, <1>1 DEF HoldIsPressed
    <3>2. CASE \E i \in DOMAIN events : events[i].control = "Power" /\ events[i].kind \in {"Release", "Cancel"}
      <4>1. PICK i \in DOMAIN events : events[i].control = "Power" /\ events[i].kind \in {"Release", "Cancel"} BY <3>2
      <4>2. i # 1 BY <4>1, <2>3, <1>3, <1>4
      <4>3. QED BY <4>1, <4>2, <1>6
    <3>3. QED BY <3>1, <3>2, <2>1, <2>2 DEF HoldIsPressed
  <2>8. QED BY <2>5, <2>6, <2>7
<1>9. QED BY <1>7, <1>8
LEMMA RouteRouting ==
  ASSUME ButtonsAssumption, ButtonsInv, Route PROVE RoutingInv' /\ HoldOK'
<1>1. PICK e : Routes(e) /\ \/ sleepPrepared /\ UNCHANGED <<router, lit, hold, given, begun>>
                            \/ \E deeds : Hears(e, deeds)
  BY RouteIs
<1>2. \A i \in DOMAIN events' : EventOK(i)' BY RouteEvents
<1>3. CASE sleepPrepared /\ UNCHANGED <<router, lit, hold, given, begun>>
  <2>1. ~Awake' BY <1>1, <1>3 DEF Routes, Awake
  <2>2. ShortIsShort' /\ DarkIsDark'
    BY <1>1, <1>3 DEF ButtonsInv, RoutingInv, ShortIsShort, DarkIsDark, Gave, RestsInTheDark, Routes
  <2>3. ~WakeFails => hold' = 0 BY <1>3 DEF ButtonsInv, HoldOK, Awake
  <2>4. QED BY <1>2, <2>1, <2>2, <2>3 DEF RoutingInv, HoldOK
<1>4. CASE \E deeds : Hears(e, deeds)
  <2>1. PICK deeds : Hears(e, deeds) BY <1>4
  <2>2. RouterOK' BY <2>1, <1>1, RouteRouter
  <2>3. ShortIsShort' /\ DarkIsDark' BY <2>1, <1>1, RouteMeans
  <2>4. HoldOK' BY <2>1, <1>1, RouteHolds
  <2>5. QED BY <1>2, <2>2, <2>3, <2>4 DEF RoutingInv
<1>5. QED BY <1>1, <1>3, <1>4
-----------------------------------------------------------------------------
LEMMA ButtonsInitially ==
  ASSUME ButtonsAssumption, ButtonsInit PROVE ButtonsInv
<1>1. /\ clock = 1 /\ down = NoPress /\ presses = [c \in Controls |-> 0] /\ lines = NoRecords
      /\ fds = [d \in Devices |-> "open"] /\ reading = FALSE /\ raw = NoRecords /\ events = <<>>
      /\ pressed = NoPress /\ router = NoRouter /\ mode \in DarkModes /\ lit = TRUE /\ hold = 0
      /\ resume = FALSE /\ given = {} /\ begun = {} /\ cut = {} /\ quick = {}
  BY DEF ButtonsInit
<1>2. NoRecords \in [Devices -> Seq(KeyRecords)] BY DEF NoRecords
<1>3. DOMAIN NoPress = {} BY DEF NoPress
<1>4. events \in Seq(KeyEvents) /\ \A i \in DOMAIN events : FALSE BY <1>1
<1>p. pressed \in [DOMAIN pressed -> KnownPress] BY <1>1 DEF NoPress
<1>5. ButtonsTyped BY <1>1, <1>2, <1>3, <1>4, <1>p DEF ButtonsTyped, ButtonsAssumption
<1>6. RouterTyped BY <1>1 DEF RouterTyped, NoRouter
<1>7. ReadingOK BY <1>1 DEF ReadingOK
<1>8. DevicesInv
  <2>1. ASSUME NEW d \in Devices PROVE StreamOK(d, Stream(d))
    <3>1. raw[d] = <<>> /\ lines[d] = <<>> BY <1>1 DEF NoRecords
    <3>2. PICK s : s = Stream(d) OBVIOUS
    <3>3. s = <<>> BY <3>1, <3>2 DEF Stream
    <3>4. StreamOK(d, s) BY <3>3 DEF StreamOK, LostFirst, InTurn
    <3>5. QED BY <3>2, <3>4
  <2>2. QED BY <2>1, <1>1, <1>3 DEF DevicesInv
<1>9. SpentOK /\ HeldOK /\ HoldOK BY <1>1 DEF SpentOK, HeldOK, HoldOK
<1>10. RouterOK
  <2>1. \A c, kinds : ~Has(c, kinds) BY <1>4 DEF Has
  <2>2. \A c : ~Kept(c) BY <1>1 DEF Kept, NoRouter
  <2>3. router.keys \cap (router.long \cup router.dark) = {} BY <1>1 DEF NoRouter
  <2>4. QED BY <2>1, <2>2, <2>3, <1>1, <1>3, <1>4 DEF RouterOK
<1>11. RoutingInv BY <1>1, <1>4, <1>10 DEF RoutingInv, ShortIsShort, DarkIsDark
<1>12. QED BY <1>5, <1>6, <1>7, <1>8, <1>9, <1>11 DEF ButtonsInv
LEMMA ButtonsStep ==
  ASSUME ButtonsAssumption, ButtonsInv, ButtonsNext PROVE ButtonsInv'
<1>1. TypesKept
  <2>1. CASE Down BY <2>1, DownTyped
  <2>2. CASE Up BY <2>2, UpTyped
  <2>3. CASE Overflow \/ Rebind BY <2>3, LostTyped
  <2>4. CASE Time \/ Completes \/ Interface \/ Prepare \/ Restore BY <2>4, QuietTyped
  <2>5. CASE Read BY <2>5, ReadTyped
  <2>6. CASE Ingest BY <2>6, IngestTyped
  <2>7. CASE Age BY <2>7, AgeTyped
  <2>8. CASE Resumed BY <2>8, ResumedTyped
  <2>9. CASE Route BY <2>9, RouteTyped
  <2>10. QED BY <2>1, <2>2, <2>3, <2>4, <2>5, <2>6, <2>7, <2>8, <2>9 DEF ButtonsNext
<1>2. DevicesInv' /\ SpentOK' /\ HeldOK'
  <2>1. CASE Down BY <2>1, DownDevices
  <2>2. CASE Up BY <2>2, UpDevices
  <2>3. CASE Overflow \/ Rebind BY <2>3, LostDevices
  <2>4. CASE Time \/ Completes \/ Interface \/ Prepare \/ Restore BY <2>4, QuietDevices
  <2>5. CASE Read BY <2>5, ReadDevices
  <2>6. CASE Ingest BY <2>6, IngestDevices
  <2>7. CASE Age BY <2>7, AgeDevices
  <2>8. CASE Resumed BY <2>8, ResumedDevices
  <2>9. CASE Route BY <2>9, RouteDevices
  <2>10. QED BY <2>1, <2>2, <2>3, <2>4, <2>5, <2>6, <2>7, <2>8, <2>9 DEF ButtonsNext
<1>3. RoutingInv' /\ HoldOK'
  <2>1. CASE Calm BY <2>1, CalmRouting
  <2>2. CASE Ingest BY <2>2, IngestRouting
  <2>3. CASE Age BY <2>3, AgeRouting
  <2>4. CASE Resumed BY <2>4, ResumedRouting
  <2>5. CASE Route BY <2>5, RouteRouting
  <2>6. QED BY <2>1, <2>2, <2>3, <2>4, <2>5 DEF ButtonsNext, Calm
<1>4. QED BY <1>1, <1>2, <1>3 DEF ButtonsInv, TypesKept
LEMMA ButtonsStutter ==
  ASSUME ButtonsInv, UNCHANGED buttonsVars PROVE ButtonsInv'
<1>1. UNCHANGED <<clock, down, presses, lines, fds, reading, raw, blocked, events, pressed, dropping, router, mode,
                  lit, hold, sleepPrepared, resume, given, begun, cut, quick>>
  BY DEF buttonsVars, deviceVars, loopVars, uiVars, ghosts
<1>2. ButtonsTyped' /\ RouterTyped' /\ ReadingOK'
  BY <1>1 DEF ButtonsInv, ButtonsTyped, RouterTyped, ReadingOK, Presses, RestsInTheDark
<1>3. (\A d : Stream(d)' = Stream(d)) /\ (\A c, id : Old(c, id)' <=> Old(c, id)) /\ (\A c, id : Unheard(c, id)' <=> Unheard(c, id))
      /\ (\A c, id : Spent(c, id)' <=> Spent(c, id)) /\ (\A s, b, k, since, n : Continues(s, b, k, since, n)' <=> Continues(s, b, k, since, n))
  BY <1>1 DEF Stream, Old, Unheard, Spent, Gave, Continues
<1>4. \A c, id : Finished(c, id)' <=> Finished(c, id) BY <1>1, <1>3 DEF Finished
<1>5. ASSUME NEW d \in Devices PROVE StreamOK(d, Stream(d))'
  <2>1. PICK s : s = Stream(d) OBVIOUS
  <2>2. StreamOK(d, s) BY <2>1 DEF ButtonsInv, DevicesInv
  <2>3. StreamOK(d, s)' BY <2>2, <1>1, StreamLeft
  <2>4. QED BY <2>1, <2>3, <1>3
<1>6. ASSUME NEW c \in DOMAIN pressed' PROVE KnownOK(c, Stream(DeviceOf(c)))'
  <2>1. PICK s : s = Stream(DeviceOf(c)) OBVIOUS
  <2>2. KnownOK(c, s) BY <2>1, <1>1, <1>6 DEF ButtonsInv, DevicesInv
  <2>3. KnownOK(c, s)' BY <2>2, <1>1, KnownLeft DEF KnownOK
  <2>4. QED BY <2>1, <2>3, <1>3
<1>7. SpentOK' /\ HeldOK' BY <1>1, <1>3, <1>4 DEF ButtonsInv, SpentOK, HeldOK
<1>8. ASSUME NEW i \in DOMAIN events' PROVE EventOK(i)'
  <2>1. EventOK(i) BY <1>1, <1>8 DEF ButtonsInv, RoutingInv
  <2>2. QED BY <2>1, <1>1, <1>3, <1>4 DEF EventOK
<1>9. \A c, kinds : Has(c, kinds)' <=> Has(c, kinds) BY <1>1 DEF Has
<1>10. RouterOK => RouterOK'
  <2>1. \A c : (Kept(c)' <=> Kept(c)) /\ (RouterKnows(c)' <=> RouterKnows(c))
    BY <1>1, <1>9 DEF Kept, RouterKnows, Noted, Resting, Gave, RestsInTheDark
  <2>2. \A i : RouterExpects(i)' <=> RouterExpects(i) BY <1>1, <1>9 DEF RouterExpects, Noted, Resting, Gave, RestsInTheDark
  <2>3. QED BY <1>1, <1>9, <2>1, <2>2 DEF RouterOK
<1>11. RoutingInv'
  <2>1. Awake' <=> Awake BY <1>1 DEF Awake
  <2>2. ShortIsShort' /\ DarkIsDark'
    BY <1>1 DEF ButtonsInv, RoutingInv, ShortIsShort, DarkIsDark, Gave, RestsInTheDark
  <2>3. QED BY <2>1, <2>2, <1>8, <1>10 DEF ButtonsInv, RoutingInv
<1>12. HoldOK' BY <1>1 DEF ButtonsInv, HoldOK, Awake, HoldIsPressed
<1>13. QED BY <1>2, <1>5, <1>6, <1>7, <1>11, <1>12 DEF ButtonsInv, DevicesInv
LEMMA ButtonsInductive == ButtonsAssumption /\ ButtonsInv /\ [ButtonsNext]_buttonsVars => ButtonsInv'
BY ButtonsStep, ButtonsStutter

LEMMA MeansOne ==
  ASSUME ButtonsInv PROVE OneMeaning
<1>1. ShortIsShort /\ DarkIsDark BY DEF ButtonsInv, RoutingInv
<1>2. ASSUME NEW p \in quick, Gave(p[1], p[2], "hold") PROVE FALSE
  <2>1. PICK b, k : b = p[1] /\ k = p[2] OBVIOUS
  <2>2. PICK g \in given : g = <<b, k, "hold">> BY <2>1, <1>2 DEF Gave
  <2>3. g[1] = b /\ g[2] = k /\ g[3] = "hold" BY <2>2
  <2>4. Old(g[1], g[2]) BY <2>3 DEF ButtonsInv, HeldOK
  <2>5. <<b, k>> \notin quick BY <2>3, <2>4 DEF Old
  <2>6. p = <<b, k>>
    <3>1. p \in Controls \X (Nat \ {0}) BY DEF ButtonsInv, ButtonsTyped, Presses
    <3>2. QED BY <3>1, <2>1
  <2>7. QED BY <2>5, <2>6
<1>3. ASSUME NEW p \in cut
      PROVE  ~Spent(p[1], p[2])
  <2>1. PICK b, k : b = p[1] /\ k = p[2] OBVIOUS
  <2>2. p = <<b, k>>
    <3>1. p \in Controls \X (Nat \ {0}) \/ p \in {"all"} \X Nat BY DEF ButtonsInv, ButtonsTyped, Presses
    <3>2. QED BY <3>1, <2>1
  <2>3. ~Spent(b, k) BY <2>2, SpentIsFinished DEF ButtonsInv
  <2>4. QED BY <2>1, <2>3 DEF Spent, Gave
<1>4. QED BY <1>1, <1>2, <1>3 DEF OneMeaning, QuickIsShort, LostIsNothing, Spent
(* A press means one thing: a short press, a hold or arrow keys, whatever the records, the screen, the *)
(* devices and sleep do between its start and its end (ActionRouter, InputManager).                    *)
THEOREM PressesMeanOne ==
  ASSUME ButtonsAssumption PROVE ButtonsSpec => []OneMeaning
<1>1. ButtonsInit => ButtonsInv BY ButtonsInitially
<1>2. ButtonsInv /\ [ButtonsNext]_buttonsVars => ButtonsInv' BY ButtonsInductive
<1>3. ButtonsInv => OneMeaning BY MeansOne
<1>4. QED BY <1>1, <1>2, <1>3, PTL DEF ButtonsSpec

LEMMA NothingIsKept ==
  ASSUME ButtonsInv PROVE NothingKept
<1>t. ButtonsTyped /\ RouterTyped /\ ReadingOK BY DEF ButtonsInv
<1>1. SUFFICES ASSUME Rests, down = NoPress, lines = NoRecords, ~sleepPrepared, ~resume, fds = [d \in Devices |-> "open"]
      PROVE  pressed = NoPress /\ router.long = {} /\ router.dark = {} /\ router.keys = {}
  BY DEF NothingKept
<1>2. raw = NoRecords /\ events = <<>> /\ DOMAIN down = {} BY <1>1, <1>t DEF Rests, ReadingOK, NoPress
<1>3. ASSUME NEW c \in DOMAIN pressed PROVE FALSE
  <2>1. PICK d, s : d = DeviceOf(c) /\ s = Stream(d) OBVIOUS
  <2>2. d \in Devices BY <2>1, DevicesAre
  <2>3. s = <<>>
    <3>1. lines[d] = <<>> /\ raw[d] = <<>> BY <2>2, <1>1, <1>2 DEF NoRecords
    <3>2. QED BY <3>1, <2>1 DEF Stream
  <2>4. KnownOK(c, s) BY <2>1 DEF ButtonsInv, DevicesInv
  <2>5. Continues(s, c, pressed[c].id, pressed[c].since, 0) BY <2>1, <2>2, <2>3, <2>4, <1>1 DEF KnownOK, Lost
  <2>6. 0 + 1 .. Len(s) = {} BY <2>3
  <2>7. QED BY <2>5, <2>6, <1>2 DEF Continues
<1>4. DOMAIN pressed = {} BY <1>3
<1>5. \A c \in Controls : ~Kept(c)
  <2>1. RouterOK BY <1>1 DEF ButtonsInv, RoutingInv, Awake
  <2>2. \A c, kinds : ~Has(c, kinds) BY <1>2 DEF Has
  <2>3. QED BY <2>1, <2>2, <1>4 DEF RouterOK
<1>6. router.long = {} /\ router.dark = {} BY <1>5, <1>t DEF Kept, RouterTyped
<1>7. router.keys = {}
  <2>1. \A c \in router.keys : c \in Controls BY <1>t DEF RouterTyped
  <2>2. QED BY <2>1, <1>5 DEF Kept
<1>8. pressed = NoPress BY <1>4, <1>t DEF NoPress, ButtonsTyped
<1>9. QED BY <1>6, <1>7, <1>8
(* With every button up and every record read, nothing is kept as pressed, whether the display wakes   *)
(* or not (poll_at, ActionRouter).                                                                     *)
THEOREM NothingStaysPressed ==
  ASSUME ButtonsAssumption PROVE ButtonsSpec => []NothingKept
<1>1. ButtonsInit => ButtonsInv BY ButtonsInitially
<1>2. ButtonsInv /\ [ButtonsNext]_buttonsVars => ButtonsInv' BY ButtonsInductive
<1>3. ButtonsInv => NothingKept BY NothingIsKept
<1>4. QED BY <1>1, <1>2, <1>3, PTL DEF ButtonsSpec

(* Nothing of a button sticks, and the clock that turns the player off runs only while Power is held,  *)
(* where the display does not fail to wake (ActionRouter::reset, poll_at, power_hold).                 *)
THEOREM NothingOfPressesSticks ==
  ASSUME ButtonsAssumption, ~WakeFails PROVE ButtonsSpec => []NothingSticks
<1>1. ButtonsInit => ButtonsInv BY ButtonsInitially
<1>2. ButtonsInv /\ [ButtonsNext]_buttonsVars => ButtonsInv' BY ButtonsInductive
<1>3. ButtonsInv => NothingSticks
  <2>1. ButtonsInv => NothingKept BY NothingIsKept
  <2>2. ButtonsInv => HoldIsPressed BY DEF ButtonsInv, HoldOK, HoldIsPressed
  <2>3. QED BY <2>1, <2>2 DEF NothingSticks
<1>4. QED BY <1>1, <1>2, <1>3, PTL DEF ButtonsSpec
=============================================================================
