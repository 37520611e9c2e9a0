----------------------------- MODULE LibraryScan -----------------------------
(***************************************************************************)
(* The scan of a memory card (reborn-library: Scanner, scan_sources,       *)
(* ScanBatch, FolderWalk and the database worker's commands), with what    *)
(* the main loop asks of it and the way to sleep.  The card may be pulled, *)
(* swapped and changed at any moment; rows are pruned only by a complete   *)
(* scan of the card they were read from; a quick scan skips the folders    *)
(* whose time is the one the last complete walk recorded.                  *)
(*                                                                         *)
(* A file is its content: 0 is no file, Damaged cannot be opened.          *)
(* All contents have one size, so the free space is the number of files.   *)
(* The internal storage, which is scanned along with the card and never    *)
(* away, stands only for the worker's next Begin and Finish.               *)
(***************************************************************************)
EXTENDS Naturals, FiniteSets

CONSTANTS
  Cards, NoCard,
  Files, Folders,
  FolderOf,        \* the folder of each file
  Contents,        \* readable contents, numbers from 1
  Batch,           \* files read at a time (64)
  StampsFolders,   \* other systems write a folder's time when its files change
  WritesFail,      \* a database write may fail
  MaxChanges, MaxMounts, MaxAsks   \* bounds

Damaged == 9
ScanAssumption ==
  /\ NoCard \notin Cards /\ IsFiniteSet(Files) /\ FolderOf \in [Files -> Folders]
  /\ 1 \in Contents /\ Contents \subseteq 1..8 /\ Batch \in Nat \ {0}
  /\ StampsFolders \in BOOLEAN /\ WritesFail \in BOOLEAN
  /\ MaxChanges \in Nat /\ MaxMounts \in Nat /\ MaxAsks \in Nat

VARIABLES
  disk,        \* each card's files
  times,       \* each card's folder times
  mount,       \* the card in the slot, and the number of the mount
  sources,     \* the main loop's source: a card and its mount
  scanning,    \* model.library.scanning
  request,     \* the scanner's channel
  results,     \* finished scans the main loop has not taken
  scan,        \* the scan under way
  unreadable,  \* files that could not be opened: card, file, content
  rows,        \* the library: each card's songs, 0 for none
  seen, active,   \* the worker's scan_seen and active_scan
  record,      \* scan_folders, scan_volumes: of each card's last complete walk
  prepared,    \* sleep is prepared
  changes, asks,
  touched, absent,  \* history, of this scan: files changed; files not there at some moment
  lost         \* history: files that could not be opened and have no row read since

scanVars == <<disk, times, mount, sources, scanning, request, results, scan, unreadable, rows, seen,
              active, record, prepared, changes, asks, touched, absent, lost>>
cards   == <<disk, times, mount, changes>>
library == <<rows, seen, active, record>>
loop    == <<sources, scanning, request, results, prepared, asks>>
past    == <<touched, absent, lost>>

NoSource == [card |-> NoCard, at |-> 0]
NoRequest == [src |-> NoSource, mode |-> "none"]
NoRecord == [free |-> 0, times |-> [d \in Folders |-> 0], known |-> FALSE]
NoScan == [pc |-> "idle", src |-> NoSource, mode |-> "walk", free |-> 0, known |-> NoRecord,
           todo |-> {}, listed |-> {}, batch |-> {}, fresh |-> {}, skipped |-> {},
           times |-> [d \in Folders |-> 0], complete |-> TRUE]
Modes == {"rebuild", "walk", "quick"}
Present(c) == {f \in Files : disk[c][f] # 0}
Free(c) == Cardinality(Present(c))
In(d) == {f \in Files : FolderOf[f] = d}

ScanInit ==
  /\ disk \in [Cards -> [Files -> {0, 1}]] /\ times = [c \in Cards |-> [d \in Folders |-> 1]]
  /\ mount = [card |-> NoCard, at |-> 0] /\ sources = NoSource /\ scanning = FALSE
  /\ request = NoRequest /\ results = 0 /\ scan = NoScan /\ unreadable = {}
  /\ rows = [c \in Cards |-> [f \in Files |-> 0]] /\ seen = {} /\ active = FALSE
  /\ record = [c \in Cards |-> NoRecord] /\ prepared = FALSE /\ changes = 0 /\ asks = 0
  /\ touched = {} /\ absent = {} /\ lost = {}

-----------------------------------------------------------------------------
(* The card (external). *)

Scans(c) == scan.pc # "idle" /\ scan.src.card = c
Insert ==
  /\ mount.card = NoCard /\ mount.at < MaxMounts
  /\ \E c \in Cards : mount' = [card |-> c, at |-> mount.at + 1]
  /\ UNCHANGED <<disk, times, changes, loop, scan, unreadable, library, past>>
Pull ==
  /\ mount.card # NoCard /\ mount' = [mount EXCEPT !.card = NoCard]
  /\ UNCHANGED <<disk, times, changes, loop, scan, unreadable, library, past>>
(* A file is written, removed or damaged: over USB (Linux stamps the folder), or by another      *)
(* system while the card is out.  A content written in place leaves the folder's time alone.     *)
Change(c, f, v) ==
  /\ changes < MaxChanges /\ changes' = changes + 1 /\ v # disk[c][f]
  /\ disk' = [disk EXCEPT ![c][f] = v]
  /\ \/ times' = [times EXCEPT ![c][FolderOf[f]] = @ + 1]
     \/ /\ (v # 0 /\ disk[c][f] # 0) \/ (mount.card # c /\ ~StampsFolders)
        /\ UNCHANGED times
  /\ touched' = IF Scans(c) THEN touched \cup {f} ELSE touched
  /\ absent' = IF Scans(c) /\ v = 0 THEN absent \cup {f} ELSE absent
  /\ UNCHANGED <<mount, loop, scan, unreadable, library, lost>>

-----------------------------------------------------------------------------
(* The main loop. *)

(* Scanner::submit: one scan runs, one waits; a request beyond them is refused. *)
Submit(source, mode) ==
  IF request = NoRequest THEN request' = [src |-> source, mode |-> mode] /\ scanning' = TRUE
                      ELSE scanning' = FALSE /\ UNCHANGED request
Asked == asks < MaxAsks /\ asks' = asks + 1
LoopKeeps == UNCHANGED <<cards, scan, unreadable, library, past>>
NoticeSources ==
  /\ ~prepared /\ sources # mount /\ (mount.card # NoCard \/ sources.card # NoCard)
  /\ sources' = IF mount.card = NoCard THEN NoSource ELSE mount
  /\ Submit(sources', "quick")
  /\ UNCHANGED <<results, prepared, asks>> /\ LoopKeeps
(* Scan for Music, unless one runs; Rebuild Library; after a copy over USB. *)
OwnerScans ==
  /\ ~prepared /\ Asked
  /\ \E mode \in Modes : (mode # "rebuild" => ~scanning) /\ Submit(sources, mode)
  /\ UNCHANGED <<sources, results, prepared>> /\ LoopKeeps
TakeResult ==
  /\ results > 0 /\ results' = results - 1 /\ scanning' = FALSE
  /\ UNCHANGED <<sources, request, prepared, asks>> /\ LoopKeeps
(* prepare_sleep: no scan asked for or under way, and a database worker with nothing open. *)
\* Plausible bug: only the scan the model knows of is looked at.
Quiet_Shown == ~scanning
Quiet == ~scanning /\ scan.pc = "idle" /\ request = NoRequest /\ ~active
PrepareSleep ==
  /\ ~prepared /\ Quiet /\ prepared' = TRUE
  /\ UNCHANGED <<sources, scanning, request, results, asks>> /\ LoopKeeps
RestoreSleep ==
  /\ prepared /\ prepared' = FALSE
  /\ UNCHANGED <<sources, scanning, request, results, asks>> /\ LoopKeeps

-----------------------------------------------------------------------------
(* The scan. *)

\* source_identity_is_current.
Current(s) == mount = s
Becomes(s) == scan' = s
ScanKeeps == UNCHANGED <<cards, sources, scanning, request, prepared, asks>>
EndsWith == scan' = NoScan /\ results' = results + 1

(* The card is checked, its root opened, the free space read, the records of the last complete  *)
(* walk taken if it is unchanged, and the worker told to begin.                                  *)
BeginScan ==
  /\ scan.pc = "idle" /\ request # NoRequest /\ request' = NoRequest
  /\ LET s == request.src
         rec == IF s.card = NoCard THEN NoRecord ELSE record[s.card]
         known == IF request.mode = "quick" /\ rec.known /\ rec.free = Free(s.card) THEN rec ELSE NoRecord
     IN IF s.card = NoCard \/ ~Current(s)
          THEN EndsWith /\ seen' = {} /\ active' = FALSE /\ UNCHANGED <<touched, absent>>
          ELSE /\ Becomes([NoScan EXCEPT !.pc = "open", !.src = s, !.mode = request.mode, !.free = Free(s.card),
                                      !.known = known])
               /\ seen' = {} /\ active' = TRUE /\ touched' = {} /\ absent' = Files \ Present(s.card)
               /\ UNCHANGED results
  /\ UNCHANGED <<cards, sources, scanning, prepared, asks, unreadable, rows, record, lost>>
OpenRoot ==
  /\ scan.pc = "open"
  /\ IF mount = scan.src THEN Becomes([scan EXCEPT !.pc = "walk", !.todo = Folders]) /\ UNCHANGED results
                         ELSE EndsWith
  /\ ScanKeeps /\ UNCHANGED <<unreadable, library, past>>

(* FolderWalk::enter: the time first, then the record if it is unchanged, else the entries.      *)
Entered(d) == [scan EXCEPT !.todo = @ \ {d}, !.times[d] = times[scan.src.card][d]]
Skips(d) == scan.known.known /\ scan.known.times[d] = times[scan.src.card][d]
BatchFull == Cardinality(scan.listed) >= Batch
EnterFolder(d) ==
  /\ scan.pc = "walk" /\ d \in scan.todo /\ ~BatchFull
  /\ Becomes(IF ~Current(scan.src) THEN [scan EXCEPT !.todo = {}, !.complete = FALSE]
          ELSE IF Skips(d) THEN [Entered(d) EXCEPT !.skipped = @ \cup In(d)]
          ELSE [Entered(d) EXCEPT !.pc = "read", !.batch = In(d)])
  /\ ScanKeeps /\ UNCHANGED <<results, unreadable, library, past>>
(* The entries of the folder, after its time. *)
ReadFolder ==
  /\ scan.pc = "read"
  /\ Becomes([scan EXCEPT !.pc = "walk", !.batch = {},
       !.listed = @ \cup (IF mount = scan.src
                            THEN {<<f, disk[scan.src.card][f]>> : f \in scan.batch \cap Present(scan.src.card)}
                            ELSE {}),
       !.complete = @ /\ mount = scan.src])
  /\ ScanKeeps /\ UNCHANGED <<results, unreadable, library, past>>

(* ScanBatch::process: unchanged rows are only marked seen; the rest is read.                    *)
Reused(e) == scan.mode # "rebuild" /\ rows[scan.src.card][e[1]] = e[2]
Remembered(e) == scan.mode # "rebuild" /\ <<scan.src.card, e[1], e[2]>> \in unreadable
Probe ==
  /\ scan.pc = "walk" /\ scan.listed # {} /\ (BatchFull \/ scan.todo = {})
  /\ IF ~Current(scan.src)
       THEN Becomes([scan EXCEPT !.listed = {}, !.todo = {}, !.complete = FALSE]) /\ UNCHANGED seen
       ELSE /\ Becomes([scan EXCEPT !.pc = "tags", !.listed = {}, !.batch = {e \in scan.listed : ~Reused(e)}])
            /\ seen' = seen \cup {e[1] : e \in {x \in scan.listed : Reused(x)}}
  /\ ScanKeeps /\ UNCHANGED <<results, unreadable, rows, active, record, past>>

(* A file is opened as it is now; a card that was pulled meanwhile lets some of them through.   *)
Opens(e) ==
  LET sound == e[2] \in Contents /\ disk[scan.src.card][e[1]] = e[2]
  IN CASE Remembered(e) -> {"failed"}
       [] mount = scan.src -> IF sound THEN {"ok"} ELSE IF disk[scan.src.card][e[1]] \in {0, Damaged}
                                                          THEN {"failed"} ELSE {"changed"}
       [] OTHER -> IF e[2] \in Contents THEN {"ok", "failed"} ELSE {"failed"}
\* Plausible bug: the row of a file that cannot be opened is not kept.
Retained_None(bad) == {}
\* retain: their rows count as seen.
Retained(bad) == {f \in {e[1] : e \in bad} : rows[scan.src.card][f] # 0}
ReadTags ==
  /\ scan.pc = "tags"
  /\ \E read \in [scan.batch -> {"ok", "failed", "changed"}] :
       /\ \A e \in scan.batch : read[e] \in Opens(e)
       /\ LET bad == {e \in scan.batch : read[e] = "failed"}
              name(s) == {<<scan.src.card, e[1], e[2]>> : e \in s}
          IN /\ unreadable' = (unreadable \ name({e \in scan.batch : read[e] = "ok"})) \cup name(bad)
             /\ lost' = lost \cup {<<scan.src.card, e[1]>> : e \in bad}
             /\ seen' = seen \cup Retained(bad)
             /\ Becomes([scan EXCEPT !.pc = "publish", !.batch = {},
                        !.fresh = {e \in scan.batch : read[e] = "ok"},
                        !.complete = @ /\ \A e \in scan.batch : read[e] # "changed"])
  /\ ScanKeeps /\ UNCHANGED <<results, rows, active, record, touched, absent>>

Fresh(f) == {e[2] : e \in {x \in scan.fresh : x[1] = f}}
Written == [rows EXCEPT ![scan.src.card] =
              [f \in Files |-> IF Fresh(f) = {} THEN @[f] ELSE CHOOSE v \in Fresh(f) : TRUE]]
Publish ==
  /\ scan.pc = "publish"
  /\ \/ /\ scan.fresh = {} \/ ~Current(scan.src)
        /\ Becomes([scan EXCEPT !.pc = "walk", !.fresh = {}, !.complete = @ /\ scan.fresh = {}])
        /\ UNCHANGED <<rows, seen, results, lost>>
     \/ /\ scan.fresh # {} /\ Current(scan.src)
        /\ rows' = Written /\ seen' = seen \cup {e[1] : e \in scan.fresh}
        /\ lost' = lost \ {<<scan.src.card, e[1]>> : e \in scan.fresh}
        /\ Becomes([scan EXCEPT !.pc = "walk", !.fresh = {}]) /\ UNCHANGED results
     \/ WritesFail /\ scan.fresh # {} /\ EndsWith /\ UNCHANGED <<rows, seen, lost>>
  /\ ScanKeeps /\ UNCHANGED <<unreadable, active, record, touched, absent>>

(* The end of the walk: the songs of skipped folders count as seen, then Finish prunes, if the   *)
(* walk was complete and the card is still the one.                                              *)
Prunes == scan.complete /\ Current(scan.src)
SeenFolders ==
  /\ scan.pc = "walk" /\ scan.todo = {} /\ scan.listed = {}
  /\ seen' = seen \cup {f \in scan.skipped : rows[scan.src.card][f] # 0}
  /\ Becomes([scan EXCEPT !.pc = "finish", !.complete = @ /\ Current(scan.src)])
  /\ ScanKeeps /\ UNCHANGED <<results, unreadable, rows, active, record, past>>
Finish ==
  /\ scan.pc = "finish"
  /\ rows' = IF Prunes THEN [rows EXCEPT ![scan.src.card] = [f \in Files |-> IF f \in seen THEN @[f] ELSE 0]]
                       ELSE rows
  /\ seen' = {} /\ active' = FALSE
  /\ Becomes([scan EXCEPT !.pc = "save", !.complete = Prunes])
  /\ ScanKeeps /\ UNCHANGED <<results, unreadable, record, past>>
SaveFolders ==
  /\ scan.pc = "save" /\ EndsWith
  /\ record' = [record EXCEPT ![scan.src.card] =
       IF scan.complete THEN [free |-> scan.free, times |-> scan.times, known |-> TRUE] ELSE NoRecord]
  /\ ScanKeeps /\ UNCHANGED <<unreadable, rows, seen, active, past>>
(* The player crashes or restarts: what the file holds stays. *)
Restart ==
  /\ Asked /\ scan' = NoScan /\ request' = NoRequest /\ results' = 0 /\ scanning' = FALSE /\ prepared' = FALSE
  /\ sources' = NoSource /\ unreadable' = {} /\ seen' = {} /\ active' = FALSE
  /\ UNCHANGED <<cards, rows, record, past>>

CardChanges == Insert \/ Pull \/ \E c \in Cards, f \in Files, v \in Contents \cup {0, Damaged} : Change(c, f, v)
MainLoop == NoticeSources \/ OwnerScans \/ TakeResult \/ PrepareSleep \/ RestoreSleep
Scanner == BeginScan \/ OpenRoot \/ (\E d \in Folders : EnterFolder(d)) \/ ReadFolder \/ Probe \/ ReadTags
             \/ Publish \/ SeenFolders \/ Finish \/ SaveFolders
ScanNext == CardChanges \/ MainLoop \/ Scanner \/ Restart
ScanSpec == ScanInit /\ [][ScanNext]_scanVars

-----------------------------------------------------------------------------
(* A song leaves the library only if its file was away at some moment of the scan that drops it: *)
(* not because the card was pulled or swapped, a folder skipped or a file not opened.            *)
PrunesOnlyTheGone ==
  [][\A c \in Cards, f \in Files : rows[c][f] # 0 /\ rows'[c][f] = 0 => c = scan.src.card /\ f \in absent]_scanVars

(* A complete scan tells the truth of every file nobody touched meanwhile: the library has it    *)
(* just when the card has, a quick scan included, but for the files that could not be opened.    *)
Unopened(c, f) == <<c, f>> \in lost
Told(c, f) == rows'[c][f] # 0 <=> disk[c][f] # 0
CompleteIsTrue ==
  [][Finish /\ Prunes => \A f \in Files \ touched : Unopened(scan.src.card, f) \/ Told(scan.src.card, f)]_scanVars
(* ...and, read in full, as it is there. *)
ReadIsExact ==
  [][Finish /\ Prunes /\ scan.mode # "quick" => \A f \in Files \ touched :
       Unopened(scan.src.card, f) \/ rows'[scan.src.card][f] = disk[scan.src.card][f]]_scanVars

(* What a finished scan records of the card is true. *)
RecordsAreTrue == CompleteIsTrue /\ ReadIsExact

(* The library is what the card holds: nothing leaves it wrongly, nothing wrong stays. *)
LibraryIsTrue == PrunesOnlyTheGone /\ RecordsAreTrue

(* Nothing writes the library while the system sleeps. *)
SleepIsQuiet == [][prepared => rows' = rows /\ record' = record]_scanVars

(* "Files that FFmpeg could not open during this process": the next start opens them again.      *)
OpenedNextTime ==
  [][Finish /\ Prunes => \A f \in Files \ touched :
       LET v == disk[scan.src.card][f]
       IN v = Damaged \/ <<scan.src.card, f, v>> \in unreadable \/ Told(scan.src.card, f)]_scanVars
(* With no scan under way nothing keeps the player from sleeping. *)
IdleLetsSleep == scan.pc = "idle" => ~active
=============================================================================
