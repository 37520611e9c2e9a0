---------------------------- MODULE LinksProofs ----------------------------
(***************************************************************************)
(* Proofs about five components that work through another thread: the      *)
(* platform's tasks (PlatformTasks), one station being received            *)
(* (RadioStream), the output the music goes to (Outputs), the Wi-Fi thread *)
(* (Wifi) and the playlist worker (Playlists), for any number of tasks,    *)
(* operations, stations, tries, headphones, networks, commands, playlists  *)
(* and edits.  They share no state.                                        *)
(***************************************************************************)
EXTENDS Outputs, PlatformTasks, Playlists, RadioStream, Wifi, FiniteSetTheorems, WellFoundedInduction, TLAPS

-----------------------------------------------------------------------------
(* PlatformTasks. *)

Task == PlatformWork \cup {"none"}
MainThread ==
  [busy : Task, queued : Task \ {"Refresh"}, pending : BOOLEAN, run : BOOLEAN, restarting : BOOLEAN,
   idle : BOOLEAN, dark : BOOLEAN, playing : BOOLEAN, requested : BOOLEAN, prepared : BOOLEAN]
TasksTyped ==
  /\ app \in MainThread
  /\ command \in Task /\ worker \in Task /\ answer \in Results \cup {"none"}
  /\ reply \in [task : Task, result : Results \cup {"none"}]

(* An operation is in one place on its way: the channel, the worker, or the   *)
(* reply.  (Observations may be in several: the owner may ask for another.)   *)
InOnePlace ==
  \A t \in PlatformWork \ {"Refresh"} :
    /\ ~(command = t /\ worker = t) /\ ~(command = t /\ reply.task = t)
    /\ ~(worker = t /\ reply.task = t)

(* What keeps the application busy is under way, and no other operation is. *)
BusyInOnePlace == BusyIsUnderWay /\ InOnePlace

(* The update behind the screen is one, and there is no other: so a new       *)
(* update, which forgets that the last was cancelled, begins with none on its *)
(* way.                                                                       *)
UpdateHasItsScreen ==
  /\ app.busy \in Updates \/ app.queued \in Updates => app.run
  /\ ~(app.busy \in Updates /\ app.queued \in Updates)

(* What stops the worker is the owner's Cancel of the download it executes. *)
AbortIsCancel ==
  /\ answer # "none" => worker # "none"
  /\ answer = "aborted" => worker = "Stage" /\ cancelled
  /\ worker = "Stage" /\ answer = "none" /\ abort => cancelled

TasksInv == TasksTyped /\ BusyInOnePlace /\ UpdateHasItsScreen /\ AbortIsCancel

(* A sleep on its way is known to the application until it is prepared or     *)
(* refused, and was asked for in the dark or since.                           *)
SleepIsWanted ==
  /\ app.queued = "Sleep" => sleepWanted
  /\ app.prepared => app.dark
  /\ command = "Sleep" \/ (worker = "Sleep" /\ answer = "none") => app.requested

-----------------------------------------------------------------------------
(* What Start makes of a task: it waits, is dropped, or becomes the busy one  *)
(* and is given to a free channel.                                            *)
Outcome(r, a, t, free) ==
  /\ r.app \in MainThread /\ r.command \in {"none", t}
  /\ r.app.pending = a.pending /\ r.app.run = a.run /\ r.app.playing = a.playing
  /\ r.app.prepared = a.prepared /\ (a.dark => r.app.dark) /\ (a.requested => r.app.requested)
  /\ r.command # "none" => free /\ a.busy = "none" /\ r.app.busy = t /\ r.app.queued = a.queued
  /\ r.command = "none" => r.app.busy = a.busy /\ r.app.queued \in {a.queued, t}
  /\ r.command = "Sleep" => r.app.requested

(* What a sleep asked for in silence does to the screen. *)
Darkened(d, a) ==
  /\ d \in MainThread /\ d.busy = a.busy /\ d.queued = a.queued /\ d.pending = a.pending
  /\ d.run = a.run /\ d.playing = a.playing /\ d.prepared = a.prepared
  /\ (a.dark => d.dark) /\ (a.requested => d.requested)
LEMMA ScreenOff ==
  ASSUME NEW a \in MainThread
  PROVE  Darkened(ScreenSleeps(a), a) /\ ScreenSleeps(a).dark
BY DEF MainThread, ScreenSleeps, Darkened
LEMMA SleepAsked ==
  ASSUME NEW a \in MainThread, NEW d \in MainThread, Darkened(d, a)
  PROVE  Darkened([d EXCEPT !.requested = TRUE], a) /\ [d EXCEPT !.requested = TRUE].requested
BY DEF MainThread, Darkened

LEMMA StartTyped ==
  ASSUME PlatformAssumption, NEW a \in MainThread, NEW t \in PlatformWork, NEW free \in BOOLEAN
  PROVE  Outcome(Start(a, t, free), a, t, free)
<1> DEFINE b == IF t = "Sleep" /\ ~a.playing THEN [ScreenSleeps(a) EXCEPT !.requested = TRUE] ELSE a
<1>1. Darkened(b, a) /\ (t = "Sleep" /\ ~b.playing => b.requested)
  <2>1. CASE t = "Sleep" /\ ~a.playing
    <3>1. Darkened(ScreenSleeps(a), a)
      BY ScreenOff
    <3>2. b = [ScreenSleeps(a) EXCEPT !.requested = TRUE]
      BY <2>1
    <3>3. ScreenSleeps(a) \in MainThread
      BY <3>1 DEF Darkened
    <3> HIDE DEF b
    <3>4. QED
      BY <3>1, <3>2, <3>3, SleepAsked
  <2>2. CASE ~(t = "Sleep" /\ ~a.playing)
    BY <2>2 DEF Darkened
  <2>3. QED
    BY <2>1, <2>2
<1>2. "none" \notin PlatformWork /\ t \in Task
  BY DEF Task, PlatformWork, Updates, PlatformAssumption
<1>s. Start(a, t, free) =
        IF b.busy # "none" THEN [app |-> Queue(b, t), command |-> "none"]
        ELSE IF t = "Sleep" /\ b.playing THEN [app |-> b, command |-> "none"]
        ELSE IF ~free THEN [app |-> Queue(b, t), command |-> "none"]
        ELSE [app |-> [b EXCEPT !.busy = t], command |-> t]
  BY DEF Start
<1> HIDE DEF b
<1> USE DEF Darkened
<1>3. CASE b.busy # "none" \/ (~(t = "Sleep" /\ b.playing) /\ ~free)
  <2>1. Start(a, t, free) = [app |-> Queue(b, t), command |-> "none"]
    BY <1>3, <1>s
  <2>2. QED
    BY <1>1, <1>2, <2>1 DEF Outcome, Queue, MainThread
<1>4. CASE b.busy = "none" /\ t = "Sleep" /\ b.playing
  <2>1. Start(a, t, free) = [app |-> b, command |-> "none"]
    BY <1>4, <1>s
  <2>2. QED
    BY <1>1, <1>2, <2>1 DEF Outcome
<1>5. CASE b.busy = "none" /\ ~(t = "Sleep" /\ b.playing) /\ free
  <2>1. Start(a, t, free) = [app |-> [b EXCEPT !.busy = t], command |-> t]
    BY <1>5, <1>s
  <2> DEFINE c == [b EXCEPT !.busy = t]
  <2>2. /\ c \in MainThread /\ c.busy = t /\ c.queued = b.queued /\ c.pending = b.pending /\ c.run = b.run
        /\ c.playing = b.playing /\ c.prepared = b.prepared /\ c.dark = b.dark /\ c.requested = b.requested
    BY <1>1, <1>2 DEF MainThread
  <2>3. Start(a, t, free).app = c /\ Start(a, t, free).command = t
    BY <2>1
  <2> HIDE DEF c
  <2>4. QED
    BY <1>1, <1>2, <1>5, <2>2, <2>3 DEF Outcome
<1>6. QED
  BY <1>3, <1>4, <1>5

LEMMA TaskNames ==
  ASSUME PlatformAssumption
  PROVE  /\ "none" \notin PlatformWork /\ Task = PlatformWork \cup {"none"} /\ Operations \subseteq PlatformWork
         /\ {"Refresh", "Stage", "Apply", "Sleep"} \subseteq PlatformWork
         /\ Operations \cap {"none", "Refresh", "Stage", "Apply", "Sleep"} = {}
BY DEF Task, PlatformWork, Updates, PlatformAssumption

(* The main thread's fields have their types. *)
LEMMA Fields ==
  ASSUME NEW a \in MainThread
  PROVE  /\ a.busy \in Task /\ a.queued \in Task \ {"Refresh"} /\ a.pending \in BOOLEAN /\ a.run \in BOOLEAN
         /\ a.dark \in BOOLEAN /\ a.playing \in BOOLEAN /\ a.requested \in BOOLEAN
         /\ a.prepared \in BOOLEAN
BY DEF MainThread

(* on_screen_wake takes a sleep that waits away. *)
LEMMA Woken ==
  ASSUME PlatformAssumption, NEW a \in MainThread
  PROVE  /\ Wakes(a) \in MainThread /\ Wakes(a).busy = a.busy /\ Wakes(a).queued \in {a.queued, "none"}
         /\ Wakes(a).pending = a.pending /\ Wakes(a).run = a.run /\ Wakes(a).requested = a.requested
         /\ Wakes(a).prepared = a.prepared
         /\ a.dark => Wakes(a).queued # "Sleep"
<1>1. CASE ~a.dark
  BY <1>1 DEF Wakes
<1>2. CASE a.dark /\ a.queued = "Sleep"
  <2>1. Wakes(a) = [a EXCEPT !.dark = FALSE, !.queued = "none"]
    BY <1>2 DEF Wakes
  <2>2. QED
    BY <1>2, <2>1, TaskNames DEF MainThread
<1>3. CASE a.dark /\ a.queued # "Sleep"
  <2>1. Wakes(a) = [a EXCEPT !.dark = FALSE, !.queued = a.queued]
    BY <1>3 DEF Wakes
  <2>2. QED
    BY <1>3, <2>1 DEF MainThread
<1>4. QED
  BY <1>1, <1>2, <1>3

(* The steps that start no task and leave what is under way alone: the        *)
(* invariant looks at the main thread only.                                   *)
Untouched ==
  /\ app'.busy = app.busy /\ app'.pending = app.pending
  /\ UNCHANGED <<command, worker, answer, reply>>
LEMMA PlacesStay ==
  ASSUME BusyInOnePlace, Untouched
  PROVE  BusyInOnePlace'
BY DEF Untouched, BusyInOnePlace, BusyIsUnderWay, InOnePlace, UnderWay

(* Nothing prepares a sleep with the screen lit or music playing. *)
AwakeStays == app'.prepared /\ ~app.prepared => app.dark /\ ~app.playing

LEMMA QuietSteps ==
  ASSUME PlatformAssumption, TasksInv, SleepIsWanted,
         Cancel \/ Wake \/ Blank \/ PlayPause \/ UpdateIdle \/ UpdateGivesUp
  PROVE  TasksInv' /\ SleepIsWanted' /\ AwakeStays
<1> USE DEF TasksInv, TasksTyped
<1>1. CASE Cancel
  <2>1. Untouched /\ app' = app
    BY <1>1 DEF Cancel, Untouched
  <2>2. QED
    BY <1>1, <2>1, PlacesStay DEF Cancel, UpdateHasItsScreen, AbortIsCancel, SleepIsWanted, AwakeStays
<1>2. CASE Wake
  <2>1. /\ app' \in MainThread /\ app'.busy = app.busy /\ app'.queued \in {app.queued, "none"}
        /\ app'.queued # "Sleep" /\ app'.pending = app.pending /\ app'.run = app.run
        /\ app'.requested = app.requested /\ ~app'.prepared
    BY <1>2, Woken DEF Wake
  <2>2. Untouched
    BY <1>2, <2>1 DEF Wake, OthersKeep, Untouched
  <2>3. QED
    BY <1>2, <2>1, <2>2, PlacesStay
       DEF Wake, OthersKeep, UpdateHasItsScreen, AbortIsCancel, SleepIsWanted, AwakeStays, Updates
<1>3. CASE Blank \/ PlayPause \/ UpdateIdle
  <2>1. /\ app' \in MainThread /\ app'.busy = app.busy /\ app'.queued = app.queued
        /\ app'.pending = app.pending /\ app'.run = app.run /\ app'.requested = app.requested
        /\ app'.prepared = app.prepared /\ (app.dark => app'.dark)
    <3>1. CASE Blank
      BY <3>1 DEF Blank, ScreenSleeps, MainThread
    <3>2. CASE PlayPause
      <4>1. [app EXCEPT !.playing = ~app.playing] \in MainThread
        BY DEF MainThread
      <4>2. QED
        BY <3>2, <4>1 DEF PlayPause, MainThread
    <3>3. CASE UpdateIdle
      <4>1. Waits \in BOOLEAN
        BY DEF Waits
      <4>2. QED
        BY <3>3, <4>1 DEF UpdateIdle, MainThread
    <3>4. QED
      BY <1>3, <3>1, <3>2, <3>3
  <2>2. UNCHANGED <<command, worker, answer, reply, abort, cancelled, sleepWanted>>
    BY <1>3 DEF Blank, PlayPause, UpdateIdle, OthersKeep, LoopKeeps
  <2>3. Untouched
    BY <2>1, <2>2 DEF Untouched
  <2>4. QED
    BY <2>1, <2>2, <2>3, PlacesStay DEF UpdateHasItsScreen, AbortIsCancel, SleepIsWanted, AwakeStays
<1>4. CASE UpdateGivesUp
  <2>1. /\ app' \in MainThread /\ app'.busy = app.busy /\ app'.queued = app.queued
        /\ app'.pending = app.pending /\ app'.requested = app.requested
        /\ app'.prepared = app.prepared /\ (app.dark => app'.dark)
    BY <1>4 DEF UpdateGivesUp, MainThread
  <2>2. app.busy \notin Updates /\ app.queued \notin Updates
    BY <1>4 DEF UpdateGivesUp, Waits
  <2>3. Untouched
    BY <1>4, <2>1 DEF UpdateGivesUp, LoopKeeps, Untouched
  <2>4. QED
    BY <1>4, <2>1, <2>2, <2>3, PlacesStay
       DEF UpdateGivesUp, LoopKeeps, UpdateHasItsScreen, AbortIsCancel, SleepIsWanted, AwakeStays
<1>5. QED
  BY <1>1, <1>2, <1>3, <1>4

(* The worker, the platform, and the observation of the main loop. *)
LEMMA WorkerSteps ==
  ASSUME PlatformAssumption, TasksInv, SleepIsWanted, Poll \/ Execute \/ Ends \/ Replies \/ Prepare
           \/ Restore \/ Restart
  PROVE  TasksInv' /\ SleepIsWanted' /\ AwakeStays
<1> USE DEF TasksInv, TasksTyped, BusyInOnePlace, BusyIsUnderWay, InOnePlace, UnderWay,
            UpdateHasItsScreen, AbortIsCancel, SleepIsWanted, AwakeStays, Results, Updates
<1>1. CASE Poll
  BY <1>1, TaskNames DEF Poll, LoopKeeps, MainThread
<1>2. CASE Execute
  BY <1>2, TaskNames DEF Execute, WorkerKeeps, AbortAt
<1>3. CASE Ends
  BY <1>3, TaskNames DEF Ends, WorkerKeeps
<1>4. CASE Replies
  BY <1>4, TaskNames DEF Replies, WorkerKeeps
<1>5. CASE Prepare
  <2>1. /\ app' \in MainThread /\ app'.busy = app.busy /\ app'.queued = app.queued
        /\ app'.pending = app.pending /\ app'.run = app.run /\ (app'.prepared => app'.dark)
    <3>1. CASE Refuses
      BY <1>5, <3>1 DEF Prepare, MainThread
    <3>2. CASE ~Refuses
      <4> DEFINE d == ScreenSleeps(app)
      <4>1. Darkened(d, app) /\ d.dark
        BY ScreenOff
      <4>2. app' = [d EXCEPT !.requested = FALSE, !.prepared = TRUE]
        BY <1>5, <3>2 DEF Prepare
      <4> HIDE DEF d
      <4>3. QED
        BY <4>1, <4>2 DEF Darkened, MainThread
    <3>3. QED
      BY <3>1, <3>2
  <2>2. answer' \in {"ok", "error"}
    BY <1>5 DEF Prepare
  <2>3. AwakeStays
    <3>1. app.requested
      BY <1>5 DEF Prepare
    <3>2. CASE Refuses
      <4>1. app' = [app EXCEPT !.requested = FALSE]
        BY <1>5, <3>2 DEF Prepare
      <4>2. app'.prepared = app.prepared
        BY <4>1 DEF MainThread
      <4>3. QED
        BY <4>2
    <3>3. CASE ~Refuses
      BY <3>1, <3>3 DEF Refuses
    <3>4. QED
      BY <3>2, <3>3
  <2>4. TasksInv' /\ SleepIsWanted'
    BY <1>5, <2>1, <2>2, TaskNames DEF Prepare
  <2>5. QED
    BY <2>3, <2>4
<1>6. CASE Restore
  <2>1. /\ app' \in MainThread /\ app'.busy = app.busy /\ app'.queued \in {app.queued, "none"}
        /\ (app'.queued = "Sleep" => sleepWanted')
        /\ app'.pending = app.pending /\ app'.run = app.run /\ app'.requested = app.requested
        /\ ~app'.prepared
    <3> DEFINE d == [app EXCEPT !.prepared = FALSE]
    <3>1. /\ d \in MainThread /\ d.busy = app.busy /\ d.queued = app.queued /\ d.pending = app.pending
          /\ d.run = app.run /\ d.requested = app.requested /\ d.dark = app.dark /\ ~d.prepared
      BY DEF MainThread
    <3>2. (app' = d /\ UNCHANGED sleepWanted) \/ app' = Wakes(d)
      BY <1>6 DEF Restore
    <3>3. app.prepared
      BY <1>6 DEF Restore
    <3> HIDE DEF d
    <3>4. QED
      BY <3>1, <3>2, <3>3, Woken
  <2>2. QED
    BY <1>6, <2>1 DEF Restore, OthersKeep
<1>7. CASE Restart
  BY <1>7, TaskNames DEF Restart, MainThread
<1>8. QED
  BY <1>1, <1>2, <1>3, <1>4, <1>5, <1>6, <1>7

(* A task is started: it is the only operation on its way, or nothing moved. *)
LEMMA TaskStarts ==
  ASSUME PlatformAssumption, TasksInv, NEW a \in MainThread, NEW t \in PlatformWork,
         a.busy = app.busy, a.pending = app.pending,
         Started(Start(a, t, command = "none")), UNCHANGED <<worker, answer, reply>>
  PROVE  /\ app' \in MainThread /\ command' \in {command, t} /\ BusyInOnePlace'
         /\ app'.run = a.run /\ app'.prepared = a.prepared /\ (a.dark => app'.dark)
         /\ (a.requested => app'.requested) /\ (command' = "Sleep" /\ command # "Sleep" => app'.requested)
         /\ \/ app'.busy = app.busy /\ app'.queued \in {a.queued, t}
            \/ app.busy = "none" /\ app'.busy = t /\ app'.queued = a.queued
<1> DEFINE r == Start(a, t, command = "none")
<1>1. Outcome(r, a, t, command = "none")
  BY StartTyped
<1>2. app' = r.app /\ command' = (IF r.command = "none" THEN command ELSE r.command)
  BY DEF Started, Give
<1> HIDE DEF r
<1>3. CASE r.command = "none"
  <2>1. Untouched
    BY <1>1, <1>2, <1>3 DEF Outcome, Untouched
  <2>2. BusyInOnePlace'
    BY <2>1, PlacesStay DEF TasksInv
  <2>3. QED
    BY <1>1, <1>2, <1>3, <2>2 DEF Outcome
<1>4. CASE r.command # "none"
  <2>1. /\ app.busy = "none" /\ command = "none" /\ app'.busy = t /\ command' = t
        /\ app'.pending = app.pending
    BY <1>1, <1>2, <1>4 DEF Outcome
  <2>2. BusyInOnePlace'
    BY <2>1, TaskNames DEF TasksInv, BusyInOnePlace, BusyIsUnderWay, InOnePlace, UnderWay
  <2>3. QED
    BY <1>1, <1>2, <1>4, <2>2 DEF Outcome
<1>5. QED
  BY <1>3, <1>4

LEMMA StartingSteps ==
  ASSUME PlatformAssumption, TasksInv, SleepIsWanted,
         \/ \E t \in Operations \cup {"Refresh", "Sleep"} : Ask(t)
         \/ \E t \in Updates : UpdateNow(t)
         \/ QueuedStarts \/ AutomaticSleep
  PROVE  TasksInv' /\ SleepIsWanted' /\ AwakeStays
<1> USE DEF TasksInv, TasksTyped
<1>1. ASSUME NEW t \in Operations \cup {"Refresh", "Sleep"}, Ask(t)
      PROVE  TasksInv' /\ SleepIsWanted' /\ AwakeStays
  <2>1. Started(Start(app, t, command = "none")) /\ UNCHANGED <<worker, answer, reply>> /\ t \in PlatformWork
    BY <1>1, TaskNames DEF Ask, OthersKeep
  <2>2. /\ app' \in MainThread /\ command' \in {command, t} /\ BusyInOnePlace'
        /\ app'.run = app.run /\ app'.prepared = app.prepared /\ (app.dark => app'.dark)
        /\ (app.requested => app'.requested) /\ (command' = "Sleep" /\ command # "Sleep" => app'.requested)
        /\ \/ app'.busy = app.busy /\ app'.queued \in {app.queued, t}
           \/ app.busy = "none" /\ app'.busy = t /\ app'.queued = app.queued
    BY <2>1, TaskStarts
  <2>3. t \notin Updates /\ t \in Task /\ UNCHANGED <<abort, cancelled>>
    BY <1>1, TaskNames DEF Ask, OthersKeep, Updates
  <2>4. sleepWanted' <=> (sleepWanted \/ t = "Sleep")
    BY <1>1 DEF Ask
  <2>5. QED
    BY <2>1, <2>2, <2>3, <2>4 DEF UpdateHasItsScreen, AbortIsCancel, SleepIsWanted, AwakeStays
<1>2. ASSUME NEW t \in Updates, UpdateNow(t)
      PROVE  TasksInv' /\ SleepIsWanted' /\ AwakeStays
  <2> DEFINE a == [app EXCEPT !.run = TRUE]
  <2>1. /\ a \in MainThread /\ a.busy = app.busy /\ a.pending = app.pending /\ a.queued = app.queued
        /\ a.prepared = app.prepared /\ a.dark = app.dark /\ a.requested = app.requested /\ a.run
    BY DEF MainThread
  <2>2. Started(Start(a, t, command = "none")) /\ UNCHANGED <<worker, answer, reply>> /\ t \in PlatformWork
    BY <1>2, TaskNames DEF UpdateNow, OthersKeep, Updates
  <2> HIDE DEF a
  <2>3. /\ app' \in MainThread /\ command' \in {command, t} /\ BusyInOnePlace'
        /\ app'.run /\ app'.prepared = app.prepared /\ (app.dark => app'.dark)
        /\ (app.requested => app'.requested) /\ (command' = "Sleep" /\ command # "Sleep" => app'.requested)
        /\ \/ app'.busy = app.busy /\ app'.queued \in {app.queued, t}
           \/ app.busy = "none" /\ app'.busy = t /\ app'.queued = app.queued
    BY <2>1, <2>2, TaskStarts
  <2>4. app.busy \notin Updates /\ app.queued \notin Updates
    BY <1>2 DEF UpdateNow, Free, UpdateHasItsScreen
  <2>5. t # "Sleep" /\ t \in Task /\ UNCHANGED <<abort, sleepWanted>> /\ "none" \notin Updates
    BY <1>2, <2>2, TaskNames DEF UpdateNow, OthersKeep, Updates
  <2>6. answer # "aborted" /\ ~(worker = "Stage")
    BY <2>4, TaskNames DEF AbortIsCancel, BusyInOnePlace, BusyIsUnderWay, UnderWay, Updates
  <2>7. QED
    BY <2>2, <2>3, <2>4, <2>5, <2>6 DEF UpdateHasItsScreen, AbortIsCancel, SleepIsWanted, AwakeStays
<1>3. CASE QueuedStarts
  <2> DEFINE a == [app EXCEPT !.queued = "none"]
             t == app.queued
  <2>1. /\ a \in MainThread /\ a.busy = app.busy /\ a.pending = app.pending /\ a.queued = "none"
        /\ a.prepared = app.prepared /\ a.dark = app.dark /\ a.requested = app.requested /\ a.run = app.run
    BY TaskNames DEF MainThread
  <2>2. /\ Started(Start(a, t, command = "none")) /\ t \in PlatformWork
        /\ UNCHANGED <<worker, answer, reply, abort, cancelled, sleepWanted>>
    BY <1>3, TaskNames, Fields DEF QueuedStarts, LoopKeeps, TakesTurn
  <2>3. app.busy = "none" /\ t \in Task
    BY <1>3, Fields DEF QueuedStarts, TakesTurn
  <2> HIDE DEF a
  <2>4. /\ app' \in MainThread /\ command' \in {command, t} /\ BusyInOnePlace'
        /\ app'.run = app.run /\ app'.prepared = app.prepared /\ (app.dark => app'.dark)
        /\ (app.requested => app'.requested) /\ (command' = "Sleep" /\ command # "Sleep" => app'.requested)
        /\ \/ app'.busy = "none" /\ app'.queued \in {"none", t}
           \/ app'.busy = t /\ app'.queued = "none"
    BY <2>1, <2>2, <2>3, TaskStarts
  <2>5. "none" \notin Updates
    BY DEF Updates
  <2>6. QED
    BY <2>2, <2>3, <2>4, <2>5 DEF UpdateHasItsScreen, AbortIsCancel, SleepIsWanted, AwakeStays
<1>4. CASE AutomaticSleep
  <2>1. /\ Started(Start(app, "Sleep", command = "none")) /\ "Sleep" \in PlatformWork /\ "Sleep" \in Task
        /\ UNCHANGED <<worker, answer, reply, abort, cancelled>> /\ sleepWanted'
    BY <1>4, TaskNames DEF AutomaticSleep, OthersKeep
  <2>2. /\ app' \in MainThread /\ command' \in {command, "Sleep"} /\ BusyInOnePlace'
        /\ app'.run = app.run /\ app'.prepared = app.prepared /\ (app.dark => app'.dark)
        /\ (app.requested => app'.requested) /\ (command' = "Sleep" /\ command # "Sleep" => app'.requested)
        /\ \/ app'.busy = app.busy /\ app'.queued \in {app.queued, "Sleep"}
           \/ app.busy = "none" /\ app'.busy = "Sleep" /\ app'.queued = app.queued
    BY <2>1, TaskStarts
  <2>3. "Sleep" \notin Updates
    BY DEF Updates
  <2>4. QED
    BY <2>1, <2>2, <2>3 DEF UpdateHasItsScreen, AbortIsCancel, SleepIsWanted, AwakeStays
<1>5. QED
  BY <1>1, <1>2, <1>3, <1>4

(* The answer of the busy operation frees the application; that of an         *)
(* observation ends the wait for it.                                          *)
LEMMA AnswerFrees ==
  ASSUME PlatformAssumption, TasksInv, NEW t, t = reply.task, t # "none"
  PROVE  LET a == Freed(app, t)
         IN /\ t \in PlatformWork /\ a \in MainThread /\ a.queued = app.queued /\ a.run = app.run
            /\ a.pending = app.pending /\ a.prepared = app.prepared /\ a.dark = app.dark
            /\ a.requested = app.requested
            /\ t # "Refresh" => app.busy = t /\ a.busy = "none"
            /\ t = "Refresh" => a.busy = (IF app.busy = "Refresh" THEN "none" ELSE app.busy)
            /\ t # "Refresh" => \A u \in PlatformWork \ {"Refresh"} : command # u /\ worker # u
<1> USE DEF TasksInv, TasksTyped
<1>1. t \in PlatformWork
  BY TaskNames
<1>2. t # "Refresh" => app.busy = t /\ \A u \in PlatformWork \ {"Refresh"} : command # u /\ worker # u
  BY <1>1 DEF BusyInOnePlace, BusyIsUnderWay, InOnePlace, UnderWay
<1>3. CASE t # "Refresh" \/ app.busy = "Refresh"
  <2>1. Freed(app, t) = [app EXCEPT !.busy = "none"]
    BY <1>3 DEF Freed
  <2>2. QED
    BY <1>1, <1>2, <1>3, <2>1, TaskNames DEF MainThread
<1>4. CASE t = "Refresh" /\ app.busy # "Refresh"
  <2>1. Freed(app, t) = app
    BY <1>4 DEF Freed
  <2>2. QED
    BY <1>1, <1>4, <2>1
<1>5. QED
  BY <1>3, <1>4

(* The platform is observed again after an operation. *)
LEMMA ObservedAgain ==
  ASSUME PlatformAssumption, TasksInv, NEW a \in MainThread, Started(Observed(a))
  PROVE  /\ app' \in MainThread /\ app'.busy = a.busy /\ app'.queued = a.queued /\ app'.run = a.run
         /\ app'.prepared = a.prepared /\ app'.dark = a.dark /\ app'.requested = a.requested
         /\ \/ app'.pending = a.pending /\ command' = command
            \/ command = "none" /\ command' = "Refresh"
<1>1. CASE command = "none"
  <2>1. Observed(a) = [app |-> [a EXCEPT !.pending = TRUE], command |-> "Refresh"]
    BY <1>1 DEF Observed
  <2>2. app' = [a EXCEPT !.pending = TRUE] /\ command' = "Refresh"
    BY <2>1 DEF Started, Give
  <2>3. QED
    BY <1>1, <2>2 DEF MainThread
<1>2. CASE command # "none"
  <2>1. Observed(a) = [app |-> a, command |-> "none"]
    BY <1>2 DEF Observed
  <2>2. app' = a /\ command' = command
    BY <2>1 DEF Started, Give
  <2>3. QED
    BY <2>2
<1>3. QED
  BY <1>1, <1>2

LEMMA ReplyTaken ==
  ASSUME PlatformAssumption, TasksInv, SleepIsWanted, TakeReply
  PROVE  TasksInv' /\ SleepIsWanted' /\ AwakeStays
<1> DEFINE t == reply.task
           a == Freed(app, t)
           Left(x) == IF t = "Apply" /\ reply.result = "ok" /\ x.run THEN [x EXCEPT !.restarting = TRUE]
                      ELSE IF t \in Updates /\ reply.result \in {"error", "aborted"} THEN Failed(x) ELSE x
<1>1. /\ t \in PlatformWork /\ a \in MainThread /\ a.queued = app.queued /\ a.run = app.run
      /\ a.pending = app.pending /\ a.prepared = app.prepared /\ a.dark = app.dark
      /\ a.requested = app.requested
      /\ t # "Refresh" => app.busy = t /\ a.busy = "none"
      /\ t = "Refresh" => a.busy = (IF app.busy = "Refresh" THEN "none" ELSE app.busy)
      /\ t # "Refresh" => \A u \in PlatformWork \ {"Refresh"} : command # u /\ worker # u
  BY AnswerFrees DEF TakeReply
<1>2. /\ reply'.task = "none" /\ reply' \in [task : Task, result : Results \cup {"none"}]
      /\ UNCHANGED <<worker, answer, abort, cancelled, sleepWanted>>
  BY TaskNames DEF TakeReply, LoopKeeps
<1>3. Started(Answered(t, reply.result))
  BY DEF TakeReply
<1>4. t \in Updates => app.queued \notin Updates
  BY <1>1, TaskNames DEF TasksInv, UpdateHasItsScreen, Updates
<1>5. Answered(t, reply.result) =
        IF t = "Refresh" THEN [app |-> [a EXCEPT !.pending = FALSE], command |-> "none"]
        ELSE IF t = "Sleep" \/ reply.result = "unfinished" THEN [app |-> a, command |-> "none"]
        ELSE IF t = "Stage" /\ reply.result = "ok" /\ a.run THEN Start(a, "Apply", command = "none")
        ELSE Observed(Left(a))
  BY DEF Answered
<1> HIDE DEF a, t, Left
<1> USE DEF TasksInv, TasksTyped
<1>6. CASE t = "Refresh"
  <2>1. Answered(t, reply.result) = [app |-> [a EXCEPT !.pending = FALSE], command |-> "none"]
    BY <1>5, <1>6
  <2>2. app' = [a EXCEPT !.pending = FALSE] /\ command' = command
    BY <1>3, <2>1 DEF Started, Give
  <2>3. /\ app' \in MainThread /\ app'.busy = a.busy /\ app'.queued = app.queued /\ ~app'.pending
        /\ app'.run = app.run /\ app'.prepared = app.prepared /\ app'.dark = app.dark
        /\ app'.requested = app.requested
    BY <1>1, <2>2 DEF MainThread
  <2>4. BusyInOnePlace'
    BY <1>1, <1>2, <1>6, <2>2, <2>3, TaskNames
       DEF BusyInOnePlace, BusyIsUnderWay, InOnePlace, UnderWay, t
  <2>5. QED
    BY <1>1, <1>2, <1>6, <2>2, <2>3, <2>4, TaskNames DEF UpdateHasItsScreen, AbortIsCancel, SleepIsWanted, AwakeStays, Updates
<1>7. CASE t # "Refresh"
  (* Whatever is done with the answer, the operation has left all three places. *)
  <2>1. ASSUME app' \in MainThread, app'.busy = "none", app'.queued = app.queued,
               \/ app'.pending = app.pending /\ command' = command
               \/ command = "none" /\ command' = "Refresh",
               app'.run = app.run \/ t \in Updates,
               app'.prepared = app.prepared, app'.dark = app.dark, app'.requested = app.requested
        PROVE  TasksInv' /\ SleepIsWanted' /\ AwakeStays
    <3>1. BusyInOnePlace'
      BY <1>1, <1>2, <1>7, <2>1, TaskNames
         DEF BusyInOnePlace, BusyIsUnderWay, InOnePlace, UnderWay, t
    <3>2. command' \in Task
      BY <2>1, TaskNames
    <3>3. QED
      BY <1>2, <1>4, <2>1, <3>1, <3>2, TaskNames DEF UpdateHasItsScreen, AbortIsCancel, SleepIsWanted, AwakeStays, Updates
  <2>2. CASE t = "Sleep" \/ reply.result = "unfinished"
    <3>1. Answered(t, reply.result) = [app |-> a, command |-> "none"]
      BY <1>5, <1>7, <2>2
    <3>2. app' = a /\ command' = command
      BY <1>3, <3>1 DEF Started, Give
    <3>3. QED
      BY <1>1, <1>7, <2>1, <3>2
  <2>3. CASE t = "Stage" /\ reply.result = "ok" /\ a.run
    <3>1. Started(Start(a, "Apply", command = "none"))
      BY <1>3, <1>5, <2>3
    <3> DEFINE r == Start(a, "Apply", command = "none")
    <3>2. Outcome(r, a, "Apply", command = "none")
      BY <1>1, StartTyped, TaskNames
    <3>3. app' = r.app /\ command' = (IF r.command = "none" THEN command ELSE r.command)
      BY <3>1 DEF Started, Give
    <3> HIDE DEF r
    <3>4. /\ app' \in MainThread /\ app'.pending = app.pending /\ app'.run
          /\ app'.prepared = app.prepared /\ (app.dark => app'.dark) /\ (app.requested => app'.requested)
          /\ \/ app'.busy = "none" /\ app'.queued \in {app.queued, "Apply"} /\ command' = command
             \/ app'.busy = "Apply" /\ app'.queued = app.queued /\ command' = "Apply" /\ command = "none"
      BY <1>1, <1>7, <2>3, <3>2, <3>3 DEF Outcome
    <3>5. BusyInOnePlace'
      BY <1>1, <1>2, <1>7, <3>4, TaskNames
         DEF BusyInOnePlace, BusyIsUnderWay, InOnePlace, UnderWay, t
    <3>6. app.queued \notin Updates
      BY <1>4, <2>3 DEF Updates
    <3>7. QED
      BY <1>2, <3>4, <3>5, <3>6, TaskNames DEF UpdateHasItsScreen, AbortIsCancel, SleepIsWanted, AwakeStays, Updates
  <2>4. CASE ~(t = "Sleep" \/ reply.result = "unfinished")
             /\ ~(t = "Stage" /\ reply.result = "ok" /\ a.run)
    <3> DEFINE x == Left(a)
    <3>1. /\ x \in MainThread /\ x.busy = a.busy /\ x.queued = a.queued /\ x.pending = a.pending
          /\ x.prepared = a.prepared /\ x.dark = a.dark /\ x.requested = a.requested
          /\ x.run = a.run \/ t \in Updates
      <4>1. CASE t = "Apply" /\ reply.result = "ok" /\ a.run
        <5>1. x = [a EXCEPT !.restarting = TRUE]
          BY <4>1 DEF Left
        <5> HIDE DEF x
        <5>2. QED
          BY <1>1, <5>1 DEF MainThread
      <4>2. CASE ~(t = "Apply" /\ reply.result = "ok" /\ a.run)
                 /\ t \in Updates /\ reply.result \in {"error", "aborted"}
        <5>1. x = [a EXCEPT !.run = FALSE, !.restarting = FALSE]
          BY <4>2 DEF Left, Failed
        <5> HIDE DEF x
        <5>2. QED
          BY <1>1, <4>2, <5>1 DEF MainThread
      <4>3. CASE /\ ~(t = "Apply" /\ reply.result = "ok" /\ a.run)
                 /\ ~(t \in Updates /\ reply.result \in {"error", "aborted"})
        <5>1. x = a
          BY <4>3 DEF Left
        <5>2. QED
          BY <1>1, <5>1
      <4>4. QED
        BY <4>1, <4>2, <4>3
    <3> HIDE DEF x
    <3>2. Started(Observed(x))
      BY <1>3, <1>5, <1>7, <2>4 DEF x
    <3>3. /\ app' \in MainThread /\ app'.busy = x.busy /\ app'.queued = x.queued /\ app'.run = x.run
          /\ app'.prepared = x.prepared /\ app'.dark = x.dark /\ app'.requested = x.requested
          /\ \/ app'.pending = x.pending /\ command' = command
             \/ command = "none" /\ command' = "Refresh"
      BY <3>1, <3>2, ObservedAgain
    <3>4. /\ app' \in MainThread /\ app'.busy = "none" /\ app'.queued = app.queued
          /\ app'.run = app.run \/ t \in Updates
          /\ app'.prepared = app.prepared /\ app'.dark = app.dark /\ app'.requested = app.requested
          /\ \/ app'.pending = app.pending /\ command' = command
             \/ command = "none" /\ command' = "Refresh"
      BY <1>1, <1>7, <3>1, <3>3
    <3>5. QED
      BY <2>1, <3>4
  <2>5. QED
    BY <2>2, <2>3, <2>4
<1>8. QED
  BY <1>6, <1>7

LEMMA TasksStep ==
  ASSUME PlatformAssumption, TasksInv, SleepIsWanted, [PlatformNext]_platformVars
  PROVE  TasksInv' /\ SleepIsWanted' /\ AwakeStays
<1>1. CASE UNCHANGED platformVars
  BY <1>1 DEF platformVars, TasksInv, TasksTyped, BusyInOnePlace, BusyIsUnderWay, InOnePlace, UnderWay,
              UpdateHasItsScreen, AbortIsCancel, SleepIsWanted, AwakeStays
<1>2. CASE Owner
  BY <1>2, QuietSteps, StartingSteps DEF Owner
<1>3. CASE MainLoop
  BY <1>3, QuietSteps, WorkerSteps, StartingSteps, ReplyTaken DEF MainLoop
<1>4. CASE Platform
  BY <1>4, WorkerSteps DEF Platform
<1>5. QED
  BY <1>1, <1>2, <1>3, <1>4 DEF PlatformNext

LEMMA TasksStart ==
  ASSUME PlatformAssumption, PlatformInit
  PROVE  TasksInv /\ SleepIsWanted
BY TaskNames DEF PlatformInit, TasksInv, TasksTyped, MainThread, BusyInOnePlace, BusyIsUnderWay, InOnePlace,
                 UnderWay, UpdateHasItsScreen, AbortIsCancel, SleepIsWanted, Updates

LEMMA TasksAlways ==
  ASSUME PlatformAssumption
  PROVE  PlatformSpec => [](TasksInv /\ SleepIsWanted)
<1>1. PlatformInit => TasksInv /\ SleepIsWanted
  BY TasksStart
<1>2. (TasksInv /\ SleepIsWanted) /\ [PlatformNext]_platformVars => (TasksInv /\ SleepIsWanted)'
  BY TasksStep
<1>3. QED
  BY <1>1, <1>2, PTL DEF PlatformSpec

(* The application, the client and the worker agree on what is under way, and *)
(* no download is stopped that the owner did not cancel: for any operations   *)
(* and any number of them, queued, refused, cancelled, cut by sleeps and      *)
(* restarts (platform.rs, client.rs).                                         *)
THEOREM TasksAreAgreed ==
  ASSUME PlatformAssumption
  PROVE  PlatformSpec => []TasksAgree
<1>1. TasksInv => TasksAgree
  BY DEF TasksInv, TasksAgree, BusyInOnePlace, AbortIsCancel, OnlyCancelStops
<1>2. QED
  BY <1>1, TasksAlways, PTL

(* A wake sticks (effects/system.rs): no sleep from before it waits for its   *)
(* turn, and none prepares with the screen lit or music playing.              *)
THEOREM WakesStick ==
  ASSUME PlatformAssumption
  PROVE  PlatformSpec => WakeSticks
<1>1. SleepIsWanted' /\ AwakeStays
        => (/\ app'.queued = "Sleep" => sleepWanted'
            /\ app'.prepared /\ ~app.prepared => app.dark /\ ~app.playing)
  BY DEF SleepIsWanted, AwakeStays
<1>2. PlatformInit => TasksInv /\ SleepIsWanted
  BY TasksStart
<1>3. (TasksInv /\ SleepIsWanted) /\ [PlatformNext]_platformVars
        => (TasksInv /\ SleepIsWanted)' /\ AwakeStays
  BY TasksStep
<1>4. QED
  BY <1>1, <1>2, <1>3, PTL DEF PlatformSpec, WakeSticks

-----------------------------------------------------------------------------
(* RadioStream. *)

(* The steps of the fetcher at which no curl of its own is on. *)
Between == {"none", "check", "spawn", "outcome", "wait", "done"}
Receiving == {"headers", "body", "write"}

(* A curl lives from spawn to the end of receive, and a drop can reach it only *)
(* from the slot; there is a fetcher while there is a stream; and receive says *)
(* that the pipe is closed only when the drop has closed it.                   *)
StreamInv ==
  /\ stream \in {"none", "open", "dropping", "stopped", "closed", "joining"}
  /\ fetcher \in Between \cup Receiving \cup {"keep"}
  /\ stream = "none" <=> fetcher = "none"
  /\ fetcher \in Between => curl = "none"
  /\ slot => fetcher \in Receiving
  /\ outcome = "pipe" => fetcher = "outcome" /\ stream \in {"closed", "joining"}
  /\ stream = "open" /\ fetcher = "done" => shown = "Failed"

LEMMA StreamStep == StreamInv /\ [StreamNext]_streamVars => StreamInv'
<1> SUFFICES ASSUME StreamInv, [StreamNext]_streamVars
             PROVE  StreamInv'
  OBVIOUS
<1> USE DEF StreamInv, Between, Receiving
<1>1. CASE OpenStream
  BY <1>1 DEF OpenStream
<1>2. CASE Reads \/ DropDecoder
  BY <1>2 DEF Reads, DropDecoder
<1>3. CASE Drops
  BY <1>3 DEF Drops, Stop, CloseReader, Closing, Kill, Join
<1>4. CASE StopCheck \/ Spawn \/ NoCurl \/ Keep
  BY <1>4 DEF StopCheck, Spawn, NoCurl, Keep, Fetching, Stopped
<1>5. CASE Headers
  BY <1>5 DEF Headers, Finish, Reaped, Fetching
<1>6. CASE Body
  BY <1>6 DEF Body, Finish, Reaped, Fetching
<1>7. CASE Writes \/ PipeCloses
  BY <1>7 DEF Writes, PipeCloses, HasReader, Finish, Reaped, Fetching
<1>8. CASE Decide
  BY <1>8 DEF Decide, Stopped, Fetching
<1>9. CASE BackOff \/ CurlEnds
  BY <1>9 DEF BackOff, CurlEnds, Fetching
<1>10. CASE UNCHANGED streamVars
  BY <1>10 DEF streamVars
<1>11. QED
  BY <1>1, <1>2, <1>3, <1>4, <1>5, <1>6, <1>7, <1>8, <1>9, <1>10 DEF StreamNext, Fetch

(* No network transfer outlives its stream, wherever the drop came, and a     *)
(* station that is not received any more says why (radio.rs, Stream::drop and *)
(* run): for any number of stations, tries, playlists and blocks in the pipe. *)
THEOREM TransfersEnd == StreamSpec => []OneTransfer
<1>1. StreamInit => StreamInv
  BY DEF StreamInit, StreamInv, Between
<1>2. StreamInv => OneTransfer
  BY DEF StreamInv, OneTransfer, TransferEnds, SaysWhy, Between, Receiving
<1>3. QED
  BY <1>1, <1>2, StreamStep, PTL DEF StreamSpec

-----------------------------------------------------------------------------
(* Outputs. *)

States == [available : BOOLEAN, powered : BOOLEAN, link : [Peers -> Link]]
Losses == [peer : Peers \cup {None}, since : Nat, play : Nat]
Audio == [output : Peers \cup {Jack}, lost : Losses, music : {"stopped", "playing", "paused"},
          sink : Peers \cup {None, Jack, "speaker"}, speaker : BOOLEAN]
OutputsTyped ==
  /\ link \in [Peers -> Link] /\ adapter \in {"up", "off", "gone"}
  /\ lines \in Seq(States) /\ unsent \in Seq(States) /\ states \in Seq(States) /\ btState \in States
  /\ routed \in SUBSET Peers /\ audio \in Audio

(* A connection dealt with is one that the last state, were the adapter there, still shows. *)
RoutedAreSeen == btState.available => \A p \in routed : Connected(btState, p)
OutputsInv == OutputsTyped /\ RoutedAreSeen

LEMMA StatusTyped ==
  ASSUME NEW a \in {"up", "off", "gone"}, NEW l \in [Peers -> Link]
  PROVE  Status(a, l) \in States
BY DEF Status, States, Link

LEMMA LoadTyped ==
  ASSUME OutputBounds, NEW a \in Audio, NEW s, NEW plug
  PROVE  /\ LoadOn(a, s, plug) \in Audio
         /\ LoadOn(a, s, plug).output \in {a.output, Jack}
         /\ LoadOn(a, s, plug).music = "playing" /\ a.music # "playing" =>
              ~Applies(a, plug) /\ (a.output # Jack => LoadOn(a, s, plug).sink = a.output)
<1>1. Wait \in Nat /\ Window \in Nat /\ NotWaiting \in Nat
  BY DEF OutputBounds, NotWaiting
<1>2. CASE Applies(a, plug)
  <2> DEFINE l == [a.lost EXCEPT !.play = IF @ = NotWaiting THEN 0 ELSE @]
  <2>1. l \in Losses
    BY DEF Audio, Losses
  <2>2. LoadOn(a, s, plug) = [a EXCEPT !.lost = l]
    BY <1>2 DEF LoadOn, Audio, Losses
  <2> HIDE DEF l
  <2>3. QED
    BY <2>1, <2>2 DEF Audio
<1>3. CASE ~Applies(a, plug) /\ (a.output = Jack \/ Ready(s, a.output))
  <2> DEFINE speaker == SpeakerRoute(a.output, plug)
             to == IF speaker THEN "speaker" ELSE a.output
  <2>1. speaker \in BOOLEAN /\ (a.output # Jack => ~speaker)
    BY DEF SpeakerRoute, OutputBounds
  <2>2. LoadOn(a, s, plug) = [a EXCEPT !.music = "playing", !.speaker = speaker, !.sink = to]
    BY <1>3 DEF LoadOn, StartedOn
  <2>3. to \in Peers \cup {None, Jack, "speaker"} /\ (a.output # Jack => to = a.output)
    BY <2>1 DEF Audio
  <2> HIDE DEF speaker, to
  <2>4. QED
    BY <1>3, <2>1, <2>2, <2>3 DEF Audio
<1>4. CASE ~Applies(a, plug) /\ ~(a.output = Jack \/ Ready(s, a.output))
  <2>1. LoadOn(a, s, plug) \in {PeerLost(a), a}
    BY <1>4 DEF LoadOn
  <2>2. LostPeer(a.output) \in Losses
    BY <1>1, <1>4 DEF LostPeer, Losses, Audio
  <2>3. PeerLost(a) \in Audio /\ PeerLost(a).output = Jack /\ PeerLost(a).music = "paused"
    BY <2>2 DEF PeerLost, Audio
  <2>4. QED
    BY <2>1, <2>3 DEF Audio
<1>5. QED
  BY <1>2, <1>3, <1>4

LEMMA SwitchTyped ==
  ASSUME OutputBounds, NEW a \in Audio, NEW out \in Peers \cup {Jack}, NEW s, NEW plug
  PROVE  /\ Switch(a, out, s, plug) \in Audio
         /\ Switch(a, out, s, plug).output \in {out, Jack}
         /\ Switch(a, out, s, plug).music = "playing" /\ a.music # "playing" =>
              a.lost.play # NotWaiting /\ (out # Jack => Switch(a, out, s, plug).sink = out)
<1> DEFINE moved == [a EXCEPT !.output = out, !.lost = NoLoss]
<1>1. NoLoss \in Losses
  BY DEF NoLoss, Losses, OutputBounds, NotWaiting
<1>2. moved \in Audio /\ moved.output = out /\ moved.music = a.music
  BY <1>1 DEF Audio
<1>3. \/ Switch(a, out, s, plug) = moved
      \/ Switch(a, out, s, plug) = LoadOn(moved, s, plug) /\ (a.music = "playing" \/ a.lost.play # NotWaiting)
  BY DEF Switch
<1> HIDE DEF moved
<1>4. QED
  BY <1>2, <1>3, LoadTyped

LEMMA RestTyped ==
  ASSUME OutputBounds, NEW a \in Audio
  PROVE  /\ LostPeerTick(a) \in Audio /\ LostPeerTick(a).output = a.output /\ LostPeerTick(a).music = a.music
         /\ a.output # Jack => PeerLost(a) \in Audio /\ PeerLost(a).output = Jack /\ PeerLost(a).music # "playing"
<1>1. NotWaiting \in Nat
  BY DEF OutputBounds, NotWaiting
<1>2. NoLoss \in Losses /\ (a.output # Jack => LostPeer(a.output) \in Losses)
  BY <1>1 DEF NoLoss, LostPeer, Losses, Audio
<1>3. QED
  BY <1>2 DEF LostPeerTick, PeerLost, Audio

(* What a pass makes of the audio: a lost output, and the headphones it moves to. *)
LEMMA PassMoves ==
  ASSUME OutputBounds, OutputsInv, OutputPass
  PROVE  \E s \in States :
           /\ btState' = s /\ states' = <<>> /\ UNCHANGED <<link, adapter, lines, unsent, headphones, changes>>
           /\ s = IF states = <<>> THEN btState ELSE states[Len(states)]
           /\ audio' \in Audio /\ StillRouted(s) \subseteq routed' /\ routed' \subseteq Peers
           /\ \A p \in routed' : p \in StillRouted(s) \/ Ready(s, p)
           /\ \/ audio'.output \in {audio.output, Jack} /\ (audio'.music = "playing" => audio.music = "playing")
              \/ \E p \in Peers \ StillRouted(s) :
                   /\ audio'.output \in {p, Jack}
                   /\ audio'.music = "playing" /\ audio.music # "playing" => audio'.sink = p
<1> DEFINE s == IF states = <<>> THEN btState ELSE states[Len(states)]
           now == IF BtLost THEN PeerLost(LostPeerTick(audio)) ELSE LostPeerTick(audio)
<1>1. s \in States
  BY DEF OutputsInv, OutputsTyped
<1>2. audio \in Audio /\ routed \subseteq Peers
  BY DEF OutputsInv, OutputsTyped
<1>3. BtLost => audio.output # Jack
  BY DEF BtLost, Disconnects
<1>4. now \in Audio /\ now.output \in {audio.output, Jack} /\ (now.music = "playing" => audio.music = "playing")
  BY <1>2, <1>3, RestTyped
<1>5. StillRouted(s) \subseteq Peers
  BY <1>2 DEF StillRouted
<1>6. /\ btState' = s /\ states' = <<>> /\ UNCHANGED <<link, adapter, lines, unsent, headphones, changes>>
      /\ \/ routed' = StillRouted(s) /\ audio' = now
         \/ \E p \in NewlyReady(s) :
              /\ routed' = StillRouted(s) \cup {p}
              /\ audio' = IF p = now.output THEN now ELSE Switch(now, p, s, headphones)
  BY DEF OutputPass
<1> HIDE DEF s, now
<1>7. CASE routed' = StillRouted(s) /\ audio' = now
  BY <1>1, <1>4, <1>5, <1>6, <1>7 DEF s
<1>8. ASSUME NEW p \in NewlyReady(s), routed' = StillRouted(s) \cup {p},
             audio' = IF p = now.output THEN now ELSE Switch(now, p, s, headphones)
      PROVE  /\ audio' \in Audio /\ p \in Peers \ StillRouted(s) /\ Ready(s, p)
             /\ \/ audio'.output \in {audio.output, Jack} /\ (audio'.music = "playing" => audio.music = "playing")
                \/ /\ audio'.output \in {p, Jack}
                   /\ audio'.music = "playing" /\ audio.music # "playing" => audio'.sink = p
  <2>1. p \in Peers \ StillRouted(s) /\ Ready(s, p) /\ p # Jack
    BY <1>8 DEF NewlyReady, OutputBounds, Jack
  <2>2. CASE p = now.output
    BY <1>4, <1>8, <2>1, <2>2
  <2>3. CASE p # now.output
    <3>1. audio' = Switch(now, p, s, headphones)
      BY <1>8, <2>3
    <3>2. /\ audio' \in Audio /\ audio'.output \in {p, Jack}
          /\ audio'.music = "playing" /\ now.music # "playing" => audio'.sink = p
      BY <1>4, <2>1, <3>1, SwitchTyped
    <3>3. QED
      BY <1>4, <2>1, <3>2
  <2>4. QED
    BY <2>2, <2>3
<1>9. CASE \E p \in NewlyReady(s) :
              /\ routed' = StillRouted(s) \cup {p}
              /\ audio' = IF p = now.output THEN now ELSE Switch(now, p, s, headphones)
  <2>1. PICK p \in NewlyReady(s) :
              /\ routed' = StillRouted(s) \cup {p}
              /\ audio' = IF p = now.output THEN now ELSE Switch(now, p, s, headphones)
    BY <1>9
  <2>2. /\ audio' \in Audio /\ p \in Peers \ StillRouted(s) /\ Ready(s, p)
        /\ \/ audio'.output \in {audio.output, Jack} /\ (audio'.music = "playing" => audio.music = "playing")
           \/ /\ audio'.output \in {p, Jack}
              /\ audio'.music = "playing" /\ audio.music # "playing" => audio'.sink = p
    BY <2>1, <1>8
  <2>3. StillRouted(s) \subseteq routed' /\ routed' \subseteq Peers
        /\ \A q \in routed' : q \in StillRouted(s) \/ Ready(s, q)
    BY <2>1, <2>2, <1>5
  <2>4. QED
    BY <1>1, <1>6, <2>2, <2>3 DEF s
<1>10. QED
  BY <1>6, <1>7, <1>9

(* The daemon and the client thread. *)
LEMMA StatesOnTheirWay ==
  ASSUME OutputsInv, (\E p \in Peers : LinkChanges(p)) \/ (\E to \in {"up", "off", "gone"} : AdapterChanges(to)) \/ ClientPass
  PROVE  OutputsInv' /\ UNCHANGED <<audio, routed>>
<1>1. UNCHANGED <<audio, routed, btState>>
  BY DEF LinkChanges, AdapterChanges, ClientPass
<1>2. ASSUME NEW p \in Peers, LinkChanges(p) PROVE OutputsTyped'
  <2>1. PICK to \in Link : link' = [link EXCEPT ![p] = to]
    BY <1>2 DEF LinkChanges
  <2>2. link' \in [Peers -> Link] /\ adapter \in {"up", "off", "gone"}
    BY <2>1 DEF OutputsInv, OutputsTyped
  <2>3. lines' = Append(lines, Status(adapter, link')) /\ Status(adapter, link') \in States
    BY <1>2, <2>2, StatusTyped DEF LinkChanges
  <2>4. UNCHANGED <<adapter, unsent, states>>
    BY <1>2 DEF LinkChanges
  <2>5. QED
    BY <1>1, <2>2, <2>3, <2>4 DEF OutputsInv, OutputsTyped
<1>3. ASSUME NEW to \in {"up", "off", "gone"}, AdapterChanges(to) PROVE OutputsTyped'
  <2>1. link' = (IF to = "off" THEN [p \in Peers |-> "away"] ELSE link) /\ adapter' = to
    BY <1>3 DEF AdapterChanges
  <2>2. [p \in Peers |-> "away"] \in [Peers -> Link]
    BY DEF Link
  <2>3. link' \in [Peers -> Link]
    BY <2>1, <2>2 DEF OutputsInv, OutputsTyped
  <2>4. lines' = Append(lines, Status(to, link')) /\ Status(to, link') \in States
    BY <1>3, <2>3, StatusTyped DEF AdapterChanges
  <2>5. UNCHANGED <<unsent, states>>
    BY <1>3 DEF AdapterChanges
  <2>6. QED
    BY <1>1, <2>1, <2>3, <2>4, <2>5 DEF OutputsInv, OutputsTyped
<1>4. ASSUME ClientPass PROVE OutputsTyped'
  <2> DEFINE newest == IF lines = <<>> THEN unsent ELSE <<lines[Len(lines)]>>
  <2>1. lines \in Seq(States) /\ unsent \in Seq(States) /\ states \in Seq(States)
    BY DEF OutputsInv, OutputsTyped
  <2>2. newest \in Seq(States)
    BY <2>1
  <2>3. \/ (states' = states \o newest /\ unsent' = <<>>)
        \/ (states' = states /\ unsent' = newest)
    BY <1>4 DEF ClientPass
  <2>4. lines' = <<>> /\ UNCHANGED <<link, adapter>>
    BY <1>4 DEF ClientPass
  <2> HIDE DEF newest
  <2>5. states' \in Seq(States) /\ unsent' \in Seq(States) /\ lines' \in Seq(States)
    <3>1. states \o newest \in Seq(States)
      BY <2>1, <2>2
    <3>2. <<>> \in Seq(States)
      OBVIOUS
    <3>3. QED
      BY <2>1, <2>2, <2>3, <2>4, <3>1, <3>2
  <2>6. QED
    BY <1>1, <2>4, <2>5 DEF OutputsInv, OutputsTyped
<1>5. QED
  BY <1>1, <1>2, <1>3, <1>4 DEF OutputsInv, RoutedAreSeen

(* The owner, the jack, the clock and a sink that breaks. *)
PlayerSteps ==
  \/ PlayPressed \/ Pause \/ ReleaseHold \/ (\E out \in Peers \cup {Jack} : ChooseOutput(out))
  \/ (\E to \in {"in", "out"} : JackChanged(to)) \/ StreamBreaks \/ ClockTick \/ ScreenWakes
LEMMA PlayerTyped ==
  ASSUME OutputBounds, audio \in Audio, PlayerSteps
  PROVE  /\ audio' \in Audio
         /\ audio'.music = "playing" /\ audio.music # "playing" => ~Applies(audio, headphones)
<1>1. ASSUME PlayPressed
      PROVE  audio' \in Audio /\ (audio'.music = "playing" /\ audio.music # "playing" => ~Applies(audio, headphones))
  <2>1. CASE ResumesInPlace(audio)
    BY <1>1, <2>1 DEF PlayPressed, ResumesInPlace, Audio
  <2>2. CASE ~ResumesInPlace(audio)
    BY <1>1, <2>2, LoadTyped DEF PlayPressed
  <2>3. QED
    BY <2>1, <2>2
<1>2. ASSUME NEW out \in Peers \cup {Jack}, ChooseOutput(out)
      PROVE  audio' \in Audio /\ (audio'.music = "playing" => audio.music = "playing")
  <2> DEFINE free == [audio EXCEPT !.lost = NoLoss]
  <2>1. NoLoss \in Losses /\ NoLoss.play = NotWaiting
    BY DEF NoLoss, Losses, OutputBounds, NotWaiting
  <2>2. free \in Audio /\ free.music = audio.music /\ free.lost.play = NotWaiting
    BY <2>1 DEF Audio
  <2>3. audio' = Switch(free, out, btState, headphones)
    BY <1>2 DEF ChooseOutput
  <2> HIDE DEF free
  <2>4. QED
    BY <2>2, <2>3, SwitchTyped
<1>3. ASSUME NEW to \in {"in", "out"}, JackChanged(to)
      PROVE  audio' \in Audio /\ (audio'.music = "playing" => audio.music = "playing")
  <2>1. SpeakerRoute(audio.output, to) \in BOOLEAN
    BY DEF SpeakerRoute, OutputBounds
  <2>2. \/ (audio.music = "playing" /\ audio' = LoadOn(audio, btState, to))
        \/ audio' = [audio EXCEPT !.music = "paused"]
        \/ audio' = [audio EXCEPT !.speaker = SpeakerRoute(audio.output, to)]
        \/ audio' = audio
    BY <1>3 DEF JackChanged
  <2>3. QED
    BY <2>1, <2>2, LoadTyped DEF Audio
<1>4. ASSUME Pause \/ ReleaseHold \/ StreamBreaks
      PROVE  audio' \in Audio /\ (audio'.music = "playing" => audio.music = "playing")
  BY <1>4 DEF Pause, ReleaseHold, StreamBreaks, Audio
<1>5. ASSUME ClockTick \/ ScreenWakes
      PROVE  audio' \in Audio /\ (audio'.music = "playing" => audio.music = "playing")
  <2>1. \E l \in Losses : audio' = [audio EXCEPT !.lost = l]
    <3>1. CASE ClockTick
      <4> DEFINE l == [audio.lost EXCEPT !.since = IF @ < Window THEN @ + 1 ELSE @,
                                         !.play = IF @ < Wait THEN @ + 1 ELSE @]
      <4>1. audio.lost \in Losses /\ Window \in Nat /\ Wait \in Nat
        BY DEF Audio, OutputBounds
      <4>2. /\ (IF audio.lost.since < Window THEN audio.lost.since + 1 ELSE audio.lost.since) \in Nat
            /\ (IF audio.lost.play < Wait THEN audio.lost.play + 1 ELSE audio.lost.play) \in Nat
        BY <4>1 DEF Losses
      <4>3. l \in Losses
        BY <4>1, <4>2 DEF Losses
      <4>4. audio' = [audio EXCEPT !.lost = l]
        BY <3>1 DEF ClockTick, Audio, Losses
      <4>5. QED
        BY <4>3, <4>4
    <3>2. CASE ScreenWakes
      <4> DEFINE l == [audio.lost EXCEPT !.since = 0]
      <4>1. l \in Losses
        BY DEF Audio, Losses
      <4>2. audio' = [audio EXCEPT !.lost = l]
        BY <3>2 DEF ScreenWakes, Audio, Losses
      <4>3. QED
        BY <4>1, <4>2
    <3>3. QED
      BY <1>5, <3>1, <3>2
  <2>2. QED
    BY <2>1 DEF Audio
<1>6. QED
  BY <1>1, <1>2, <1>3, <1>4, <1>5 DEF PlayerSteps

LEMMA OutputsStart == ASSUME OutputBounds, OutputsInit PROVE OutputsInv
<1>1. link \in [Peers -> Link] /\ adapter = "up"
  BY DEF OutputsInit, Link
<1>2. btState \in States
  BY <1>1, StatusTyped DEF OutputsInit
<1>3. NoLoss \in Losses
  BY DEF NoLoss, Losses, OutputBounds, NotWaiting
<1>4. audio \in Audio
  BY <1>3 DEF OutputsInit, Audio
<1>5. lines \in Seq(States) /\ unsent \in Seq(States) /\ states \in Seq(States) /\ routed = {}
  BY DEF OutputsInit
<1>6. QED
  BY <1>1, <1>2, <1>4, <1>5 DEF OutputsInv, OutputsTyped, RoutedAreSeen

LEMMA OutputsSteps == ASSUME OutputBounds, OutputsInv, [OutputsNext]_outputVars PROVE OutputsInv'
<1>1. CASE UNCHANGED outputVars
  BY <1>1 DEF outputVars, OutputsInv, OutputsTyped, RoutedAreSeen, Connected
<1>2. CASE PlayerSteps
  <2>1. UNCHANGED <<link, adapter, lines, unsent, states, btState, routed>>
    BY <1>2 DEF PlayerSteps, PlayPressed, Pause, ReleaseHold, ChooseOutput, JackChanged, StreamBreaks, ClockTick,
       ScreenWakes, OnlyAudio
  <2>2. audio' \in Audio
    BY <1>2, PlayerTyped DEF OutputsInv, OutputsTyped
  <2>3. QED
    BY <2>1, <2>2 DEF OutputsInv, OutputsTyped, RoutedAreSeen, Connected
<1>3. CASE OutputPass
  <2>1. PICK s \in States :
          /\ btState' = s /\ states' = <<>> /\ UNCHANGED <<link, adapter, lines, unsent, headphones, changes>>
          /\ audio' \in Audio /\ routed' \subseteq Peers
          /\ \A p \in routed' : p \in StillRouted(s) \/ Ready(s, p)
    BY <1>3, PassMoves
  <2>2. OutputsTyped'
    BY <2>1 DEF OutputsInv, OutputsTyped
  <2>3. RoutedAreSeen'
    BY <2>1 DEF RoutedAreSeen, StillRouted, Ready, Connected
  <2>4. QED
    BY <2>2, <2>3 DEF OutputsInv
<1>4. QED
  BY <1>1, <1>2, <1>3, StatesOnTheirWay DEF OutputsNext, PlayerSteps

LEMMA LossesKeepTheJackSilent ==
  ASSUME OutputBounds, OutputsInv, [OutputsNext]_outputVars,
         audio'.music = "playing", audio.music # "playing", audio'.sink \in {Jack, "speaker"}
  PROVE  ~Applies(audio, headphones)
<1>1. audio \in Audio
  BY DEF OutputsInv, OutputsTyped
<1>2. CASE PlayerSteps
  BY <1>1, <1>2, PlayerTyped
<1>3. CASE OutputPass
  <2>1. PICK p \in Peers : audio'.sink = p
    BY <1>3, PassMoves
  <2>2. QED
    BY <2>1 DEF OutputBounds, Jack
<1>4. QED
  BY <1>2, <1>3, StatesOnTheirWay DEF OutputsNext, PlayerSteps, outputVars

LEMMA ConnectionsMoveOnce ==
  ASSUME OutputBounds, OutputsInv, [OutputsNext]_outputVars, NEW p \in routed, ~SeenAway(p)
  PROVE  p \in routed' /\ (OutputPass /\ audio.output # p => audio'.output # p)
<1>1. p \in Peers /\ p # Jack
  BY DEF OutputsInv, OutputsTyped, OutputBounds, Jack
<1>2. CASE OutputPass
  <2>1. PICK s \in States :
           /\ s = IF states = <<>> THEN btState ELSE states[Len(states)]
           /\ StillRouted(s) \subseteq routed'
           /\ \/ audio'.output \in {audio.output, Jack}
              \/ \E q \in Peers \ StillRouted(s) : audio'.output \in {q, Jack}
    BY <1>2, PassMoves
  <2>2. p \in StillRouted(s)
    <3>1. CASE states = <<>>
      BY <2>1, <3>1 DEF OutputsInv, RoutedAreSeen, StillRouted
    <3>2. CASE states # <<>>
      <4>1. Len(states) \in 1..Len(states)
        BY <3>2 DEF OutputsInv, OutputsTyped
      <4>2. ~s.available \/ Connected(s, p)
        BY <2>1, <3>2, <4>1 DEF SeenAway
      <4>3. QED
        BY <4>2 DEF StillRouted
    <3>3. QED
      BY <3>1, <3>2
  <2>3. QED
    BY <1>1, <2>1, <2>2
<1>3. CASE UNCHANGED routed /\ ~OutputPass
  BY <1>3
<1>4. QED
  BY <1>2, <1>3, StatesOnTheirWay DEF OutputsNext, outputVars, PlayPressed, Pause, ReleaseHold, ChooseOutput, JackChanged,
     StreamBreaks, ClockTick, ScreenWakes, OnlyAudio

(* However headphones, adapter, jack and states come and go: a Play after a   *)
(* loss waits for the headphones instead of sounding on the jack, and a       *)
(* connection dealt with does not take the output again, even if the radio    *)
(* daemon was away in between.                                                *)
THEOREM OutputsFollow ==
  ASSUME OutputBounds
  PROVE  OutputsSpec => OutputFollows
<1>1. OutputsSpec => []OutputsInv
  BY OutputsStart, OutputsSteps, PTL DEF OutputsSpec
<1>2. ASSUME OutputsInv, [OutputsNext]_outputVars
      PROVE  [ (audio'.music = "playing" /\ audio.music # "playing" /\ audio'.sink \in {Jack, "speaker"})
               => ~Applies(audio, headphones) ]_outputVars
  BY <1>2, LossesKeepTheJackSilent
<1>3. ASSUME OutputsInv, [OutputsNext]_outputVars
      PROVE  [ \A p \in routed : ~SeenAway(p) => /\ p \in routed'
                                                 /\ (OutputPass /\ audio.output # p => audio'.output # p) ]_outputVars
  BY <1>3, ConnectionsMoveOnce
<1>4. QED
  BY <1>1, <1>2, <1>3, PTL DEF OutputsSpec, OutputFollows, NeverOnTheJack, OncePerConnection

-----------------------------------------------------------------------------
(* Wifi. *)

Name == Ssids \cup {Saved0[i] : i \in DOMAIN Saved0} \cup {NoNet}
Network == [id : Nat, ssid : Name, good : BOOLEAN, on : BOOLEAN]
(* Networks have numbers of their own, and there is a number above them all. *)
Numbers(ns) ==
  /\ ns \subseteq Network
  /\ \A m, n \in ns : m.id = n.id => m = n
  /\ \E b \in Nat : \A n \in ns : n.id < b
(* Networks worth having: each connected once, is enabled, and has its name    *)
(* for itself; but for those an end of the player left in a join.              *)
Good(ns) == \A n \in ns : n.good \/ n.ssid \in untried
On(ns) == \A n \in ns : n.on \/ n.ssid \in leftOff
OneEach(ns) == \A m, n \in ns : m.ssid = n.ssid => m = n \/ n.ssid \in untried
WorthHaving(ns) == Numbers(ns) /\ Good(ns) /\ On(ns) /\ OneEach(ns)

Outcomes == {"none", "checking", "joined", "wrong password", "failed", "not found"}
Joins ==
  [attempt : Nat \ {0}, ssid : Name, good : BOOLEAN, id : Nat, added : BOOLEAN, retry : BOOLEAN,
   restarting : BOOLEAN, cleaned : BOOLEAN, failures : Nat, absent : Nat, timedOut : BOOLEAN,
   interrupted : BOOLEAN, outcome : Outcomes]
WifiTyped ==
  /\ radio \in BOOLEAN /\ up \in BOOLEAN /\ preference \in BOOLEAN /\ idleOff \in BOOLEAN
  /\ Numbers(nets) /\ Numbers(networks)
  /\ join = NoJoin \/ join \in Joins
  /\ attempts \in Nat

Listing == [id : Nat, ssid : Name]
Verdict == [attempt : Nat, ssid : Name, outcome : Outcomes]
Report == [saved : SUBSET Listing, join : Verdict]
WifiCommands ==
  [op : {"power"}, on : BOOLEAN] \cup [op : {"scan"}] \cup [op : {"connect"}, ssid : Name, good : BOOLEAN]
  \cup [op : {"saved", "forget"}, id : Int, meant : Name]
ChannelsTyped ==
  /\ current \in Report /\ statuses \in Seq(Report) /\ commands \in Seq(WifiCommands)
  /\ statusShown \subseteq Listing /\ menu \in [id : Int, ssid : Name]

(* What a join in progress may make of the networks: all but its own were      *)
(* there before it, and its own, when it is new, has the password it tries.    *)
Tried(ns, j) ==
  LET others == IF j.added THEN Without(ns, j.id) ELSE ns
  IN /\ Good(others) /\ OneEach(others)
     /\ \A n \in ns : n.id = j.id => n.good = j.good /\ (j.added => n.ssid = j.ssid)
UnderTrial == join # NoJoin /\ ~join.restarting
NetworksInv ==
  /\ WorthHaving(networks)
  /\ IF UnderTrial THEN Tried(nets, join) ELSE WorthHaving(nets)

(* What the supplicant still tells of a join, given what the join has heard.   *)
Telling(h, j) ==
  \/ h \in {<<>>, <<"not found">>, <<"reject">>, <<"disconnected there", "disabled">>, <<"disabled">>,
            <<"disconnected here", "wrong key">>}
  \/ h = <<"wrong key">> /\ (j.good => j.interrupted)
  \/ h = <<"connected">> /\ j.good
  \/ h \in {<<"timed out", "disconnected here", "wrong key">>, <<"disconnected there", "wrong key">>} /\ ~j.good
Checking(j) == ~j.cleaned /\ j.outcome = "checking" /\ (j.good => ~j.timedOut)
JoinInv ==
  /\ UnderTrial => up /\ Checking(join) /\ Telling(heard, join)
  /\ join # NoJoin /\ join.restarting => join.cleaned
  /\ ~UnderTrial => heard = <<>>

(* The radio follows the owner's choice, but for the minutes it is off in the  *)
(* dark, when that choice is the wake's to bring back.                         *)
RadioInv ==
  /\ up => radio
  /\ ~up => nets = {}
  /\ ~idleOff /\ ~missed => radio = preference
  /\ idleOff /\ ~missed => preference = TRUE
NetsInv == WifiTyped /\ NetworksInv /\ JoinInv /\ (~up => nets = {})
ThreadInv == NetsInv /\ ChannelsTyped
WifiInv == ThreadInv /\ RadioInv

(* Of numbers bounded above there is a greatest, and one after it: the least   *)
(* of those above them all.                                                    *)
LEMMA NumberAfter ==
  ASSUME NEW ns, \A n \in ns : n.id \in Nat, NEW b \in Nat, \A n \in ns : n.id < b
  PROVE  \E k \in {0} \cup {n.id + 1 : n \in ns} : \A n \in ns : n.id < k
<1> DEFINE T == {k \in Nat : \A n \in ns : n.id < k}
<1> DEFINE R == OpToRel(<, Nat)
<1>1. IsWellFoundedOn(R, Nat)
  BY NatLessThanWellFounded
<1>2. PICK k \in T : \A l \in T : <<l, k>> \notin R
  <2>1. T \subseteq Nat /\ b \in T
    OBVIOUS
  <2> HIDE DEF T, R
  <2>2. QED
    BY <1>1, <2>1, WFMin
<1>3. \A l \in T : ~(l < k)
  BY <1>2 DEF OpToRel
<1>4. CASE k = 0
  BY <1>4
<1>5. CASE k # 0
  <2>1. k - 1 \in Nat /\ k - 1 < k
    BY <1>5
  <2>2. PICK n \in ns : ~(n.id < k - 1)
    BY <1>3, <2>1
  <2>3. n.id < k /\ n.id \in Nat
    BY <1>2
  <2>4. n.id + 1 = k
    BY <2>1, <2>2, <2>3
  <2>5. QED
    BY <1>2, <2>4
<1>6. QED
  BY <1>4, <1>5
LEMMA NumberIsNew ==
  ASSUME NEW ns, Numbers(ns)
  PROVE  FreeId(ns) \in Nat /\ \A n \in ns : n.id < FreeId(ns)
<1>1. \A n \in ns : n.id \in Nat
  BY DEF Numbers, Network
<1>2. PICK b \in Nat : \A n \in ns : n.id < b
  BY DEF Numbers
<1>3. \E k \in {0} \cup {n.id + 1 : n \in ns} : \A n \in ns : n.id < k
  BY <1>1, <1>2, NumberAfter
<1>4. FreeId(ns) \in {0} \cup {n.id + 1 : n \in ns} /\ \A n \in ns : n.id < FreeId(ns)
  BY <1>3 DEF FreeId
<1>5. QED
  BY <1>1, <1>4

(* Networks with numbers are finitely many.                                    *)
LEMMA NumbersFinite ==
  ASSUME NEW ns, Numbers(ns)
  PROVE  IsFiniteSet(ns)
<1>1. PICK b \in Nat : \A n \in ns : n.id < b
  BY DEF Numbers
<1> DEFINE f == [n \in ns |-> n.id]
<1>2. f \in Injection(ns, 0..b)
  <2>1. \A n \in ns : n.id \in 0..b
    BY <1>1 DEF Numbers, Network
  <2>2. f \in [ns -> 0..b]
    BY <2>1
  <2>3. \A m, n \in ns : f[m] = f[n] => m = n
    BY DEF Numbers
  <2>4. QED
    BY <2>2, <2>3 DEF Injection, IsInjective
<1>3. IsFiniteSet(0..b)
  BY FS_Interval
<1> HIDE DEF f
<1>4. QED
  BY <1>2, <1>3, FS_Injection

(* Saved, the networks keep their order, their names and their switches.       *)
Place(ns, n) == Cardinality({m \in ns : m.id < n.id})
LEMMA Places ==
  ASSUME NEW ns, Numbers(ns)
  PROVE  /\ \A n \in ns : Place(ns, n) \in Nat /\ Place(ns, n) <= Cardinality(ns)
         /\ \A m, n \in ns : Place(ns, m) = Place(ns, n) => m = n
         /\ Cardinality(ns) \in Nat
<1>1. IsFiniteSet(ns)
  BY NumbersFinite
<1>2. ASSUME NEW n \in ns
      PROVE  /\ IsFiniteSet({m \in ns : m.id < n.id}) /\ Place(ns, n) \in Nat
             /\ Place(ns, n) <= Cardinality(ns)
  <2>1. {m \in ns : m.id < n.id} \in SUBSET ns
    OBVIOUS
  <2>2. QED
    BY <1>1, <2>1, FS_Subset, FS_CardinalityType DEF Place
<1>3. ASSUME NEW m \in ns, NEW n \in ns, m.id < n.id
      PROVE  Place(ns, m) # Place(ns, n)
  <2> DEFINE A == {l \in ns : l.id < m.id}
  <2> DEFINE B == {l \in ns : l.id < n.id}
  <2>1. A \in SUBSET B /\ m \in B /\ m \notin A
    BY <1>3 DEF Numbers, Network
  <2>2. IsFiniteSet(B)
    BY <1>2
  <2>3. Place(ns, m) = Cardinality(A) /\ Place(ns, n) = Cardinality(B)
    BY DEF Place
  <2> HIDE DEF A, B
  <2>4. QED
    BY <2>1, <2>2, <2>3, FS_Subset
<1>4. ASSUME NEW m \in ns, NEW n \in ns, Place(ns, m) = Place(ns, n)
      PROVE  m = n
  <2>1. m.id \in Nat /\ n.id \in Nat
    BY DEF Numbers, Network
  <2>2. ~(m.id < n.id) /\ ~(n.id < m.id)
    BY <1>3, <1>4
  <2>3. m.id = n.id
    BY <2>1, <2>2
  <2>4. QED
    BY <2>3 DEF Numbers
<1>5. QED
  BY <1>1, <1>2, <1>4, FS_CardinalityType
LEMMA SavedNumbers ==
  ASSUME NEW ns, Numbers(ns)
  PROVE  /\ Numbers(Saved(ns))
         /\ Good(ns) => Good(Saved(ns))
         /\ On(ns) => On(Saved(ns))
         /\ OneEach(ns) => OneEach(Saved(ns))
<1> DEFINE w(n) == [n EXCEPT !.id = Place(ns, n)]
<1>1. Saved(ns) = {w(n) : n \in ns}
  BY DEF Saved, Place
<1>2. ASSUME NEW n \in ns
      PROVE  w(n) \in Network /\ w(n).id = Place(ns, n) /\ w(n).ssid = n.ssid /\ w(n).good = n.good /\ w(n).on = n.on
  BY Places DEF Numbers, Network
<1> HIDE DEF w
<1>3. \A x \in Saved(ns) : \E n \in ns : x = w(n)
  BY <1>1
<1>4. \A x, y \in Saved(ns) : x.id = y.id => x = y
  BY <1>2, <1>3, Places
<1>5. Saved(ns) \subseteq Network
  BY <1>2, <1>3
<1>6. \A x \in Saved(ns) : x.id < Cardinality(ns) + 1
  BY <1>2, <1>3, Places
<1>7. Numbers(Saved(ns))
  BY <1>4, <1>5, <1>6, Places DEF Numbers
<1>8. (Good(ns) => Good(Saved(ns))) /\ (On(ns) => On(Saved(ns)))
  BY <1>2, <1>3 DEF Good, On
<1>9. OneEach(ns) => OneEach(Saved(ns))
  BY <1>2, <1>3 DEF OneEach
<1>10. QED
  BY <1>7, <1>8, <1>9

(* What a command makes of them. *)
LEMMA WithoutNumbers ==
  ASSUME NEW ns, Numbers(ns), NEW id
  PROVE  /\ Numbers(Without(ns, id)) /\ Without(ns, id) \subseteq ns
         /\ \A n \in Without(ns, id) : n.id # id
BY DEF Numbers, Without
LEMMA SubsetNumbers ==
  ASSUME NEW ns, Numbers(ns), NEW ms \in SUBSET ns
  PROVE  /\ Numbers(ms) /\ (Good(ns) => Good(ms)) /\ (On(ns) => On(ms)) /\ (OneEach(ns) => OneEach(ms))
BY DEF Numbers, Good, On, OneEach
LEMMA EnabledNumbers ==
  ASSUME NEW ns, Numbers(ns)
  PROVE  /\ Numbers(Enabled(ns)) /\ On(Enabled(ns))
         /\ Good(ns) => Good(Enabled(ns))
         /\ OneEach(ns) => OneEach(Enabled(ns))
<1> DEFINE w(n) == [n EXCEPT !.on = TRUE]
<1>1. Enabled(ns) = {w(n) : n \in ns}
  BY DEF Enabled
<1>2. ASSUME NEW n \in ns
      PROVE  w(n) \in Network /\ w(n).id = n.id /\ w(n).ssid = n.ssid /\ w(n).good = n.good /\ w(n).on
  BY DEF Numbers, Network
<1> HIDE DEF w
<1>3. \A x \in Enabled(ns) : \E n \in ns : x = w(n)
  BY <1>1
<1>4. Numbers(Enabled(ns))
  BY <1>2, <1>3 DEF Numbers
<1>5. On(Enabled(ns)) /\ (Good(ns) => Good(Enabled(ns)))
  BY <1>2, <1>3 DEF Good, On
<1>6. OneEach(ns) => OneEach(Enabled(ns))
  BY <1>2, <1>3 DEF OneEach
<1>7. QED
  BY <1>4, <1>5, <1>6
LEMMA SelectedNumbers ==
  ASSUME NEW ns, Numbers(ns), NEW id \in Nat
  PROVE  /\ Numbers(Selected(ns, id))
         /\ \A x \in Selected(ns, id) : \E n \in ns : x.id = n.id /\ x.ssid = n.ssid /\ x.good = n.good
<1> DEFINE w(n) == [n EXCEPT !.on = (n.id = id)]
<1>1. Selected(ns, id) = {w(n) : n \in ns}
  BY DEF Selected
<1>2. ASSUME NEW n \in ns
      PROVE  w(n) \in Network /\ w(n).id = n.id /\ w(n).ssid = n.ssid /\ w(n).good = n.good
  BY DEF Numbers, Network
<1> HIDE DEF w
<1>3. \A x \in Selected(ns, id) : \E n \in ns : x = w(n)
  BY <1>1
<1>4. Numbers(Selected(ns, id))
  BY <1>2, <1>3 DEF Numbers
<1>5. QED
  BY <1>2, <1>3, <1>4

(* What ends a join leaves networks worth having. *)
LEMMA EndedWorth ==
  ASSUME NetsInv
  PROVE  WorthHaving(Ended(nets))
<1> USE DEF NetsInv, WifiTyped, NetworksInv, JoinInv
<1>1. CASE UnderTrial
  <2> DEFINE others == IF join.added THEN Without(nets, join.id) ELSE nets
  <2>1. up /\ ~join.cleaned /\ join # NoJoin
    BY <1>1 DEF UnderTrial, Checking
  <2>2. Ended(nets) = Enabled(others)
    BY <2>1 DEF Ended
  <2>3. Good(others) /\ OneEach(others) /\ Numbers(others)
    BY <1>1, WithoutNumbers DEF Tried
  <2> HIDE DEF others
  <2>4. QED
    BY <2>2, <2>3, EnabledNumbers DEF WorthHaving
<1>2. CASE ~UnderTrial
  <2>1. WorthHaving(nets)
    BY <1>2
  <2>2. Ended(nets) = nets
    BY <1>2 DEF Ended, UnderTrial
  <2>3. QED
    BY <2>1, <2>2
<1>3. QED
  BY <1>1, <1>2

(* A join that connected had a good password. *)
Same(j, i) == j \in Joins /\ i \in Joins /\ j.id = i.id /\ j.added = i.added /\ j.ssid = i.ssid
              /\ j.good = i.good /\ j.cleaned = i.cleaned
LEMMA FinishWorth ==
  ASSUME NetsInv, join # NoJoin, NEW j, Same(j, join), NEW joined \in BOOLEAN, joined => UnderTrial /\ j.good,
         FinishJoin(j, joined)
  PROVE  WorthHaving(nets') /\ WorthHaving(networks') /\ (~up => nets' = {})
<1> USE DEF NetsInv, WifiTyped, NetworksInv, JoinInv
<1>1. CASE ~UnderTrial
  <2>1. j.cleaned /\ ~joined
    BY <1>1 DEF UnderTrial, Same
  <2>2. nets' = nets /\ networks' = networks
    BY <2>1 DEF FinishJoin
  <2>3. QED
    BY <1>1, <2>2
<1>2. CASE UnderTrial
  <2>1. up /\ ~j.cleaned /\ Numbers(nets) /\ Tried(nets, j) /\ WorthHaving(networks)
    BY <1>2 DEF Same, Checking, Tried
  <2>2. CASE joined
    <3> DEFINE others == IF j.added THEN {n \in nets : n.ssid # j.ssid \/ n.id = j.id} ELSE nets
    <3>1. nets' = Enabled(others) /\ networks' = Saved(nets')
      BY <2>1, <2>2 DEF FinishJoin
    <3>2. Numbers(others)
      BY <2>1, SubsetNumbers
    <3>3. Good(others)
      BY <2>1, <2>2 DEF Tried, Good, Without
    <3>4. OneEach(others)
      BY <2>1 DEF Tried, OneEach, Without, Numbers
    <3> HIDE DEF others
    <3>5. WorthHaving(nets')
      BY <3>1, <3>2, <3>3, <3>4, EnabledNumbers DEF WorthHaving
    <3>6. WorthHaving(networks')
      BY <3>1, <3>5, SavedNumbers DEF WorthHaving
    <3>7. QED
      BY <2>1, <3>5, <3>6
  <2>3. CASE ~joined
    <3> DEFINE others == IF j.added THEN Without(nets, j.id) ELSE nets
    <3>1. nets' = Enabled(others) /\ networks' = networks
      BY <2>1, <2>3 DEF FinishJoin
    <3>2. Good(others) /\ OneEach(others) /\ Numbers(others)
      BY <2>1, WithoutNumbers DEF Tried
    <3> HIDE DEF others
    <3>3. QED
      BY <2>1, <3>1, <3>2, EnabledNumbers DEF WorthHaving
  <2>4. QED
    BY <2>2, <2>3
<1>3. QED
  BY <1>1, <1>2

(* What begins one. *)
Begun(j) == j \in Joins /\ j # NoJoin /\ ~j.restarting /\ Checking(j)
LEMMA PendingBegun ==
  ASSUME NEW attempt \in Nat \ {0}, NEW ssid \in Name, NEW good \in BOOLEAN, NEW id \in Nat, NEW added \in BOOLEAN,
         NEW retry \in BOOLEAN
  PROVE  Begun(Pending(attempt, ssid, good, id, added, retry))
<1>0. PICK j : j = Pending(attempt, ssid, good, id, added, retry)
  OBVIOUS
<1>1. /\ j.attempt = attempt /\ ~j.restarting /\ ~j.cleaned /\ j.outcome = "checking" /\ ~j.timedOut
  BY <1>0 DEF Pending
<1>2. j \in Joins
  <2>1. 0 \in Nat /\ "checking" \in Outcomes /\ FALSE \in BOOLEAN
    BY DEF Outcomes
  <2>2. PICK f \in BOOLEAN, zero \in Nat, o \in Outcomes : f = FALSE /\ zero = 0 /\ o = "checking"
    BY <2>1
  <2>3. j = [attempt |-> attempt, ssid |-> ssid, good |-> good, id |-> id, added |-> added, retry |-> retry,
             restarting |-> f, cleaned |-> f, failures |-> zero, absent |-> zero, timedOut |-> f,
             interrupted |-> f, outcome |-> o]
    BY <1>0, <2>2 DEF Pending
  <2>4. QED
    BY <2>3 DEF Joins
<1>3. NoJoin.attempt = 0 /\ j.attempt # 0
  BY <1>1 DEF NoJoin
<1>4. j # NoJoin
  BY <1>3
<1>5. QED
  BY <1>0, <1>1, <1>2, <1>4 DEF Begun, Checking
LEMMA TypedTried ==
  ASSUME NEW ns, WorthHaving(ns), NEW attempt \in Nat \ {0}, NEW ssid \in Name, NEW good \in BOOLEAN,
         NEW retry \in BOOLEAN, JoinTyped(ns, attempt, ssid, good, retry)
  PROVE  Begun(join') /\ Numbers(nets') /\ Tried(nets', join')
<1> DEFINE id == FreeId(ns)
<1> DEFINE new == Block(id, ssid, good, TRUE)
<1>1. id \in Nat /\ \A n \in ns : n.id < id
  BY NumberIsNew DEF WorthHaving
<1>2. new \in Network /\ new.id = id /\ new.ssid = ssid /\ new.good = good
  BY <1>1 DEF Block, Network
<1>3. nets' = Selected(ns \cup {new}, id) /\ join' = Pending(attempt, ssid, good, id, TRUE, retry)
  BY DEF JoinTyped
<1> HIDE DEF new, id
<1>4. Numbers(ns \cup {new})
  <2>1. ns \subseteq Network
    BY DEF WorthHaving, Numbers
  <2>2. \A n \in ns : n.id \in Nat
    BY <2>1 DEF Network
  <2>3. \A n \in ns \cup {new} : n.id < id + 1
    BY <1>1, <1>2, <2>2
  <2>4. \A m, n \in ns \cup {new} : m.id = n.id => m = n
    BY <1>1, <1>2, <2>2 DEF WorthHaving, Numbers
  <2>5. QED
    BY <1>1, <1>2, <2>1, <2>3, <2>4 DEF Numbers
<1>5. Numbers(nets') /\ \A x \in nets' : \E n \in ns \cup {new} : x.id = n.id /\ x.ssid = n.ssid /\ x.good = n.good
  BY <1>1, <1>3, <1>4, SelectedNumbers
<1>6. Begun(join') /\ join'.id = id /\ join'.ssid = ssid /\ join'.good = good /\ join'.added
  <2>1. TRUE \in BOOLEAN
    OBVIOUS
  <2>2. join'.added /\ join'.good = good
    BY <1>3 DEF Pending
  <2>3. Begun(Pending(attempt, ssid, good, id, TRUE, retry))
    BY <1>1, <2>1, PendingBegun
  <2>4. join'.id = id /\ join'.ssid = ssid
    BY <1>3 DEF Pending
  <2>5. Begun(join')
    BY <1>3, <2>3
  <2>6. QED
    BY <2>2, <2>4, <2>5
<1>7. \A x \in nets' : x.id = id => x.good = good /\ x.ssid = ssid
  <2>1. \A n \in ns : n.id # id
    BY <1>1 DEF WorthHaving, Numbers, Network
  <2>2. QED
    BY <1>2, <1>5, <2>1
<1>8. \A x \in Without(nets', id) : \E n \in ns : x.id = n.id /\ x.ssid = n.ssid /\ x.good = n.good
  BY <1>2, <1>5 DEF Without
<1>9. Good(Without(nets', id)) /\ OneEach(Without(nets', id))
  <2>1. Without(nets', id) \subseteq nets'
    BY DEF Without
  <2>2. QED
    BY <1>5, <1>8, <2>1 DEF WorthHaving, Good, OneEach, Numbers
<1>10. QED
  BY <1>5, <1>6, <1>7, <1>9 DEF Tried
LEMMA SavedTried ==
  ASSUME NEW ns, WorthHaving(ns), NEW attempt \in Nat \ {0}, NEW ssid \in Name, NEW id,
         NEW retry \in BOOLEAN, JoinSaved(ns, attempt, ssid, id, retry)
  PROVE  Begun(join') /\ Numbers(nets') /\ Tried(nets', join')
<1>1. PICK n \in ns : n.id = id /\ join' = Pending(attempt, ssid, n.good, id, FALSE, retry)
  BY DEF JoinSaved
<1>2. n.good \in BOOLEAN /\ id \in Nat
  BY <1>1 DEF WorthHaving, Numbers, Network
<1>3. nets' = Selected(ns, id)
  BY DEF JoinSaved
<1>4. Numbers(nets') /\ \A x \in nets' : \E m \in ns : x.id = m.id /\ x.ssid = m.ssid /\ x.good = m.good
  BY <1>2, <1>3, SelectedNumbers DEF WorthHaving
<1>5. Begun(join') /\ join'.id = id /\ join'.good = n.good /\ ~join'.added
  <2>1. FALSE \in BOOLEAN
    OBVIOUS
  <2>2. ~join'.added /\ join'.good = n.good
    BY <1>1 DEF Pending
  <2>3. Begun(Pending(attempt, ssid, n.good, id, FALSE, retry))
    BY <1>2, <2>1, PendingBegun
  <2>4. join'.id = id
    BY <1>1 DEF Pending
  <2>5. Begun(join')
    BY <1>1, <2>3
  <2>6. QED
    BY <2>2, <2>4, <2>5
<1>6. Good(nets') /\ OneEach(nets')
  BY <1>4 DEF WorthHaving, Good, OneEach, Numbers
<1>7. \A x \in nets' : x.id = id => x.good = n.good
  BY <1>1, <1>4 DEF WorthHaving, Numbers
<1>8. QED
  BY <1>4, <1>5, <1>6, <1>7 DEF Tried

(* How a step leaves a join under trial, or none. *)
SwitchesTyped == radio \in BOOLEAN /\ up \in BOOLEAN /\ preference \in BOOLEAN /\ idleOff \in BOOLEAN /\ attempts \in Nat
LEMMA UnderTrialNext ==
  ASSUME Begun(join'), up', Telling(heard', join'), Numbers(nets'), Tried(nets', join'), WorthHaving(networks'), SwitchesTyped',
         UNCHANGED <<untried, leftOff>>
  PROVE  NetsInv'
<1>1. UnderTrial'
  BY DEF Begun, UnderTrial
<1>2. WifiTyped'
  BY DEF WifiTyped, SwitchesTyped, Begun, WorthHaving
<1>3. JoinInv'
  BY <1>1 DEF JoinInv, Begun, UnderTrial
<1>4. NetworksInv'
  BY <1>1 DEF NetworksInv, WorthHaving, Tried, Good, On, OneEach
<1>5. QED
  BY <1>2, <1>3, <1>4 DEF NetsInv
LEMMA NoTrialNext ==
  ASSUME join' = NoJoin \/ (join' \in Joins /\ join'.restarting /\ join'.cleaned), heard' = <<>>,
         WorthHaving(nets'), WorthHaving(networks'), ~up' => nets' = {}, SwitchesTyped',
         UNCHANGED <<untried, leftOff>>
  PROVE  NetsInv'
<1>1. ~UnderTrial'
  BY DEF UnderTrial
<1>2. WifiTyped'
  BY DEF WifiTyped, SwitchesTyped, WorthHaving
<1>3. NetworksInv' /\ JoinInv'
  BY <1>1 DEF NetworksInv, JoinInv, WorthHaving, Good, On, OneEach
<1>4. QED
  BY <1>2, <1>3 DEF NetsInv
LEMMA NothingWorth == WorthHaving({})
<1>1. \A n \in {} : n.id < 0
  OBVIOUS
<1>2. QED
  BY <1>1 DEF WorthHaving, Numbers, Good, On, OneEach

(* A step that leaves the networks, the join and its events alone. *)
LEMMA NetsFrame ==
  ASSUME NetsInv, UNCHANGED <<up, nets, networks, heard, join, untried, leftOff>>, SwitchesTyped'
  PROVE  NetsInv'
BY DEF NetsInv, WifiTyped, NetworksInv, JoinInv, UnderTrial, SwitchesTyped, WorthHaving, Tried, Good, On, OneEach

(* listen: what an event leaves of what the supplicant still tells. *)
Heard(j, k, h) ==
  /\ k \in Joins /\ Same(k, j) /\ k.restarting = j.restarting
  /\ k.outcome = "checking" => Checking(k) /\ Telling(Tail(h), k)
  /\ k.outcome = "joined" => k.good
  /\ k.good => k.outcome # "wrong password"
LEMMA Tuples ==
  ASSUME NEW a, NEW b, NEW c
  PROVE  /\ Head(<<a>>) = a /\ Tail(<<a>>) = <<>>
         /\ Head(<<a, b>>) = a /\ Tail(<<a, b>>) = <<b>>
         /\ Head(<<a, b, c>>) = a /\ Tail(<<a, b, c>>) = <<b, c>>
<1>1. Head(<<a>>) = a /\ Tail(<<a>>) = <<>>
  OBVIOUS
<1>2. Head(<<a, b>>) = a
  OBVIOUS
<1>3. Tail(<<a, b>>) = <<b>>
  OBVIOUS
<1>4. Head(<<a, b, c>>) = a
  OBVIOUS
<1>5. Tail(<<a, b, c>>) = <<b, c>>
  OBVIOUS
<1>6. QED
  BY <1>1, <1>2, <1>3, <1>4, <1>5
LEMMA NextTelling ==
  ASSUME NEW h, NEW j, Telling(h, j), h # <<>>
  PROVE  /\ Head(h) \in {"not found", "reject", "disconnected there", "disabled", "disconnected here", "wrong key",
                         "connected", "timed out"}
         /\ Head(h) \in {"not found", "reject", "disabled", "wrong key", "connected"} => Tail(h) = <<>>
         /\ Head(h) = "disconnected there" => Tail(h) = <<"disabled">> \/ (Tail(h) = <<"wrong key">> /\ ~j.good)
         /\ Head(h) = "disconnected here" => Tail(h) = <<"wrong key">>
         /\ Head(h) = "timed out" => Tail(h) = <<"disconnected here", "wrong key">> /\ ~j.good
         /\ Head(h) = "wrong key" => (j.good => j.interrupted)
         /\ Head(h) = "connected" => j.good
<1>1. CASE h = <<"not found">>
  <2>1. Head(h) = "not found" /\ Tail(h) = <<>>
    BY <1>1, Tuples
  <2>2. QED
    BY <1>1, <2>1
<1>2. CASE h = <<"reject">>
  <2>1. Head(h) = "reject" /\ Tail(h) = <<>>
    BY <1>2, Tuples
  <2>2. QED
    BY <1>2, <2>1
<1>3. CASE h = <<"disabled">>
  <2>1. Head(h) = "disabled" /\ Tail(h) = <<>>
    BY <1>3, Tuples
  <2>2. QED
    BY <1>3, <2>1
<1>4. CASE h = <<"disconnected there", "disabled">>
  <2>1. Head(h) = "disconnected there" /\ Tail(h) = <<"disabled">>
    BY <1>4, Tuples
  <2>2. QED
    BY <1>4, <2>1
<1>5. CASE h = <<"disconnected here", "wrong key">>
  <2>1. Head(h) = "disconnected here" /\ Tail(h) = <<"wrong key">>
    BY <1>5, Tuples
  <2>2. QED
    BY <1>5, <2>1
<1>6. CASE h = <<"wrong key">> /\ (j.good => j.interrupted)
  <2>1. Head(h) = "wrong key" /\ Tail(h) = <<>>
    BY <1>6, Tuples
  <2>2. QED
    BY <1>6, <2>1
<1>7. CASE h = <<"connected">> /\ j.good
  <2>1. Head(h) = "connected" /\ Tail(h) = <<>>
    BY <1>7, Tuples
  <2>2. QED
    BY <1>7, <2>1
<1>8. CASE h = <<"timed out", "disconnected here", "wrong key">> /\ ~j.good
  <2>1. Head(h) = "timed out" /\ Tail(h) = <<"disconnected here", "wrong key">>
    <3>1. PICK a, b, c : a = "timed out" /\ b = "disconnected here" /\ c = "wrong key"
      OBVIOUS
    <3>2. h = <<a, b, c>>
      BY <1>8, <3>1
    <3>3. Head(h) = a /\ Tail(h) = <<b, c>>
      BY <3>2, Tuples
    <3>4. QED
      BY <3>1, <3>3
  <2>2. QED
    BY <1>8, <2>1
<1>9. CASE h = <<"disconnected there", "wrong key">> /\ ~j.good
  <2>1. Head(h) = "disconnected there" /\ Tail(h) = <<"wrong key">>
    BY <1>9, Tuples
  <2>2. QED
    BY <1>9, <2>1
<1>10. QED
  BY <1>1, <1>2, <1>3, <1>4, <1>5, <1>6, <1>7, <1>8, <1>9 DEF Telling
LEMMA HearsRight ==
  ASSUME NEW j \in Joins, Checking(j), NEW h, h # <<>>, Telling(h, j)
  PROVE  Heard(j, Hears(j, Head(h)), h)
<1> DEFINE e == Head(h)
<1> DEFINE k == Hears(j, e)
<1>0. j.outcome = "checking" /\ ~j.cleaned /\ (j.good => ~j.timedOut)
  BY DEF Checking
<1>f. PICK f \in Nat : f = j.failures + 1
  BY DEF Joins
<1>a. PICK a \in Nat : a = j.absent + 1
  BY DEF Joins
<1>x. PICK x \in Outcomes : x = IF j.failures = 1 THEN "failed" ELSE "checking"
  BY DEF Outcomes
<1>y. PICK y \in Outcomes : y = IF j.absent = 2 THEN "not found" ELSE "checking"
  BY DEF Outcomes
<1>g. PICK g \in BOOLEAN : g = FALSE
  OBVIOUS
<1>w. {"joined", "wrong password"} \subseteq Outcomes
  BY DEF Outcomes
<1>t. /\ e \in {"not found", "reject", "disconnected there", "disabled", "disconnected here", "wrong key",
                "connected", "timed out"}
      /\ e \in {"not found", "reject", "disabled", "wrong key", "connected"} => Tail(h) = <<>>
      /\ e = "disconnected there" => Tail(h) = <<"disabled">> \/ (Tail(h) = <<"wrong key">> /\ ~j.good)
      /\ e = "disconnected here" => Tail(h) = <<"wrong key">>
      /\ e = "timed out" => Tail(h) = <<"disconnected here", "wrong key">> /\ ~j.good
      /\ e = "wrong key" => (j.good => j.interrupted)
      /\ e = "connected" => j.good
  BY NextTelling
<1> HIDE DEF e
<1>h. k = Hears(j, Head(h))
  BY DEF e
<1>1. CASE e = "connected"
  <2>1. k = [j EXCEPT !.outcome = "joined"]
    BY <1>0, <1>1 DEF Hears
  <2> HIDE DEF k
  <2>2. k \in Joins /\ Same(k, j) /\ k.restarting = j.restarting /\ k.outcome = "joined" /\ k.good = j.good
    BY <1>w, <2>1 DEF Joins, Same
  <2>3. QED
    BY <1>1, <1>h, <1>t, <2>2 DEF Heard
<1>2. CASE e = "timed out"
  <2>1. k = [j EXCEPT !.timedOut = TRUE]
    BY <1>0, <1>2 DEF Hears
  <2> HIDE DEF k
  <2>2. k \in Joins /\ Same(k, j) /\ k.restarting = j.restarting /\ k.outcome = "checking" /\ k.good = j.good /\ ~k.cleaned
    BY <1>0, <2>1 DEF Joins, Same
  <2>3. Checking(k) /\ Telling(Tail(h), k)
    BY <1>2, <1>t, <2>2 DEF Checking, Telling
  <2>4. QED
    BY <1>h, <2>2, <2>3 DEF Heard
<1>3. CASE e = "disconnected here"
  <2>1. k = [j EXCEPT !.interrupted = ~j.timedOut, !.timedOut = g]
    BY <1>0, <1>3, <1>g DEF Hears
  <2> HIDE DEF k
  <2>2. k \in Joins /\ Same(k, j) /\ k.restarting = j.restarting /\ k.outcome = "checking" /\ k.good = j.good /\ ~k.cleaned
    BY <1>0, <2>1 DEF Joins, Same
  <2>3. ~k.timedOut /\ (k.interrupted <=> ~j.timedOut)
    BY <1>g, <2>1 DEF Joins
  <2>4. Checking(k) /\ Telling(Tail(h), k)
    BY <1>0, <1>3, <1>t, <2>2, <2>3 DEF Checking, Telling
  <2>5. QED
    BY <1>h, <2>2, <2>4 DEF Heard
<1>4. CASE e = "disconnected there"
  <2>1. k = [j EXCEPT !.interrupted = g, !.timedOut = g]
    BY <1>0, <1>4, <1>g DEF Hears
  <2> HIDE DEF k
  <2>2. k \in Joins /\ Same(k, j) /\ k.restarting = j.restarting /\ k.outcome = "checking" /\ k.good = j.good /\ ~k.cleaned
    BY <1>0, <2>1 DEF Joins, Same
  <2>3. ~k.timedOut
    BY <1>g, <2>1 DEF Joins
  <2>4. Checking(k) /\ Telling(Tail(h), k)
    BY <1>4, <1>t, <2>2, <2>3 DEF Checking, Telling
  <2>5. QED
    BY <1>h, <2>2, <2>4 DEF Heard
<1>5. CASE e = "wrong key" /\ j.interrupted
  <2>1. k = [j EXCEPT !.interrupted = g]
    BY <1>0, <1>5, <1>g DEF Hears
  <2> HIDE DEF k
  <2>2. k \in Joins /\ Same(k, j) /\ k.restarting = j.restarting /\ k.outcome = "checking" /\ k.good = j.good /\ ~k.cleaned
    BY <1>0, <2>1 DEF Joins, Same
  <2>3. k.timedOut = j.timedOut
    BY <2>1 DEF Joins
  <2>4. Checking(k) /\ Telling(Tail(h), k)
    BY <1>0, <1>5, <1>t, <2>2, <2>3 DEF Checking, Telling
  <2>5. QED
    BY <1>h, <2>2, <2>4 DEF Heard
<1>6. CASE e = "wrong key" /\ ~j.interrupted
  <2>1. k = [j EXCEPT !.outcome = "wrong password"]
    BY <1>0, <1>6 DEF Hears
  <2> HIDE DEF k
  <2>2. k \in Joins /\ Same(k, j) /\ k.restarting = j.restarting /\ k.outcome = "wrong password" /\ k.good = j.good
    BY <1>w, <2>1 DEF Joins, Same
  <2>3. QED
    BY <1>6, <1>h, <1>t, <2>2 DEF Heard
<1>7. CASE e = "disabled"
  <2>1. k = [j EXCEPT !.interrupted = g, !.failures = f, !.outcome = x]
    BY <1>0, <1>7, <1>g, <1>f, <1>x DEF Hears
  <2>x. x \in {"failed", "checking"}
    BY <1>x
  <2> HIDE DEF k
  <2>2. k \in Joins /\ Same(k, j) /\ k.restarting = j.restarting /\ k.outcome = x /\ k.good = j.good /\ ~k.cleaned
    BY <1>0, <2>1 DEF Joins, Same
  <2>3. k.timedOut = j.timedOut
    BY <2>1 DEF Joins
  <2>4. k.outcome = "checking" => Checking(k) /\ Telling(Tail(h), k)
    BY <1>0, <1>7, <1>t, <2>2, <2>3 DEF Checking, Telling
  <2>5. QED
    BY <1>h, <2>x, <2>2, <2>4 DEF Heard
<1>8. CASE e = "reject"
  <2>1. k = [j EXCEPT !.failures = f, !.outcome = x]
    BY <1>0, <1>8, <1>f, <1>x DEF Hears
  <2>x. x \in {"failed", "checking"}
    BY <1>x
  <2> HIDE DEF k
  <2>2. k \in Joins /\ Same(k, j) /\ k.restarting = j.restarting /\ k.outcome = x /\ k.good = j.good /\ ~k.cleaned
    BY <1>0, <2>1 DEF Joins, Same
  <2>3. k.timedOut = j.timedOut
    BY <2>1 DEF Joins
  <2>4. k.outcome = "checking" => Checking(k) /\ Telling(Tail(h), k)
    BY <1>0, <1>8, <1>t, <2>2, <2>3 DEF Checking, Telling
  <2>5. QED
    BY <1>h, <2>x, <2>2, <2>4 DEF Heard
<1>9. CASE e = "not found"
  <2>1. k = [j EXCEPT !.absent = a, !.outcome = y]
    BY <1>0, <1>9, <1>a, <1>y DEF Hears
  <2>y. y \in {"not found", "checking"}
    BY <1>y
  <2> HIDE DEF k
  <2>2. k \in Joins /\ Same(k, j) /\ k.restarting = j.restarting /\ k.outcome = y /\ k.good = j.good /\ ~k.cleaned
    BY <1>0, <2>1 DEF Joins, Same
  <2>3. k.timedOut = j.timedOut
    BY <2>1 DEF Joins
  <2>4. k.outcome = "checking" => Checking(k) /\ Telling(Tail(h), k)
    BY <1>0, <1>9, <1>t, <2>2, <2>3 DEF Checking, Telling
  <2>5. QED
    BY <1>h, <2>y, <2>2, <2>4 DEF Heard
<1>10. QED
  BY <1>t, <1>1, <1>2, <1>3, <1>4, <1>5, <1>6, <1>7, <1>8, <1>9

LEMMA JoinStepTyped ==
  ASSUME NetsInv, ChannelsTyped, NEW late \in BOOLEAN, JoinStep(late)
  PROVE  NetsInv'
<1> DEFINE j == IF late THEN OutOfTime(join) ELSE Hears(join, Head(heard))
<1>0. UnderTrial /\ join \in Joins /\ up /\ Checking(join) /\ Telling(heard, join) /\ Numbers(nets)
      /\ Tried(nets, join) /\ WorthHaving(networks)
  BY DEF JoinStep, NetsInv, WifiTyped, NetworksInv, JoinInv, UnderTrial
<1>s. SwitchesTyped /\ UNCHANGED <<preference, idleOff, attempts, untried, leftOff>>
  BY DEF NetsInv, WifiTyped, SwitchesTyped, JoinStep, idleVars, pastVars
<1>1. /\ j \in Joins /\ Same(j, join) /\ ~j.restarting
      /\ j.outcome = "checking" => ~late /\ Checking(j) /\ Telling(Tail(heard), j)
      /\ j.outcome = "joined" => j.good
  <2>1. CASE late
    <3>1. PICK o \in {"not found", "failed"} : j = [join EXCEPT !.outcome = o]
      BY <2>1 DEF OutOfTime
    <3>2. o \in Outcomes
      BY DEF Outcomes
    <3>3. j \in Joins /\ Same(j, join) /\ j.restarting = join.restarting /\ j.outcome = o
      BY <1>0, <3>1, <3>2 DEF Joins, Same
    <3> HIDE DEF j
    <3>4. QED
      BY <1>0, <3>3 DEF UnderTrial
  <2>2. CASE ~late
    <3>1. heard # <<>>
      BY <2>2 DEF JoinStep
    <3>2. Heard(join, j, heard)
      BY <1>0, <2>2, <3>1, HearsRight
    <3> HIDE DEF j
    <3>3. QED
      BY <1>0, <2>2, <3>2 DEF Heard, UnderTrial
  <2>3. QED
    BY <2>1, <2>2
<1>2. CASE j.outcome = "checking"
  <2>1. join' = j /\ heard' = Tail(heard) /\ UNCHANGED <<radio, up, networks, nets>>
    BY <1>2 DEF JoinStep, supplicantVars
  <2> HIDE DEF j
  <2>2. j # NoJoin
    <3>1. j.attempt \in Nat \ {0} /\ NoJoin.attempt = 0
      BY <1>1 DEF Joins, NoJoin
    <3>2. QED
      BY <3>1
  <2>3. Begun(join') /\ up' /\ Telling(heard', join') /\ Numbers(nets') /\ WorthHaving(networks') /\ SwitchesTyped'
    BY <1>0, <1>1, <1>2, <1>s, <2>1, <2>2 DEF Begun, SwitchesTyped
  <2>4. Tried(nets', join')
    BY <1>0, <1>1, <2>1 DEF Tried, Same
  <2>5. QED
    BY <1>s, <2>3, <2>4, UnderTrialNext
<1>3. CASE j.outcome # "checking" /\ j.outcome = "not found" /\ j.retry /\ up
  <2>1. RestartsWifi(j) /\ heard' = <<>>
    BY <1>3 DEF JoinStep
  <2>2. nets' = {} /\ ~up' /\ radio' = TRUE /\ networks' = networks /\ UNCHANGED <<preference, idleOff, attempts>>
    BY <2>1, <1>s DEF RestartsWifi
  <2>3. join' = [j EXCEPT !.restarting = TRUE, !.cleaned = TRUE, !.outcome = "checking"]
    BY <2>1 DEF RestartsWifi
  <2>4. up' = FALSE
    BY <2>1 DEF RestartsWifi
  <2> HIDE DEF j
  <2>5. join' \in Joins /\ join'.restarting /\ join'.cleaned
    <3>1. "checking" \in Outcomes
      BY DEF Outcomes
    <3>2. QED
      BY <1>1, <2>3, <3>1 DEF Joins
  <2>6. SwitchesTyped'
    BY <1>s, <2>2, <2>4 DEF SwitchesTyped
  <2>7. QED
    BY <1>0, <1>s, <2>1, <2>2, <2>5, <2>6, NothingWorth, NoTrialNext
<1>4. CASE j.outcome # "checking" /\ ~(j.outcome = "not found" /\ j.retry /\ up)
  <2>1. JoinEnds(j, j.outcome) /\ heard' = <<>> /\ UNCHANGED <<radio, up>>
    BY <1>4 DEF JoinStep
  <2>2. FinishJoin(j, j.outcome = "joined") /\ join' = NoJoin
    BY <2>1 DEF JoinEnds
  <2> HIDE DEF j
  <2>3. WorthHaving(nets') /\ WorthHaving(networks') /\ (~up => nets' = {})
    <3>1. PICK joined \in BOOLEAN : joined = (j.outcome = "joined")
      OBVIOUS
    <3>2. joined => UnderTrial /\ j.good
      BY <1>0, <1>1, <3>1
    <3>3. FinishJoin(j, joined) /\ join # NoJoin /\ Same(j, join)
      BY <1>0, <1>1, <2>2, <3>1 DEF UnderTrial
    <3>4. QED
      BY <3>2, <3>3, FinishWorth
  <2>4. SwitchesTyped'
    BY <1>s, <2>1 DEF SwitchesTyped
  <2>5. QED
    BY <1>s, <2>1, <2>2, <2>3, <2>4, NoTrialNext
<1>5. QED
  BY <1>2, <1>3, <1>4

LEMMA RejoinTyped ==
  ASSUME NetsInv, Rejoin
  PROVE  NetsInv'
<1>0. /\ join \in Joins /\ ~UnderTrial /\ WorthHaving(nets) /\ WorthHaving(networks) /\ up /\ heard = <<>>
      /\ SwitchesTyped
  BY DEF Rejoin, NetsInv, WifiTyped, NetworksInv, JoinInv, UnderTrial, SwitchesTyped
<1>1. UNCHANGED <<radio, up, networks, heard, preference, idleOff, attempts, untried, leftOff>>
  BY DEF Rejoin, idleVars, pastVars
<1>2. join.attempt \in Nat \ {0} /\ join.ssid \in Name /\ join.good \in BOOLEAN /\ FALSE \in BOOLEAN
  BY <1>0 DEF Joins
<1>3. Begun(join') /\ Numbers(nets') /\ Tried(nets', join')
  <2>1. CASE JoinTyped(nets, join.attempt, join.ssid, join.good, FALSE)
    BY <1>0, <1>2, <2>1, TypedTried
  <2>2. CASE \E n \in nets : JoinSaved(nets, join.attempt, join.ssid, n.id, FALSE)
    BY <1>0, <1>2, <2>2, SavedTried
  <2>3. QED
    BY <2>1, <2>2 DEF Rejoin
<1>4. up' /\ Telling(heard', join') /\ WorthHaving(networks') /\ SwitchesTyped'
  BY <1>0, <1>1 DEF Telling, SwitchesTyped
<1>5. QED
  BY <1>1, <1>3, <1>4, UnderTrialNext

LEMMA RestartTimesOutTyped ==
  ASSUME NetsInv, RestartTimesOut
  PROVE  NetsInv'
<1>1. FinishJoin(join, FALSE) /\ join' = NoJoin /\ UNCHANGED <<radio, up, heard, preference, idleOff, attempts, untried, leftOff>>
  BY DEF RestartTimesOut, JoinEnds, idleVars, pastVars
<1>2. join \in Joins /\ join # NoJoin /\ heard = <<>> /\ SwitchesTyped
  BY DEF RestartTimesOut, NetsInv, WifiTyped, JoinInv, UnderTrial, SwitchesTyped
<1>3. Same(join, join)
  BY <1>2 DEF Same
<1>4. WorthHaving(nets') /\ WorthHaving(networks') /\ (~up => nets' = {})
  BY <1>1, <1>2, <1>3, FinishWorth
<1>5. QED
  BY <1>1, <1>2, <1>4, NoTrialNext DEF SwitchesTyped

(* The owner's commands. *)
LEMMA CommandTyped ==
  ASSUME ChannelsTyped, NEW op, Take(op)
  PROVE  /\ Head(commands).op = op /\ commands' \in Seq(WifiCommands)
         /\ op = "power" => Head(commands).on \in BOOLEAN
         /\ op = "connect" => Head(commands).ssid \in Name /\ Head(commands).good \in BOOLEAN
<1>1. Head(commands) \in WifiCommands /\ Tail(commands) \in Seq(WifiCommands)
  BY DEF ChannelsTyped, Take
<1>2. QED
  BY <1>1 DEF Take, WifiCommands

LEMMA DoPowerTyped ==
  ASSUME NetsInv, ChannelsTyped, DoPower
  PROVE  NetsInv'
<1>1. Take("power") /\ join' = NoJoin /\ heard' = <<>> /\ UNCHANGED <<networks, attempts, idleOff, untried, leftOff>>
      /\ preference' = Head(commands).on
  BY DEF DoPower, After
<1>2. Head(commands).on \in BOOLEAN
  BY <1>1, CommandTyped
<1>3. CASE Head(commands).on
  <2>1. radio' = TRUE /\ nets' = Ended(nets) /\ up' = up
    BY <1>3 DEF DoPower
  <2>2. WorthHaving(nets')
    BY <2>1, EndedWorth
  <2>3. ~up' => nets' = {}
    BY <2>1 DEF NetsInv, Ended
  <2>4. QED
    BY <1>1, <1>2, <2>1, <2>2, <2>3, NoTrialNext DEF NetsInv, WifiTyped, SwitchesTyped, NetworksInv
<1>4. CASE ~Head(commands).on
  <2>1. radio' = FALSE /\ nets' = {} /\ up' = FALSE
    BY <1>4 DEF DoPower, RadioOff
  <2>2. QED
    BY <1>1, <1>2, <2>1, NothingWorth, NoTrialNext DEF NetsInv, WifiTyped, SwitchesTyped, NetworksInv
<1>5. QED
  BY <1>3, <1>4

LEMMA DoConnectTyped ==
  ASSUME NetsInv, ChannelsTyped, DoConnect
  PROVE  NetsInv'
<1>1. Take("connect") /\ heard' = <<>> /\ UNCHANGED <<radio, up, networks, preference, idleOff, untried, leftOff>> /\ attempts' = attempts + 1
  BY DEF DoConnect, After
<1>2. Head(commands).ssid \in Name /\ Head(commands).good \in BOOLEAN /\ TRUE \in BOOLEAN
  BY <1>1, CommandTyped
<1>3. attempts' \in Nat \ {0} /\ WorthHaving(networks')
  BY <1>1 DEF NetsInv, WifiTyped, NetworksInv
<1>4. SwitchesTyped'
  BY <1>1, <1>3 DEF NetsInv, WifiTyped, SwitchesTyped
<1>5. CASE up
  <2>1. JoinTyped(Ended(nets), attempts', Head(commands).ssid, Head(commands).good, TRUE)
    BY <1>5 DEF DoConnect
  <2>2. PICK ns, attempt, ssid, good : ns = Ended(nets) /\ attempt = attempts' /\ ssid = Head(commands).ssid
                                       /\ good = Head(commands).good
    OBVIOUS
  <2>3. JoinTyped(ns, attempt, ssid, good, TRUE)
    BY <2>1, <2>2
  <2>4. Begun(join') /\ Numbers(nets') /\ Tried(nets', join')
    BY <1>2, <1>3, <2>2, <2>3, EndedWorth, TypedTried
  <2>5. QED
    BY <1>1, <1>3, <1>4, <1>5, <2>4, UnderTrialNext DEF Telling
<1>6. CASE ~up
  <2>1. join' = NoJoin /\ nets' = nets /\ nets = {}
    BY <1>6 DEF DoConnect, NetsInv
  <2>2. QED
    BY <1>1, <1>3, <1>4, <2>1, NothingWorth, NoTrialNext
<1>7. QED
  BY <1>5, <1>6

LEMMA DoSavedTyped ==
  ASSUME NetsInv, ChannelsTyped, DoSaved
  PROVE  NetsInv'
<1> DEFINE id == Head(commands).id
<1> DEFINE names == {n.ssid : n \in {m \in current.saved : m.id = id}}
<1> DEFINE ssid == IF names = {} THEN NoNet ELSE CHOOSE s \in names : TRUE
<1>1. heard' = <<>> /\ UNCHANGED <<radio, up, networks, preference, idleOff, untried, leftOff>> /\ attempts' = attempts + 1
  BY DEF DoSaved, After
<1>2. ssid \in Name
  <2>1. NoNet \in Name
    BY DEF NoNet, Name
  <2>2. current.saved \subseteq Listing
    BY DEF ChannelsTyped, Report
  <2>3. \A s \in names : s \in Name
    BY <2>2 DEF Listing
  <2> HIDE DEF names
  <2>4. QED
    BY <2>1, <2>3
<1>3. attempts' \in Nat \ {0} /\ WorthHaving(networks') /\ TRUE \in BOOLEAN
  BY <1>1 DEF NetsInv, WifiTyped, NetworksInv
<1>4. SwitchesTyped'
  BY <1>1, <1>3 DEF NetsInv, WifiTyped, SwitchesTyped
<1>5. CASE up /\ \E n \in Ended(nets) : n.id = id
  <2>1. JoinSaved(Ended(nets), attempts', ssid, id, TRUE)
    BY <1>5 DEF DoSaved
  <2> HIDE DEF id, ssid
  <2>2. PICK ns, attempt : ns = Ended(nets) /\ attempt = attempts'
    OBVIOUS
  <2>3. JoinSaved(ns, attempt, ssid, id, TRUE)
    BY <2>1, <2>2
  <2>4. Begun(join') /\ Numbers(nets') /\ Tried(nets', join')
    BY <1>2, <1>3, <2>2, <2>3, EndedWorth, SavedTried
  <2>5. QED
    BY <1>1, <1>3, <1>4, <1>5, <2>4, UnderTrialNext DEF Telling
<1>6. CASE ~(up /\ \E n \in Ended(nets) : n.id = id)
  <2>1. join' = NoJoin /\ nets' = Ended(nets)
    BY <1>6 DEF DoSaved
  <2>2. ~up' => nets' = {}
    BY <1>1, <2>1 DEF NetsInv, Ended
  <2>3. QED
    BY <1>1, <1>3, <1>4, <2>1, <2>2, EndedWorth, NoTrialNext
<1>7. QED
  BY <1>5, <1>6

LEMMA DoForgetTyped ==
  ASSUME NetsInv, DoForget
  PROVE  NetsInv'
<1>1. /\ nets' = Without(Ended(nets), Head(commands).id) /\ networks' = IF nets' # Ended(nets) THEN Saved(nets') ELSE networks
      /\ join' = NoJoin /\ heard' = <<>> /\ UNCHANGED <<radio, up, preference, idleOff, attempts, untried, leftOff>>
  BY DEF DoForget, After
<1>2. WorthHaving(Ended(nets))
  BY EndedWorth
<1>3. WorthHaving(nets')
  <2>1. nets' \in SUBSET Ended(nets)
    BY <1>1 DEF Without
  <2>2. QED
    BY <1>2, <2>1, SubsetNumbers DEF WorthHaving
<1>4. WorthHaving(networks')
  BY <1>1, <1>3, SavedNumbers DEF WorthHaving, NetsInv, NetworksInv
<1>5. ~up' => nets' = {}
  BY <1>1 DEF NetsInv, Ended, Without
<1>6. QED
  BY <1>1, <1>3, <1>4, <1>5, NoTrialNext DEF NetsInv, WifiTyped, SwitchesTyped

LEMMA TellsTyped ==
  ASSUME NetsInv, SupplicantTells
  PROVE  NetsInv'
<1>1. up /\ UnderTrial /\ UNCHANGED <<radio, up, networks, nets, join, preference, idleOff, attempts, untried, leftOff>>
  BY DEF SupplicantTells, supplicantVars, idleVars, threadVars, pastVars, UnderTrial
<1>2. PICK n \in nets : n.id = join.id /\ heard' \in Tellings(n.good)
  BY DEF SupplicantTells
<1>3. Tried(nets, join) /\ Numbers(nets) /\ join \in Joins /\ Checking(join)
  BY <1>1 DEF NetsInv, NetworksInv, WifiTyped, JoinInv, UnderTrial
<1>4. n.good = join.good
  BY <1>2, <1>3 DEF Tried
<1>5. heard' \in Tellings(join.good)
  BY <1>2, <1>4
<1>6. Telling(heard', join)
  BY <1>5 DEF Tellings, Telling
<1>7. UnderTrial'
  BY <1>1 DEF UnderTrial
<1>8. NetworksInv' /\ WifiTyped'
  BY <1>1, <1>7 DEF NetsInv, NetworksInv, WifiTyped, WorthHaving, Tried, Good, On, OneEach
<1>9. JoinInv'
  BY <1>1, <1>3, <1>6, <1>7 DEF JoinInv, UnderTrial
<1>10. QED
  BY <1>1, <1>8, <1>9 DEF NetsInv
LEMMA ComesUpTyped ==
  ASSUME NetsInv, SupplicantComesUp
  PROVE  NetsInv'
<1>1. ~up /\ up' = TRUE /\ nets' = networks /\ UNCHANGED <<radio, networks, heard, join, preference, idleOff, attempts, untried, leftOff>>
  BY DEF SupplicantComesUp, idleVars, threadVars, pastVars
<1>2. ~UnderTrial
  BY <1>1 DEF NetsInv, JoinInv
<1>3. /\ heard' = <<>> /\ WorthHaving(nets') /\ WorthHaving(networks')
      /\ join' = NoJoin \/ (join' \in Joins /\ join'.restarting /\ join'.cleaned)
  BY <1>1, <1>2 DEF NetsInv, WifiTyped, NetworksInv, JoinInv, UnderTrial
<1>4. SwitchesTyped'
  BY <1>1 DEF NetsInv, WifiTyped, SwitchesTyped
<1>5. QED
  BY <1>1, <1>3, <1>4, NoTrialNext
LEMMA IdleTickTyped ==
  ASSUME NetsInv, WifiIdleTick
  PROVE  NetsInv'
<1>1. join = NoJoin /\ nets' = {} /\ up' = FALSE /\ radio' = FALSE /\ idleOff' = TRUE
      /\ UNCHANGED <<networks, heard, join, preference, attempts, untried, leftOff>>
  BY DEF WifiIdleTick, RadioOff, threadVars, pastVars
<1>2. heard' = <<>> /\ WorthHaving(networks') /\ SwitchesTyped'
  BY <1>1 DEF NetsInv, WifiTyped, NetworksInv, JoinInv, UnderTrial, SwitchesTyped
<1>3. QED
  BY <1>1, <1>2, NothingWorth, NoTrialNext
LEMMA RestOfNetsTyped ==
  ASSUME NetsInv,
         DoScan \/ Refresh \/ PublishStatus \/ OpenMenu \/ OwnerAsks \/ ShowStatus \/ WifiIdleRestore \/ ControlSocketSwitches
  PROVE  NetsInv'
<1> USE DEF supplicantVars, idleVars, threadVars, uiVars, pastVars
<1>1. CASE DoScan
  BY <1>1, NetsFrame DEF DoScan, After, RadioOn, NetsInv, WifiTyped, SwitchesTyped
<1>2. CASE WifiIdleRestore
  BY <1>2, NetsFrame DEF WifiIdleRestore, RadioOn, NetsInv, WifiTyped, SwitchesTyped
<1>3. CASE Refresh \/ PublishStatus \/ OpenMenu \/ OwnerAsks \/ ShowStatus \/ ControlSocketSwitches
  <2>1. UNCHANGED <<radio, up, nets, networks, heard, join, preference, idleOff, attempts, untried, leftOff>>
    BY <1>3 DEF Refresh, PublishStatus, OpenMenu, OwnerAsks, AskWifi, ShowStatus, ControlSocketSwitches
  <2>2. QED
    BY <2>1, NetsFrame DEF NetsInv, WifiTyped, SwitchesTyped
<1>4. QED
  BY <1>1, <1>2, <1>3

(* The player ends and starts again: a join under trial is left as it is, with *)
(* its name among the untried and the others among those left off.             *)
LEMMA PlayerStartsTyped ==
  ASSUME NetsInv, PlayerStarts
  PROVE  NetsInv'
<1>1. /\ join' = NoJoin /\ heard' = <<>> /\ UNCHANGED <<radio, up, networks, nets, preference>>
      /\ idleOff' = FALSE /\ attempts' = 0
  BY DEF PlayerStarts, supplicantVars
<1>2. WifiTyped' /\ JoinInv'
  BY <1>1 DEF NetsInv, WifiTyped, JoinInv, UnderTrial
<1>3. CASE ~UnderTrial
  <2>1. UNCHANGED <<untried, leftOff>>
    BY <1>3 DEF PlayerStarts, NetsInv, JoinInv, UnderTrial
  <2>2. NetworksInv'
    BY <1>1, <1>3, <2>1 DEF NetsInv, NetworksInv, UnderTrial, WorthHaving, Good, On, OneEach
  <2>3. QED
    BY <1>1, <1>2, <2>2 DEF NetsInv
<1>4. CASE UnderTrial
  <2>1. /\ untried \subseteq untried' /\ (join.added => join.ssid \in untried')
        /\ leftOff \subseteq leftOff' /\ \A n \in nets : ~n.on => n.ssid \in leftOff'
    BY <1>4 DEF PlayerStarts, NetsInv, JoinInv, UnderTrial, Checking
  <2>2. Tried(nets, join) /\ Numbers(nets) /\ WorthHaving(networks)
    BY <1>4 DEF NetsInv, NetworksInv, WifiTyped
  <2>3. Good(nets)'
    BY <1>1, <2>1, <2>2 DEF Good, Tried, Without
  <2>4. On(nets)'
    BY <1>1, <2>1, <2>2 DEF On
  <2>5. OneEach(nets)'
    BY <1>1, <2>1, <2>2 DEF OneEach, Tried, Without
  <2>6. Good(networks)' /\ On(networks)' /\ OneEach(networks)'
    BY <1>1, <2>1, <2>2 DEF WorthHaving, Good, On, OneEach
  <2>7. WorthHaving(nets)' /\ WorthHaving(networks)' /\ ~UnderTrial'
    BY <1>1, <2>2, <2>3, <2>4, <2>5, <2>6 DEF WorthHaving, UnderTrial
  <2>8. QED
    BY <1>1, <1>2, <2>7 DEF NetsInv, NetworksInv
<1>5. QED
  BY <1>3, <1>4

(* The channels carry what they should. *)
LEMMA ListedTyped ==
  ASSUME NEW ns, Numbers(ns)
  PROVE  Listed(ns) \subseteq Listing
BY DEF Listed, Numbers, Network, Listing
LEMMA NoOutcomeTyped == NoOutcome \in Verdict
<1>1. NoNet \in Name /\ "none" \in Outcomes
  BY DEF Name, Outcomes
<1>2. QED
  BY <1>1 DEF NoOutcome, Verdict
LEMMA ToldTyped ==
  ASSUME NEW j \in Joins, NEW o \in Outcomes
  PROVE  Told(j, o) \in Verdict
BY DEF Told, Joins, Verdict
LEMMA ReportTyped ==
  ASSUME NEW ns, Numbers(ns), NEW v \in Verdict
  PROVE  [saved |-> Listed(ns), join |-> v] \in Report
<1>1. Listed(ns) \in SUBSET Listing
  BY ListedTyped
<1>2. QED
  BY <1>1 DEF Report

LEMMA ThreadTellsTyped ==
  ASSUME ThreadInv, NetsInv', WifiNext
  PROVE  current' \in Report
<1> USE DEF threadVars
<1>0. current \in Report /\ current.join \in Verdict /\ Numbers(nets) /\ Numbers(nets') /\ NoOutcome \in Verdict
      /\ "checking" \in Outcomes
  BY NoOutcomeTyped DEF ThreadInv, ChannelsTyped, NetsInv, WifiTyped, Report, Outcomes
<1>1. ASSUME NEW kept \in BOOLEAN, current' = Interrupted(kept)
      PROVE  current' \in Report
  <2>1. PICK v \in Verdict : v = IF join = NoJoin \/ kept THEN current.join ELSE NoOutcome
    BY <1>0
  <2>2. current' = [saved |-> Listed(nets'), join |-> v]
    BY <1>1, <2>1 DEF Interrupted
  <2>3. QED
    BY <1>0, <2>2, ReportTyped
<1>2. ASSUME join' # NoJoin, current' = [Interrupted(FALSE) EXCEPT !.join = Told(join', "checking")]
      PROVE  current' \in Report
  <2>1. join' \in Joins
    BY <1>2 DEF NetsInv, WifiTyped
  <2>2. PICK v \in Verdict : v = Told(join', "checking")
    BY <1>0, <2>1, ToldTyped
  <2>3. current' = [saved |-> Listed(nets'), join |-> v]
    BY <1>2, <2>2 DEF Interrupted
  <2>4. QED
    BY <1>0, <2>3, ReportTyped
<1>3. ASSUME NEW j \in Joins, NEW o \in Outcomes, JoinEnds(j, o)
      PROVE  current' \in Report
  <2>1. PICK v \in Verdict : v = Told(j, o)
    BY ToldTyped
  <2>2. current' = [saved |-> Listed(nets'), join |-> v]
    BY <1>3, <2>1 DEF JoinEnds
  <2>3. QED
    BY <1>0, <2>2, ReportTyped
<1>4. CASE \E late \in BOOLEAN : JoinStep(late)
  <2>1. PICK late \in BOOLEAN : JoinStep(late)
    BY <1>4
  <2> DEFINE j == IF late THEN OutOfTime(join) ELSE Hears(join, Head(heard))
  <2>2. \/ UNCHANGED current
        \/ RestartsWifi(j)
        \/ JoinEnds(j, j.outcome)
    BY <2>1 DEF JoinStep
  <2>3. UnderTrial /\ join \in Joins /\ Checking(join) /\ Telling(heard, join) /\ (late \/ heard # <<>>)
    BY <2>1 DEF JoinStep, ThreadInv, NetsInv, WifiTyped, JoinInv, UnderTrial
  <2>4. j \in Joins
    <3>1. CASE late
      <4>1. PICK o \in {"not found", "failed"} : OutOfTime(join) = [join EXCEPT !.outcome = o]
        BY DEF OutOfTime
      <4>2. o \in Outcomes
        BY DEF Outcomes
      <4>3. OutOfTime(join) \in Joins
        BY <2>3, <4>1, <4>2 DEF Joins
      <4>4. QED
        BY <3>1, <4>3
    <3>2. CASE ~late
      BY <2>3, <3>2, HearsRight DEF Heard
    <3>3. QED
      BY <3>1, <3>2
  <2>5. j.outcome \in Outcomes
    BY <2>4 DEF Joins
  <2> HIDE DEF j
  <2>6. QED
    BY <1>0, <1>3, <2>2, <2>4, <2>5 DEF RestartsWifi
<1>5. CASE RestartTimesOut
  <2>1. join \in Joins /\ JoinEnds(join, "not found") /\ "not found" \in Outcomes
    BY <1>5 DEF RestartTimesOut, ThreadInv, NetsInv, WifiTyped, Outcomes
  <2>2. QED
    BY <1>3, <2>1
<1>6. CASE DoPower \/ DoScan \/ DoForget
  BY <1>1, <1>6 DEF DoPower, DoScan, DoForget
<1>7. CASE DoConnect
  <2>1. CASE up
    <3>1. current' = [Interrupted(FALSE) EXCEPT !.join = Told(join', "checking")]
      BY <1>7, <2>1 DEF DoConnect
    <3>2. join' # NoJoin
      <4>1. join' = Pending(attempts', Head(commands).ssid, Head(commands).good, FreeId(Ended(nets)), TRUE, TRUE)
        BY <1>7, <2>1 DEF DoConnect, JoinTyped
      <4>2. join'.attempt = attempts'
        BY <4>1 DEF Pending
      <4>3. NoJoin.attempt = 0
        BY DEF NoJoin
      <4>4. attempts' = attempts + 1 /\ attempts \in Nat
        BY <1>7 DEF DoConnect, ThreadInv, NetsInv, WifiTyped
      <4>5. QED
        BY <4>2, <4>3, <4>4
    <3>3. QED
      BY <1>2, <3>1, <3>2
  <2>2. CASE ~up
    BY <1>1, <1>7, <2>2 DEF DoConnect
  <2>3. QED
    BY <2>1, <2>2
<1>8. CASE DoSaved
  <2> DEFINE id == Head(commands).id
  <2> DEFINE names == {n.ssid : n \in {m \in current.saved : m.id = id}}
  <2> DEFINE ssid == IF names = {} THEN NoNet ELSE CHOOSE s \in names : TRUE
  <2>1. CASE up /\ \E n \in Ended(nets) : n.id = id
    <3>1. current' = [Interrupted(FALSE) EXCEPT !.join = Told(join', "checking")]
          /\ JoinSaved(Ended(nets), attempts', ssid, id, TRUE)
          /\ attempts' = attempts + 1 /\ attempts \in Nat
      BY <1>8, <2>1 DEF DoSaved, ThreadInv, NetsInv, WifiTyped
    <3> HIDE DEF id, ssid
    <3>2. join' # NoJoin
      <4>1. PICK n \in Ended(nets) : join' = Pending(attempts', ssid, n.good, id, FALSE, TRUE)
        BY <3>1 DEF JoinSaved
      <4>2. join'.attempt = attempts'
        BY <4>1 DEF Pending
      <4>3. NoJoin.attempt = 0
        BY DEF NoJoin
      <4>4. QED
        BY <3>1, <4>2, <4>3
    <3>3. QED
      BY <1>2, <3>1, <3>2
  <2>2. CASE ~(up /\ \E n \in Ended(nets) : n.id = id)
    BY <1>1, <1>8, <2>2 DEF DoSaved
  <2>3. QED
    BY <2>1, <2>2
<1>9. CASE Refresh
  <2>1. current' = [current EXCEPT !.saved = Listed(nets)] /\ Listed(nets) \in SUBSET Listing
    BY <1>0, <1>9, ListedTyped DEF Refresh
  <2>2. QED
    BY <1>0, <2>1 DEF Report
<1>10. CASE PlayerStarts
  <2>1. current' = [saved |-> Listed(nets), join |-> NoOutcome]
    BY <1>10 DEF PlayerStarts
  <2>2. QED
    BY <1>0, <2>1, ReportTyped
<1>11. CASE SupplicantComesUp \/ SupplicantTells \/ Rejoin \/ PublishStatus \/ OpenMenu \/ OwnerAsks \/ ShowStatus
            \/ WifiIdleTick \/ WifiIdleRestore \/ ControlSocketSwitches
  <2>1. UNCHANGED current
    BY <1>11 DEF SupplicantComesUp, SupplicantTells, Rejoin, PublishStatus, OpenMenu, OwnerAsks, ShowStatus, WifiIdleTick,
                 WifiIdleRestore, ControlSocketSwitches, AskWifi
  <2>2. QED
    BY <1>0, <2>1
<1>12. QED
  BY <1>4, <1>5, <1>6, <1>7, <1>8, <1>9, <1>10, <1>11 DEF WifiNext

LEMMA ChannelsNext ==
  ASSUME ThreadInv, NetsInv', WifiNext
  PROVE  ChannelsTyped'
<1> USE DEF uiVars
<1>0. ChannelsTyped /\ current' \in Report
  BY ThreadTellsTyped DEF ThreadInv
<1> USE DEF ChannelsTyped
<1>1. ASSUME NEW op, Take(op), UNCHANGED <<statuses, statusShown, menu>>
      PROVE  ChannelsTyped'
  BY <1>0, <1>1, CommandTyped
<1>2. CASE DoPower \/ DoScan \/ DoConnect \/ DoSaved \/ DoForget
  BY <1>1, <1>2 DEF DoPower, DoScan, DoConnect, DoSaved, DoForget, After
<1>m. NoMenu \in [id : Int, ssid : Name]
  BY DEF NoMenu, Name
<1>3. ASSUME NEW c \in WifiCommands, AskWifi(c)
      PROVE  ChannelsTyped'
  <2>1. UNCHANGED <<statuses, statusShown>> /\ menu' = NoMenu /\ commands' = Append(commands, c)
    BY <1>3 DEF AskWifi
  <2>2. QED
    BY <1>0, <1>m, <2>1
<1>4. CASE OwnerAsks \/ ControlSocketSwitches
  <2>1. \A on \in BOOLEAN : [op |-> "power", on |-> on] \in WifiCommands
    BY DEF WifiCommands
  <2>2. [op |-> "scan"] \in WifiCommands
    BY DEF WifiCommands
  <2>3. \A s \in Ssids, good \in BOOLEAN : [op |-> "connect", ssid |-> s, good |-> good] \in WifiCommands
    BY DEF WifiCommands, Name
  <2>4. \A op \in {"saved", "forget"} : [op |-> op, id |-> menu.id, meant |-> menu.ssid] \in WifiCommands
    BY <1>0 DEF WifiCommands
  <2>5. \E c \in WifiCommands : AskWifi(c)
    BY <1>4, <2>1, <2>2, <2>3, <2>4 DEF OwnerAsks, ControlSocketSwitches
  <2>6. QED
    BY <1>3, <2>5
<1>5. CASE OpenMenu
  <2>1. menu' \in statusShown /\ UNCHANGED <<statuses, statusShown, commands>>
    BY <1>5 DEF OpenMenu
  <2>2. menu' \in [id : Int, ssid : Name]
    BY <1>0, <2>1 DEF Listing
  <2>3. QED
    BY <1>0, <2>1, <2>2
<1>6. CASE ShowStatus
  <2>1. statuses # <<>> /\ statusShown' = Head(statuses).saved /\ statuses' = Tail(statuses) /\ UNCHANGED <<menu, commands>>
    BY <1>6 DEF ShowStatus
  <2>2. Head(statuses) \in Report /\ statuses' \in Seq(Report)
    BY <1>0, <2>1
  <2>3. statusShown' \subseteq Listing
    BY <2>1, <2>2 DEF Report
  <2>4. QED
    BY <1>0, <2>1, <2>2, <2>3
<1>7. CASE PublishStatus
  BY <1>0, <1>7 DEF PublishStatus, ThreadInv
<1>8. CASE PlayerStarts
  <2>1. commands' = <<>> /\ statuses' = <<>> /\ statusShown' = current'.saved /\ menu' = NoMenu
    BY <1>8 DEF PlayerStarts
  <2>2. statusShown' \subseteq Listing
    BY <1>0, <2>1 DEF Report
  <2>3. QED
    BY <1>0, <1>m, <2>1, <2>2
<1>9. CASE SupplicantComesUp \/ SupplicantTells \/ Rejoin \/ RestartTimesOut \/ Refresh \/ WifiIdleTick \/ WifiIdleRestore
           \/ \E late \in BOOLEAN : JoinStep(late)
  <2>1. UNCHANGED <<statuses, statusShown, commands, menu>>
    BY <1>9 DEF SupplicantComesUp, SupplicantTells, Rejoin, RestartTimesOut, Refresh, WifiIdleTick, WifiIdleRestore, JoinStep
  <2>2. QED
    BY <1>0, <2>1
<1>10. QED
  BY <1>2, <1>4, <1>5, <1>6, <1>7, <1>8, <1>9 DEF WifiNext

(* The radio. *)
LEMMA RadioNext ==
  ASSUME WifiInv, NetsInv', WifiNext
  PROVE  RadioInv'
<1> USE DEF supplicantVars, idleVars, threadVars, uiVars, pastVars
<1>0. RadioInv /\ (~up' => nets' = {}) /\ NetsInv
  BY DEF WifiInv, ThreadInv, NetsInv
<1> USE DEF RadioInv
<1>1. CASE \E late \in BOOLEAN : JoinStep(late)
  <2>1. PICK late \in BOOLEAN : JoinStep(late)
    BY <1>1
  <2>2. UNCHANGED <<preference, idleOff, missed>>
    BY <2>1 DEF JoinStep
  <2>3. (radio' = radio /\ up' = up) \/ (radio' = TRUE /\ up' = FALSE /\ up)
    BY <2>1 DEF JoinStep, RestartsWifi, JoinEnds
  <2>4. QED
    BY <1>0, <2>2, <2>3 DEF NetsInv, WifiTyped
<1>2. CASE DoPower
  <2>1. Take("power") /\ preference' = Head(commands).on /\ idleOff' = idleOff
        /\ missed' = (idleOff /\ ~Head(commands).on)
        /\ IF Head(commands).on THEN radio' = TRUE /\ up' = up ELSE radio' = FALSE /\ up' = FALSE
    BY <1>2 DEF DoPower, RadioOff, After
  <2>2. PICK on \in BOOLEAN : on = Head(commands).on
    BY <2>1, CommandTyped DEF WifiInv, ThreadInv
  <2>3. CASE on
    BY <1>0, <2>1, <2>2, <2>3
  <2>4. CASE ~on
    BY <1>0, <2>1, <2>2, <2>4
  <2>5. QED
    BY <2>3, <2>4
<1>3. CASE DoScan
  BY <1>0, <1>3 DEF DoScan, RadioOn
<1>4. CASE DoConnect \/ DoSaved \/ DoForget
  <2>1. UNCHANGED <<radio, up, preference, idleOff, missed>>
    BY <1>4 DEF DoConnect, DoSaved, DoForget, After
  <2>2. QED
    BY <1>0, <2>1
<1>5. CASE WifiIdleTick
  BY <1>0, <1>5 DEF WifiIdleTick, RadioOff
<1>6. CASE WifiIdleRestore
  BY <1>0, <1>6 DEF WifiIdleRestore, RadioOn
<1>7. CASE SupplicantComesUp
  BY <1>0, <1>7 DEF SupplicantComesUp
<1>8. CASE PlayerStarts
  <2>1. UNCHANGED <<radio, up, preference>> /\ ~idleOff' /\ missed' = (missed \/ idleOff)
    BY <1>8 DEF PlayerStarts
  <2>2. QED
    BY <1>0, <2>1
<1>9. CASE \/ RestartTimesOut \/ Rejoin \/ OwnerAsks \/ ControlSocketSwitches
           \/ SupplicantTells \/ Refresh \/ PublishStatus \/ OpenMenu \/ ShowStatus
  <2>1. UNCHANGED <<radio, up, preference, idleOff, missed>>
    BY <1>9 DEF RestartTimesOut, Rejoin, OwnerAsks, ControlSocketSwitches, AskWifi, SupplicantTells, Refresh, PublishStatus,
                OpenMenu, ShowStatus
  <2>2. QED
    BY <1>0, <2>1
<1>10. QED
  BY <1>1, <1>2, <1>3, <1>4, <1>5, <1>6, <1>7, <1>8, <1>9 DEF WifiNext

LEMMA WifiStart ==
  ASSUME WifiAssumption, WifiInit
  PROVE  WifiInv
<1> DEFINE w(i) == Block(i - 1, Saved0[i], TRUE, TRUE)
<1>1. networks = {w(i) : i \in DOMAIN Saved0} /\ nets = networks
  BY DEF WifiInit
<1>2. DOMAIN Saved0 = 1..Len(Saved0) /\ Len(Saved0) \in Nat
  BY DEF WifiAssumption
<1>3. ASSUME NEW i \in DOMAIN Saved0
      PROVE  w(i) \in Network /\ w(i).id = i - 1 /\ w(i).ssid = Saved0[i] /\ w(i).good /\ w(i).on
             /\ i - 1 \in Nat /\ i - 1 < Len(Saved0)
  <2>1. i - 1 \in Nat /\ i - 1 < Len(Saved0) /\ Saved0[i] \in Name
    BY <1>2 DEF Name
  <2>2. QED
    BY <2>1 DEF Block, Network
<1> HIDE DEF w
<1>4. \A n \in networks : \E i \in DOMAIN Saved0 : n = w(i)
  BY <1>1
<1>5. networks \subseteq Network /\ \A n \in networks : n.id < Len(Saved0)
  BY <1>3, <1>4
<1>6. \A m, n \in networks : m.id = n.id => m = n
  BY <1>2, <1>3, <1>4
<1>7. OneEach(networks)
  BY <1>3, <1>4 DEF OneEach, WifiAssumption
<1>8. Good(networks) /\ On(networks)
  BY <1>3, <1>4 DEF Good, On
<1>9. WorthHaving(networks) /\ WorthHaving(nets)
  BY <1>1, <1>2, <1>5, <1>6, <1>7, <1>8 DEF WorthHaving, Numbers
<1>10. NetsInv
  BY <1>9 DEF WifiInit, NetsInv, WifiTyped, NetworksInv, JoinInv, UnderTrial, WorthHaving
<1>11. ChannelsTyped
  <2>1. current \in Report /\ NoMenu \in [id : Int, ssid : Name]
    BY <1>9, NoOutcomeTyped, ReportTyped DEF WifiInit, WorthHaving, NoMenu, Name
  <2>2. statusShown \subseteq Listing
    BY <2>1 DEF WifiInit, Report
  <2>3. <<>> \in Seq(Report) /\ <<>> \in Seq(WifiCommands)
    OBVIOUS
  <2>4. commands = <<>> /\ statuses = <<>> /\ menu = NoMenu
    BY DEF WifiInit
  <2>5. QED
    BY <2>1, <2>2, <2>3, <2>4 DEF ChannelsTyped
<1>12. RadioInv
  BY DEF WifiInit, RadioInv
<1>13. QED
  BY <1>10, <1>11, <1>12 DEF WifiInv, ThreadInv
LEMMA WifiStutters ==
  ASSUME ThreadInv, UNCHANGED wifiVars
  PROVE  ThreadInv' /\ (RadioInv => RadioInv')
BY DEF wifiVars, supplicantVars, idleVars, threadVars, uiVars, ThreadInv, NetsInv, WifiTyped, NetworksInv, JoinInv,
       UnderTrial, ChannelsTyped, RadioInv, pastVars, WorthHaving, Tried, Good, On, OneEach
LEMMA ThreadSteps ==
  ASSUME ThreadInv, WifiNext
  PROVE  ThreadInv'
<1>1. NetsInv'
  BY JoinStepTyped, RejoinTyped, RestartTimesOutTyped, DoPowerTyped, DoConnectTyped, DoSavedTyped, DoForgetTyped, TellsTyped,
     ComesUpTyped, IdleTickTyped, RestOfNetsTyped, PlayerStartsTyped DEF WifiNext, ThreadInv
<1>2. QED
  BY <1>1, ChannelsNext DEF ThreadInv

(* A join is tried before it is saved, and none is saved disabled or twice      *)
(* (wifi.rs finish, #20): whatever interrupts a join, what the supplicant's     *)
(* file holds connected once, is enabled, and has its name for itself, however  *)
(* often the player ends and starts; but for the names of the networks an end   *)
(* of the player left in a join.                                                *)
THEOREM SavedNetworksHold ==
  ASSUME WifiAssumption
  PROVE  WifiSpec => []SavedNetworks
<1>1. WifiInit => ThreadInv
  BY WifiStart DEF WifiInv
<1>2. ThreadInv /\ [WifiNext]_wifiVars => ThreadInv'
  BY ThreadSteps, WifiStutters
<1>3. ThreadInv => SavedNetworks
  BY DEF ThreadInv, NetsInv, NetworksInv, WorthHaving, Good, On, OneEach, SavedNetworks, TriedBeforeSaved, SavedAreUsable
<1>4. QED
  BY <1>1, <1>2, <1>3, PTL DEF WifiSpec

(* No right password is called wrong because a handshake was cut short on this  *)
(* side (wifi.rs listen, F52), and awake, with every command done, the radio is *)
(* what the owner chose last; but for a choice made in the dark and an end of   *)
(* the player there.                                                            *)
THEOREM OwnerIsServedHolds ==
  ASSUME WifiAssumption
  PROVE  WifiSpec => []OwnerIsServed
<1>1. WifiInv => BlamesOnlyBadPasswords
  <2>1. SUFFICES ASSUME WifiInv, join # NoJoin, join.good, heard # <<>>
                 PROVE  Hears(join, Head(heard)).outcome # "wrong password"
    BY DEF BlamesOnlyBadPasswords
  <2>2. UnderTrial /\ join \in Joins
    BY <2>1 DEF WifiInv, ThreadInv, NetsInv, WifiTyped, JoinInv
  <2>3. Checking(join) /\ Telling(heard, join)
    BY <2>1, <2>2 DEF WifiInv, ThreadInv, NetsInv, JoinInv
  <2>4. Heard(join, Hears(join, Head(heard)), heard)
    BY <2>1, <2>2, <2>3, HearsRight
  <2>5. QED
    BY <2>1, <2>4 DEF Heard, Same
<1>2. WifiInv => ChoiceHolds
  BY DEF WifiInv, RadioInv, ChoiceHolds
<1>3. WifiInv => OwnerIsServed
  BY <1>1, <1>2 DEF OwnerIsServed
<1>4. WifiInit => WifiInv
  BY WifiStart
<1>5. WifiInv /\ [WifiNext]_wifiVars => WifiInv'
  <2>1. ASSUME WifiInv, WifiNext
        PROVE  WifiInv'
    <3>1. ThreadInv'
      BY <2>1, ThreadSteps DEF WifiInv
    <3>2. QED
      BY <2>1, <3>1, RadioNext DEF WifiInv, ThreadInv
  <2>2. QED
    BY <2>1, WifiStutters DEF WifiInv
<1>6. QED
  BY <1>3, <1>4, <1>5, PTL DEF WifiSpec

-----------------------------------------------------------------------------
(* Playlists. *)

(* A file that is being renamed is apart, under both names, until it is read *)
(* again: whatever was put in its old place meanwhile is not on the screen.  *)
IsSequence(s) == \E S : s \in Seq(S)
WorkTyped ==
  \/ work = AtRest
  \/ work = [kind |-> work.kind, job |-> work.job, second |-> work.second, target |-> work.target,
             read |-> work.read, made |-> work.made]
RenamedAreApart ==
  work # AtRest /\ work.kind = "Rename" /\ work.second => work.job.file \in apart /\ work.target \in apart
ListsInv == IsSequence(replies) /\ WorkTyped /\ RenamedAreApart /\ ScreenIsFiles

(* What will be on screen for one file. *)
Settles(f) ==
  /\ \A i \in DOMAIN replies : LastWord(i, f) => Agrees(Takes(<<>>, replies[i]), f)
  /\ (\A i \in DOMAIN replies : ~IsAbout(replies[i], f)) => Agrees(lists, f)

(* A step that leaves a file as it is. *)
SameFile(f) == /\ f \in DOMAIN disk' <=> f \in DOMAIN disk
               /\ f \in DOMAIN disk => disk'[f] = disk[f]

(* An answer is added: it has the last word of what it is about. *)
LEMMA AnswerAdded ==
  ASSUME IsSequence(replies), NEW r, replies' = Append(replies, r), UNCHANGED lists, NEW f
  PROVE  /\ IsSequence(replies')
         /\ IsAbout(r, f) /\ Agrees(Takes(<<>>, r), f)' => Settles(f)'
         /\ ~IsAbout(r, f) /\ Settles(f) /\ SameFile(f) /\ UNCHANGED listed => Settles(f)'
<1>1. PICK S : replies \in Seq(S)
  BY DEF IsSequence
<1>2. replies \in Seq(S \cup {r}) /\ r \in S \cup {r}
  BY <1>1
<1>3. /\ replies' \in Seq(S \cup {r}) /\ Len(replies) \in Nat
      /\ DOMAIN replies = 1..Len(replies) /\ DOMAIN replies' = 1..(Len(replies) + 1)
      /\ replies'[Len(replies) + 1] = r
      /\ \A i \in DOMAIN replies : replies'[i] = replies[i]
  BY <1>2
<1> PICK last \in Nat : last = Len(replies) + 1
  BY <1>3
<1>4. /\ last \in DOMAIN replies' /\ last \notin DOMAIN replies
      /\ \A i \in DOMAIN replies : i \in DOMAIN replies' /\ last > i /\ ~(i > last)
      /\ \A i \in DOMAIN replies' : i # last => i \in DOMAIN replies
  BY <1>3
<1>5. ASSUME IsAbout(r, f), Agrees(Takes(<<>>, r), f)' PROVE Settles(f)'
  <2>1. \A i \in DOMAIN replies : ~LastWord(i, f)'
    BY <1>3, <1>4, <1>5 DEF LastWord
  <2>2. Agrees(Takes(<<>>, replies[last]), f)'
    BY <1>3, <1>5 DEF Agrees
  <2>3. ~\A i \in DOMAIN replies' : ~IsAbout(replies'[i], f)
    BY <1>3, <1>4, <1>5
  <2>4. QED
    BY <1>4, <2>1, <2>2, <2>3 DEF Settles
<1>6. ASSUME ~IsAbout(r, f), Settles(f), SameFile(f), UNCHANGED listed PROVE Settles(f)'
  <2>1. SameFile(f) /\ UNCHANGED listed
    BY <1>6
  <2>2. ~LastWord(last, f)'
    BY <1>3, <1>6 DEF LastWord
  <2>3. \A i \in DOMAIN replies : LastWord(i, f)' => LastWord(i, f)
    BY <1>3, <1>4 DEF LastWord
  <2>4. QED
    BY <1>3, <1>4, <1>6, <2>1, <2>2, <2>3 DEF Settles, Agrees, SameFile
<1>7. QED
  BY <1>3, <1>5, <1>6 DEF IsSequence

(* What an answer says of the file it is about does not hang on what was shown. *)
LEMMA TakesAll ==
  ASSUME NEW l, NEW r, NEW f
  PROVE  /\ IsAbout(r, f) => (Agrees(Takes(l, r), f) <=> Agrees(Takes(<<>>, r), f))
         /\ ~IsAbout(r, f) => (Agrees(Takes(l, r), f) <=> Agrees(l, f))
<1>1. CASE r.kind = "Listed"
  BY <1>1 DEF IsAbout, Takes
<1>2. CASE r.kind = "Saved"
  BY <1>2 DEF IsAbout, Takes, Agrees, WithFile
<1>3. CASE r.kind = "Renamed"
  BY <1>3 DEF IsAbout, Takes, Agrees, WithFile, WithoutFile, Restrict
<1>4. CASE r.kind = "Deleted"
  BY <1>4 DEF IsAbout, Takes, Agrees, WithoutFile, Restrict
<1>5. CASE r.kind \notin {"Listed", "Saved", "Renamed", "Deleted"}
  BY <1>5 DEF IsAbout, Takes
<1>6. QED
  BY <1>1, <1>2, <1>3, <1>4, <1>5

(* The first answer is taken. *)
LEMMA AnswerIsTaken ==
  ASSUME IsSequence(replies), replies # <<>>, replies' = Tail(replies), lists' = Takes(lists, Head(replies)),
         UNCHANGED <<disk, listed>>, NEW f, Settles(f)
  PROVE  IsSequence(replies') /\ Settles(f)'
<1>1. PICK S : replies \in Seq(S)
  BY DEF IsSequence
<1> DEFINE r == replies[1]
<1>2. /\ replies' \in Seq(S) /\ Len(replies) \in Nat \ {0} /\ DOMAIN replies = 1..Len(replies)
      /\ DOMAIN replies' = 1..(Len(replies) - 1) /\ Head(replies) = r
      /\ \A i \in DOMAIN replies' : replies'[i] = replies[i + 1]
  BY <1>1
<1>3. /\ 1 \in DOMAIN replies /\ \A i \in DOMAIN replies' : i + 1 \in DOMAIN replies /\ i + 1 > 1
      /\ \A i \in DOMAIN replies : i # 1 => i - 1 \in DOMAIN replies' /\ (i - 1) + 1 = i /\ i > 1
      /\ \A i, j \in DOMAIN replies' : j > i <=> j + 1 > i + 1
  BY <1>2
<1>5. ASSUME NEW i \in DOMAIN replies', LastWord(i, f)' PROVE Agrees(Takes(<<>>, replies[i]), f)'
  <2>1. \A j \in DOMAIN replies : j > i + 1 => ~IsAbout(replies[j], f)
    <3>1. SUFFICES ASSUME NEW j \in DOMAIN replies, j > i + 1 PROVE ~IsAbout(replies[j], f)
      OBVIOUS
    <3>2. j - 1 \in DOMAIN replies' /\ j - 1 > i /\ (j - 1) + 1 = j
      BY <1>2, <1>3, <3>1
    <3>3. QED
      BY <1>2, <1>5, <3>2 DEF LastWord
  <2>2. LastWord(i + 1, f)
    BY <1>2, <1>5, <2>1 DEF LastWord
  <2>3. Agrees(Takes(<<>>, replies[i + 1]), f)
    BY <1>3, <2>2 DEF Settles
  <2>4. QED
    BY <1>2, <2>3 DEF Agrees
<1>6. ASSUME \A i \in DOMAIN replies' : ~IsAbout(replies'[i], f) PROVE Agrees(lists, f)'
  <2>1. \A j \in DOMAIN replies : j > 1 => ~IsAbout(replies[j], f)
    BY <1>2, <1>3, <1>6
  <2>2. CASE IsAbout(r, f)
    <3>1. LastWord(1, f)
      BY <2>1, <2>2 DEF LastWord
    <3>2. QED
      <4>1. Agrees(Takes(lists, r), f)
        BY <1>3, <2>2, <3>1, TakesAll DEF Settles
      <4>2. QED
        BY <1>2, <4>1 DEF Agrees
  <2>3. CASE ~IsAbout(r, f)
    <3>1. \A j \in DOMAIN replies : ~IsAbout(replies[j], f)
      BY <1>3, <2>1, <2>3
    <3>2. QED
      <4>1. Agrees(Takes(lists, r), f)
        BY <2>3, <3>1, TakesAll DEF Settles
      <4>2. QED
        BY <1>2, <4>1 DEF Agrees
  <2>4. QED
    BY <2>2, <2>3
<1>7. QED
  BY <1>2, <1>5, <1>6 DEF IsSequence, Settles

LEMMA ScreenStays ==
  ASSUME ScreenIsFiles, UNCHANGED <<replies, lists, listed>>,
         \A f \in Files \ apart' : f \notin apart /\ SameFile(f)
  PROVE  ScreenIsFiles'
<1>1. ASSUME NEW f \in Files \ apart' PROVE Settles(f)'
  <2>1. Settles(f) /\ SameFile(f)
    BY <1>1 DEF ScreenIsFiles, Settles
  <2>2. QED
    BY <2>1 DEF Settles, Agrees, SameFile, LastWord
<1>2. QED
  BY <1>1 DEF ScreenIsFiles, Settles

LEMMA ScreenAnswered ==
  ASSUME ScreenIsFiles, IsSequence(replies), NEW r, replies' = Append(replies, r), UNCHANGED lists,
         \A f \in Files \ apart' :
           \/ IsAbout(r, f) /\ Agrees(Takes(<<>>, r), f)'
           \/ ~IsAbout(r, f) /\ f \notin apart /\ SameFile(f) /\ UNCHANGED listed
  PROVE  ScreenIsFiles' /\ IsSequence(replies')
<1>1. ASSUME NEW f \in Files \ apart' PROVE Settles(f)'
  <2>1. CASE IsAbout(r, f)
    BY <1>1, <2>1, AnswerAdded
  <2>2. CASE ~IsAbout(r, f)
    <3>1. Settles(f)
      BY <1>1, <2>2 DEF ScreenIsFiles, Settles
    <3>2. QED
      BY <1>1, <2>2, <3>1, AnswerAdded
  <2>3. QED
    BY <2>1, <2>2
<1>2. QED
  BY <1>1, AnswerAdded DEF ScreenIsFiles, Settles

(* The worker ends its job with an answer, or goes on to its second half. *)
LEMMA JobFails ==
  ASSUME ListsInv, Fails, UNCHANGED <<lists, listed>>
  PROVE  ListsInv'
<1> DEFINE r == [kind |-> "Failed"]
<1>1. /\ replies' = Append(replies, r) /\ work' = AtRest /\ UNCHANGED <<disk, apart>>
      /\ \A f : ~IsAbout(r, f)
  BY DEF Fails, Answer, IsAbout
<1> HIDE DEF r
<1>2. ScreenIsFiles' /\ IsSequence(replies')
  BY <1>1, ScreenAnswered DEF ListsInv, SameFile
<1>3. QED
  BY <1>1, <1>2 DEF ListsInv, WorkTyped, RenamedAreApart

(* A write that fails leaves the file as it was, or written and apart. *)
LEMMA FailsToWrite ==
  ASSUME ListsInv, NEW file, NEW songs, WriteFails(file, songs), UNCHANGED <<lists, listed>>
  PROVE  ListsInv'
<1> DEFINE r == [kind |-> "Failed"]
<1>1. replies' = Append(replies, r) /\ work' = AtRest /\ \A f : ~IsAbout(r, f)
  BY DEF WriteFails, Answer, IsAbout
<1> HIDE DEF r
<1>2. \/ UNCHANGED <<disk, apart>>
      \/ disk' = WithFile(disk, file, songs) /\ apart' = apart \cup {file}
  BY DEF WriteFails
<1>3. \A f \in Files \ apart' : f \notin apart /\ SameFile(f)
  <2>1. CASE UNCHANGED <<disk, apart>>
    BY <2>1 DEF SameFile
  <2>2. CASE disk' = WithFile(disk, file, songs) /\ apart' = apart \cup {file}
    BY <2>2 DEF SameFile, WithFile
  <2>3. QED
    BY <1>2, <2>1, <2>2
<1>4. ScreenIsFiles' /\ IsSequence(replies')
  BY <1>1, <1>3, ScreenAnswered DEF ListsInv
<1>5. QED
  BY <1>1, <1>4 DEF ListsInv, WorkTyped, RenamedAreApart

LEMMA Saves ==
  ASSUME ListsInv, NEW file, NEW songs, NEW created, SavedFile(file, songs, created), UNCHANGED <<lists, listed>>
  PROVE  ListsInv'
<1> DEFINE r == [kind |-> "Saved", file |-> file, songs |-> songs, created |-> created]
<1>1. /\ replies' = Append(replies, r) /\ work' = AtRest /\ apart' = apart \ {file}
      /\ disk' = WithFile(disk, file, songs) /\ \A f : IsAbout(r, f) <=> f = file
      /\ Takes(<<>>, r) = WithFile(<<>>, file, songs)
  BY DEF SavedFile, Answer, IsAbout, Takes
<1> HIDE DEF r
<1>2. \A f : f # file => SameFile(f)
  BY <1>1 DEF SameFile, WithFile
<1>3. Agrees(Takes(<<>>, r), file)'
  BY <1>1 DEF Agrees, WithFile
<1>4. ScreenIsFiles' /\ IsSequence(replies')
  BY <1>1, <1>2, <1>3, ScreenAnswered DEF ListsInv
<1>5. QED
  BY <1>1, <1>4 DEF ListsInv, WorkTyped, RenamedAreApart

LEMMA GoesOn ==
  ASSUME WorkTyped, work # AtRest, NEW file, NEW read, NEW made, Goes(file, read, made)
  PROVE  /\ WorkTyped' /\ work'.kind = work.kind /\ work'.job = work.job /\ work'.target = file
BY DEF WorkTyped, Goes

(* A file is made, empty, and the worker goes on: it is apart until it is written. *)
LEMMA MakesOne ==
  ASSUME ListsInv, work.kind # "idle", work.kind # "Rename", NEW file, NEW read, NEW made, NEW songs,
         disk' = WithFile(disk, file, songs), Goes(file, read, made), apart' = apart \cup {file},
         UNCHANGED <<replies, lists, listed>>
  PROVE  ListsInv'
<1>1. work # AtRest
  BY DEF AtRest
<1>2. WorkTyped' /\ work'.kind # "Rename"
  BY <1>1, GoesOn DEF ListsInv
<1>3. \A f \in Files \ apart' : f \notin apart /\ SameFile(f)
  BY DEF SameFile, WithFile
<1>4. ScreenIsFiles'
  BY <1>3, ScreenStays DEF ListsInv
<1>5. QED
  BY <1>2, <1>4 DEF ListsInv, RenamedAreApart

LEMMA FirstHalves ==
  ASSUME ListsInv, NEW ok, FirstHalf(ok)
  PROVE  ListsInv'
<1> DEFINE job == work.job
           f == job.file
           there == f \in DOMAIN disk
           Makes(file, read) == /\ disk' = WithFile(disk, file, <<>>) /\ Goes(file, read, TRUE)
                                /\ apart' = apart \cup {file} /\ UNCHANGED <<replies, known, strayed>>
<1>1. /\ work.kind \in {"Create", "Edit", "Rename", "Duplicate", "Delete"} /\ UNCHANGED <<lists, listed>>
      /\ work # AtRest
  BY DEF FirstHalf, Working, AtRest
<1>2. ASSUME NEW file, NEW read, Makes(file, read), work.kind # "Rename" PROVE ListsInv'
  BY <1>1, <1>2, MakesOne
<1>3. CASE work.kind = "Create"
  <2>1. Fails \/ WriteFails(f, <<>>) \/ SavedFile(f, <<>>, TRUE) \/ Makes(f, job.songs)
    BY <1>3 DEF FirstHalf
  <2>2. QED
    BY <1>1, <1>2, <1>3, <2>1, JobFails, FailsToWrite, Saves
<1>4. CASE work.kind = "Edit"
  <2>1. \/ Fails \/ Makes(f, <<>>) \/ WriteFails(f, <<>>)
        \/ Goes(f, disk[f], FALSE) /\ UNCHANGED <<disk, replies, apart>>
    BY <1>4 DEF FirstHalf
  <2>2. CASE Goes(f, disk[f], FALSE) /\ UNCHANGED <<disk, replies, apart>>
    <3>1. WorkTyped' /\ work'.kind # "Rename"
      BY <1>1, <1>4, <2>2, GoesOn DEF ListsInv
    <3>2. ScreenIsFiles'
      BY <1>1, <2>2, ScreenStays DEF ListsInv, SameFile
    <3>3. QED
      BY <2>2, <3>1, <3>2 DEF ListsInv, RenamedAreApart
  <2>3. QED
    BY <1>1, <1>2, <1>4, <2>1, <2>2, JobFails, FailsToWrite
<1>5. CASE work.kind = "Rename"
  <2>1. \/ Fails
        \/ /\ disk' = WithFile(WithoutFile(disk, f), job.to, disk[f]) /\ Goes(job.to, <<>>, FALSE)
           /\ apart' = apart \cup {f, job.to} /\ UNCHANGED replies
    BY <1>5 DEF FirstHalf
  <2>2. CASE /\ disk' = WithFile(WithoutFile(disk, f), job.to, disk[f]) /\ Goes(job.to, <<>>, FALSE)
             /\ apart' = apart \cup {f, job.to} /\ UNCHANGED replies
    <3>1. WorkTyped' /\ work'.job = job /\ work'.target = job.to
      BY <1>1, <2>2, GoesOn DEF ListsInv
    <3>2. \A g \in Files \ apart' : g \notin apart /\ SameFile(g)
      BY <2>2 DEF SameFile, WithFile, WithoutFile, Restrict
    <3>3. ScreenIsFiles'
      BY <1>1, <2>2, <3>2, ScreenStays DEF ListsInv
    <3>4. QED
      BY <2>2, <3>1, <3>3 DEF ListsInv, RenamedAreApart
  <2>3. QED
    BY <1>1, <2>1, <2>2, JobFails
<1>6. CASE work.kind = "Duplicate"
  <2>1. Fails \/ \E copy \in Files : Makes(copy, disk[f]) \/ WriteFails(copy, <<>>)
    BY <1>6 DEF FirstHalf
  <2>2. QED
    BY <1>1, <1>2, <1>6, <2>1, JobFails, FailsToWrite
<1>7. CASE work.kind = "Delete"
  <2>1. \/ Fails
        \/ /\ disk' = WithoutFile(disk, f) /\ apart' = apart \ {f} /\ Answer([kind |-> "Deleted", file |-> f])
    BY <1>7 DEF FirstHalf
  <2>2. CASE /\ disk' = WithoutFile(disk, f) /\ apart' = apart \ {f} /\ Answer([kind |-> "Deleted", file |-> f])
    <3>1. PICK r, file : r = [kind |-> "Deleted", file |-> file] /\ file = f
      OBVIOUS
    <3>2. /\ replies' = Append(replies, r) /\ work' = AtRest /\ \A g : IsAbout(r, g) <=> g = file
          /\ Takes(<<>>, r) = WithoutFile(<<>>, file)
      BY <2>2, <3>1 DEF Answer, IsAbout, Takes
    <3>3. \A g : g # file => SameFile(g)
      BY <2>2, <3>1 DEF SameFile, WithoutFile, Restrict
    <3>4. Agrees(Takes(<<>>, r), file)'
      BY <2>2, <3>1, <3>2 DEF Agrees, WithoutFile, Restrict
    <3>5. ScreenIsFiles' /\ IsSequence(replies')
      BY <1>1, <2>2, <3>1, <3>2, <3>3, <3>4, ScreenAnswered DEF ListsInv
    <3>6. QED
      BY <3>2, <3>5 DEF ListsInv, WorkTyped, RenamedAreApart
  <2>3. QED
    BY <1>1, <2>1, <2>2, JobFails
<1>8. QED
  BY <1>1, <1>3, <1>4, <1>5, <1>6, <1>7

LEMMA SecondHalves ==
  ASSUME ListsInv, NEW ok, SecondHalf(ok)
  PROVE  ListsInv'
<1>1. /\ work # AtRest /\ work.second /\ UNCHANGED <<lists, listed>>
  BY DEF SecondHalf, Working
<1>2. CASE work.kind = "Rename" /\ ok /\ work.target \in DOMAIN disk
  <2>1. PICK old, file, songs, r : /\ old = work.job.file /\ file = work.target /\ songs = disk[file]
                                   /\ r = [kind |-> "Renamed", old |-> old, file |-> file, songs |-> songs]
    OBVIOUS
  <2>2. /\ replies' = Append(replies, r) /\ work' = AtRest /\ UNCHANGED disk /\ file \in DOMAIN disk
        /\ apart' = apart \ ({file} \cup ({old} \ DOMAIN disk))
    BY <1>2, <2>1 DEF SecondHalf, Answer
  <2>3. /\ \A g : IsAbout(r, g) <=> g \in {old, file}
        /\ Takes(<<>>, r) = WithFile(WithoutFile(<<>>, old), file, songs)
    BY <2>1 DEF IsAbout, Takes
  <2>4. old \in apart
    BY <1>1, <1>2, <2>1 DEF ListsInv, RenamedAreApart
  <2>5. Agrees(Takes(<<>>, r), file)'
    BY <2>1, <2>2, <2>3 DEF Agrees, WithFile
  <2>6. old # file /\ old \notin apart' => Agrees(Takes(<<>>, r), old)'
    BY <2>2, <2>3, <2>4 DEF Agrees, WithFile, WithoutFile, Restrict
  <2>7. \A g : SameFile(g)
    BY <2>2 DEF SameFile
  <2>8. ScreenIsFiles' /\ IsSequence(replies')
    <3>1. ASSUME NEW g \in Files \ apart'
          PROVE  \/ IsAbout(r, g) /\ Agrees(Takes(<<>>, r), g)'
                 \/ ~IsAbout(r, g) /\ g \notin apart /\ SameFile(g) /\ UNCHANGED listed
      BY <1>1, <2>2, <2>3, <2>5, <2>6, <2>7, <3>1
    <3>2. QED
      BY <1>1, <2>2, <3>1, ScreenAnswered DEF ListsInv
  <2>9. QED
    BY <2>2, <2>8 DEF ListsInv, WorkTyped, RenamedAreApart
<1>3. CASE ~(work.kind = "Rename" /\ ok /\ work.target \in DOMAIN disk)
  <2>1. Fails \/ \E file, songs : WriteFails(file, songs) \/ \E created : SavedFile(file, songs, created)
    BY <1>3 DEF SecondHalf
  <2>2. QED
    BY <1>1, <2>1, JobFails, FailsToWrite, Saves
<1>4. QED
  BY <1>2, <1>3

(* The files are read: what is listed is what is there. *)
LEMMA ListsRead ==
  ASSUME ListsInv, ReadLists
  PROVE  ListsInv'
<1>1. PICK all, left, r :
        /\ r = [kind |-> "Listed", lists |-> Restrict(disk, (DOMAIN disk \cap (all \cup Folder)) \ left)]
        /\ replies' = Append(replies, r) /\ work' = AtRest /\ apart' = left
  BY DEF ReadLists, Answer
<1>2. /\ \A f : IsAbout(r, f)
      /\ Takes(<<>>, r) = Restrict(disk, (DOMAIN disk \cap (all \cup Folder)) \ left)
      /\ UNCHANGED <<disk, lists>>
  BY <1>1 DEF IsAbout, Takes, ReadLists, Working
<1>3. \A f \in Files \ apart' : Agrees(Takes(<<>>, r), f)'
  BY <1>1, <1>2 DEF Agrees, Restrict
<1>4. ScreenIsFiles' /\ IsSequence(replies')
  BY <1>1, <1>2, <1>3, ScreenAnswered DEF ListsInv
<1>5. QED
  BY <1>1, <1>4 DEF ListsInv, WorkTyped, RenamedAreApart

LEMMA ProcessBegins ==
  ASSUME Begins
  PROVE  ListsInv'
<1>1. /\ replies' = <<>> /\ lists' = <<>> /\ listed' = FALSE /\ work' = AtRest
  BY DEF Begins
<1>2. IsSequence(replies')
  BY <1>1 DEF IsSequence
<1>3. QED
  BY <1>1, <1>2 DEF ListsInv, WorkTyped, RenamedAreApart, ScreenIsFiles, Agrees

LEMMA ListsSteps ==
  ASSUME ListsInv, [ListsNext]_listsVars
  PROVE  ListsInv'
<1>0. WorkTyped /\ RenamedAreApart /\ ScreenIsFiles /\ IsSequence(replies)
  BY DEF ListsInv
<1>1. ASSUME UNCHANGED <<replies, lists, listed, disk, work, apart>> PROVE ListsInv'
  <2>1. ScreenIsFiles'
    BY <1>0, <1>1, ScreenStays DEF SameFile
  <2>2. QED
    BY <1>0, <1>1, <2>1 DEF ListsInv, WorkTyped, RenamedAreApart
<1>2. ASSUME TakeJob PROVE ListsInv'
  <2>1. UNCHANGED <<replies, lists, listed, disk, apart>>
    BY <1>2 DEF TakeJob, Working
  <2>2. WorkTyped' /\ (UNCHANGED work \/ ~work'.second)
    <3>1. CASE UNCHANGED work
      BY <1>0, <3>1 DEF WorkTyped
    <3>2. CASE ~UNCHANGED work
      BY <1>2, <3>2 DEF TakeJob, WorkTyped
    <3>3. QED
      BY <3>1, <3>2
  <2>3. ScreenIsFiles'
    BY <1>0, <2>1, ScreenStays DEF SameFile
  <2>4. QED
    BY <1>0, <2>1, <2>2, <2>3 DEF ListsInv, RenamedAreApart
<1>3. ASSUME ComputerWrites PROVE ListsInv'
  <2>1. PICK g : /\ apart' = apart \cup {g} /\ UNCHANGED <<replies, lists, listed, work>>
                 /\ disk' = WithoutFile(disk, g) \/ \E s \in Songs : disk' = WithFile(disk, g, <<s>>)
    BY <1>3 DEF ComputerWrites
  <2>2. \A f \in Files \ apart' : f \notin apart /\ SameFile(f)
    BY <2>1 DEF SameFile, WithFile, WithoutFile, Restrict
  <2>3. ScreenIsFiles'
    BY <1>0, <2>1, <2>2, ScreenStays
  <2>4. QED
    BY <1>0, <2>1, <2>3 DEF ListsInv, WorkTyped, RenamedAreApart
<1>4. ASSUME TakeAnswer PROVE ListsInv'
  <2>1. /\ replies # <<>> /\ replies' = Tail(replies) /\ lists' = Takes(lists, Head(replies))
        /\ UNCHANGED <<disk, listed, work, apart>>
    BY <1>4 DEF TakeAnswer
  <2>2. ASSUME NEW f \in Files \ apart' PROVE Settles(f)' /\ IsSequence(replies')
    <3>1. Settles(f)
      BY <1>0, <2>1, <2>2 DEF ScreenIsFiles, Settles
    <3>2. QED
      BY <1>0, <2>1, <3>1, AnswerIsTaken
  <2>3. ScreenIsFiles'
    BY <2>2 DEF ScreenIsFiles, Settles
  <2>4. IsSequence(replies')
    BY <1>0, <2>1 DEF IsSequence
  <2>5. QED
    BY <1>0, <2>1, <2>3, <2>4 DEF ListsInv, WorkTyped, RenamedAreApart
<1>5. ASSUME PowerCut \/ DropPanics PROVE ListsInv'
  BY <1>5, ProcessBegins DEF PowerCut, DropPanics
<1>6. ASSUME \/ ScanWalks \/ ScanEnds \/ OpenLists \/ OpenPage \/ LeavePage \/ OpenEntryMenu \/ CloseMenu \/ RemoveEntry
             \/ StartMove \/ Carry \/ PutBack \/ DropEntry
      PROVE  ListsInv'
  BY <1>1, <1>6 DEF ScanWalks, ScanEnds, OpenLists, OpenPage, LeavePage, OpenEntryMenu, CloseMenu, RemoveEntry, StartMove,
     Carry, PutBack, DropEntry, Screen
<1>7. ASSUME \/ \E s \in Songs : Heart(s) \/ \E f \in Files : AddTo(f, s) \/ NewPlaylist(f, <<s>>)
             \/ \E f \in Files : NewPlaylist(f, <<>>) \/ FromMenu(f)
      PROVE  ListsInv'
  BY <1>1, <1>7 DEF Heart, AddTo, NewPlaylist, FromMenu, Screen
<1>8. CASE ListsNext
  BY <1>2, <1>3, <1>4, <1>5, <1>6, <1>7, <1>8, FirstHalves, SecondHalves, ListsRead DEF ListsNext
<1>9. CASE UNCHANGED listsVars
  BY <1>1, <1>9 DEF listsVars
<1>10. QED
  BY <1>8, <1>9

(* ScreenIsFiles: once the answers on their way are taken, the lists on screen are the    *)
(* files (playlists.rs answers job by job, playlist_reply applies them in order): for any *)
(* files and songs, any edits, renames and copies, writes that fail and power cuts; save  *)
(* for files a computer changed or a failed job left since, and those that were not read. *)
THEOREM ScreensAreFiles == ListsSpec => []ScreenIsFiles
<1>1. ListsInit => ListsInv
  <2>1. SUFFICES ASSUME ListsInit PROVE ListsInv
    OBVIOUS
  <2>2. replies = <<>> /\ lists = <<>> /\ ~listed /\ work = AtRest
    BY <2>1 DEF ListsInit
  <2>3. IsSequence(replies)
    BY <2>2 DEF IsSequence
  <2>4. QED
    BY <2>2, <2>3 DEF ListsInv, WorkTyped, RenamedAreApart, ScreenIsFiles, Agrees
<1>2. ListsInv /\ [ListsNext]_listsVars => ListsInv'
  BY ListsSteps
<1>3. ListsInv => ScreenIsFiles
  BY DEF ListsInv
<1>4. QED
  BY <1>1, <1>2, <1>3, PTL DEF ListsSpec
=============================================================================
