--------------------------- MODULE PlatformTasks ---------------------------
(***************************************************************************)
(* The platform's operations (runtime/platform.rs, effects/platform.rs,    *)
(* effects/system.rs, idle.rs, sleep.rs, and the worker of client.rs): one *)
(* worker thread behind a channel of one task, the tasks the owner starts, *)
(* the periodic observation, the one-step update and the way to sleep.     *)
(*                                                                         *)
(* app is the main thread's state; the channels and the worker stand       *)
(* beside it.  Every branch of a task's result that changes no control     *)
(* state (what is flashed, what Latest Result shows) is left out.          *)
(***************************************************************************)
EXTENDS Naturals

CONSTANTS
  MaxAsks,     \* bound: what the owner starts
  Operations   \* the owner's tasks that only ask and answer

PlatformAssumption ==
  /\ MaxAsks \in Nat
  /\ Operations \cap {"none", "Refresh", "Stage", "Apply", "Sleep"} = {}

VARIABLES
  app,         \* the main thread
  command,     \* the task in the channel
  worker,      \* the task the worker executes, or has executed
  answer,      \* its result, once there is one
  reply,       \* the reply in the channel
  abort,       \* ABORT_DOWNLOAD
  asks,
  cancelled,   \* history: the owner cancelled the download that goes on
  sleepWanted  \* history: a sleep was asked for and nobody woke the player since

platformVars == <<app, command, worker, answer, reply, abort, asks, cancelled, sleepWanted>>

Updates == {"Stage", "Apply"}
PlatformWork == Operations \cup Updates \cup {"Refresh", "Sleep"}
Results == {"ok", "unfinished", "error", "aborted"}

PlatformInit ==
  /\ app = [busy |-> "none", queued |-> "none", pending |-> FALSE, run |-> FALSE,
            restarting |-> FALSE, idle |-> FALSE, dark |-> FALSE, playing |-> FALSE,
            requested |-> FALSE, prepared |-> FALSE]
  /\ command = "none" /\ worker = "none" /\ answer = "none"
  /\ reply = [task |-> "none", result |-> "none"]
  /\ abort = FALSE /\ asks = 0 /\ cancelled = FALSE /\ sleepWanted = FALSE

-----------------------------------------------------------------------------
(* on_platform: a task the owner, the automatic sleep or the queue starts. *)

ScreenSleeps(a) == [a EXCEPT !.dark = TRUE]

(* queue_platform: one task waits, the last one; an observation never does. *)
Queue(a, t) == IF t = "Refresh" THEN a ELSE [a EXCEPT !.queued = t]

(* What becomes of the main thread, and the task its channel is given. *)
Start(a, t, free) ==
  LET b == IF t = "Sleep" /\ ~a.playing THEN [ScreenSleeps(a) EXCEPT !.requested = TRUE] ELSE a
  IN IF b.busy # "none" THEN [app |-> Queue(b, t), command |-> "none"]
     ELSE IF t = "Sleep" /\ b.playing THEN [app |-> b, command |-> "none"]    \* PlaybackActive
     ELSE IF ~free THEN [app |-> Queue(b, t), command |-> "none"]
     ELSE [app |-> [b EXCEPT !.busy = t], command |-> t]

Give(t) == command' = (IF t = "none" THEN command ELSE t)
Started(r) == app' = r.app /\ Give(r.command)

-----------------------------------------------------------------------------
(* The owner. *)

(* The update screen and a running installation take other actions away. *)
Free(a) == ~a.run /\ a.busy # "Apply" /\ ~a.prepared
Asked == asks < MaxAsks /\ asks' = asks + 1
OthersKeep == UNCHANGED <<worker, answer, reply, abort>>

Ask(t) ==
  /\ Free(app) /\ Asked /\ Started(Start(app, t, command = "none"))
  /\ sleepWanted' = (sleepWanted \/ t = "Sleep")
  /\ OthersKeep /\ UNCHANGED cancelled

(* "update_now" downloads and installs; "update_install" installs. *)
UpdateNow(t) ==
  /\ Free(app) /\ ~app.dark /\ Asked
  /\ Started(Start([app EXCEPT !.run = TRUE], t, command = "none"))
  /\ cancelled' = FALSE
  /\ OthersKeep /\ UNCHANGED sleepWanted

(* Effect::CancelDownload, offered while the download is the busy task. *)
Cancel ==
  /\ app.run /\ app.busy = "Stage" /\ ~app.dark /\ Asked
  /\ abort' = TRUE /\ cancelled' = TRUE
  /\ UNCHANGED <<app, command, worker, answer, reply, sleepWanted>>

\* Plausible bug: a sleep that waits for its turn stays.
Wakes_StillQueued(a) == [a EXCEPT !.dark = FALSE]
(* on_screen_wake: a sleep that waits for its turn is dropped. *)
Wakes(a) ==
  IF ~a.dark THEN a
  ELSE [a EXCEPT !.dark = FALSE, !.queued = IF @ = "Sleep" THEN "none" ELSE @]

Wake ==
  /\ ~app.prepared /\ app.dark /\ Asked
  /\ app' = Wakes(app) /\ sleepWanted' = FALSE
  /\ OthersKeep /\ UNCHANGED <<command, cancelled>>
(* Power while music plays, or the screen timeout. *)
Blank ==
  /\ ~app.prepared /\ ~app.dark /\ (app.playing \/ ~app.requested)
  /\ app' = ScreenSleeps(app)
  /\ OthersKeep /\ UNCHANGED <<command, asks, cancelled, sleepWanted>>
PlayPause ==
  /\ Free(app) /\ Asked
  /\ app' = [app EXCEPT !.playing = ~@]
  /\ OthersKeep /\ UNCHANGED <<command, cancelled, sleepWanted>>

-----------------------------------------------------------------------------
(* The main loop. *)

LoopKeeps == UNCHANGED <<worker, answer, abort, asks>>

TakesTurn == app.busy = "none" /\ app.queued # "none"
(* platform_tick. *)
QueuedStarts ==
  /\ ~app.prepared /\ TakesTurn
  /\ Started(Start([app EXCEPT !.queued = "none"], app.queued, command = "none"))
  /\ LoopKeeps /\ UNCHANGED <<reply, cancelled, sleepWanted>>

(* The update screen shows no update task: 30 s of that end it. *)
\* Plausible bug: only a failed task ends the screen.
Waits_Never == FALSE
Waits == app.run /\ ~app.restarting /\ app.busy \notin Updates /\ app.queued \notin Updates
UpdateIdle ==
  /\ app.idle # Waits /\ ~TakesTurn
  /\ app' = [app EXCEPT !.idle = Waits]
  /\ LoopKeeps /\ UNCHANGED <<command, reply, cancelled, sleepWanted>>
UpdateGivesUp ==
  /\ app.idle /\ Waits /\ ~TakesTurn
  /\ app' = [app EXCEPT !.idle = FALSE, !.run = FALSE]
  /\ LoopKeeps /\ UNCHANGED <<command, reply, cancelled, sleepWanted>>

(* The periodic observation, after platform_tick in every pass: a task that   *)
(* waits has had its turn.                                                     *)
Poll ==
  /\ ~app.dark /\ ~app.pending /\ app.busy = "none" /\ ~TakesTurn /\ command = "none"
  /\ command' = "Refresh" /\ app' = [app EXCEPT !.pending = TRUE]
  /\ LoopKeeps /\ UNCHANGED <<reply, cancelled, sleepWanted>>

(* automatic_sleep_tick. *)
AutomaticSleep ==
  /\ app.dark /\ ~app.playing /\ ~app.prepared /\ app.busy = "none" /\ Asked
  /\ Started(Start(app, "Sleep", command = "none"))
  /\ sleepWanted' = TRUE
  /\ OthersKeep /\ UNCHANGED cancelled

(* poll_platform. *)
Failed(a) == [a EXCEPT !.run = FALSE, !.restarting = FALSE]
\* Plausible bug: any answer frees the application.
Freed_Any(a, t) == [a EXCEPT !.busy = "none"]
Freed(a, t) == IF t # "Refresh" \/ a.busy = "Refresh" THEN [a EXCEPT !.busy = "none"] ELSE a
(* Operations change the platform's state: it is observed again. *)
Observed(a) == IF command = "none" THEN [app |-> [a EXCEPT !.pending = TRUE], command |-> "Refresh"]
               ELSE [app |-> a, command |-> "none"]
Answered(t, r) ==
  LET a == Freed(app, t) IN
  IF t = "Refresh" THEN [app |-> [a EXCEPT !.pending = FALSE], command |-> "none"]
  ELSE IF t = "Sleep" \/ r = "unfinished" THEN [app |-> a, command |-> "none"]
  ELSE IF t = "Stage" /\ r = "ok" /\ a.run THEN Start(a, "Apply", command = "none")
  ELSE Observed(IF t = "Apply" /\ r = "ok" /\ a.run THEN [a EXCEPT !.restarting = TRUE]
                ELSE IF t \in Updates /\ r \in {"error", "aborted"} THEN Failed(a) ELSE a)

TakeReply ==
  /\ reply.task # "none" /\ Started(Answered(reply.task, reply.result))
  /\ reply' = [task |-> "none", result |-> "none"]
  /\ LoopKeeps /\ UNCHANGED <<cancelled, sleepWanted>>

-----------------------------------------------------------------------------
(* The worker and the platform. *)

WorkerKeeps == UNCHANGED <<app, asks, cancelled, sleepWanted>>

AbortAt(t) == IF t = "Stage" THEN FALSE ELSE abort
Execute ==
  /\ worker = "none" /\ command # "none"
  /\ worker' = command /\ command' = "none" /\ abort' = AbortAt(command)
  /\ WorkerKeeps /\ UNCHANGED <<answer, reply>>

(* run: the operation ends, its deadline passes, or the flag is seen and it is *)
(* told to stop.  (The flag is looked at every 20 ms: a download that ends in  *)
(* those is not modelled.)                                                     *)
Ends ==
  /\ worker # "none" /\ answer = "none"
  /\ IF worker = "Stage" /\ abort THEN answer' = "aborted" /\ abort' = FALSE
     ELSE answer' \in Results \ {"aborted"} /\ UNCHANGED abort
  /\ WorkerKeeps /\ UNCHANGED <<command, worker, reply>>
Replies ==
  /\ answer # "none" /\ reply.task = "none"
  /\ reply' = [task |-> worker, result |-> answer] /\ worker' = "none" /\ answer' = "none"
  /\ WorkerKeeps /\ UNCHANGED <<command, abort>>

(* The platform prepares the sleep it was asked for, over the control socket. *)
Refuses == (app.requested /\ ~app.dark) \/ app.playing
Prepare ==
  /\ worker = "Sleep" /\ answer = "none" /\ ~app.prepared
  /\ app' = IF Refuses THEN [app EXCEPT !.requested = FALSE]
            ELSE [ScreenSleeps(app) EXCEPT !.requested = FALSE, !.prepared = TRUE]
  /\ answer' = (IF Refuses THEN "error" ELSE "ok")
  /\ UNCHANGED <<command, worker, reply, abort, asks, cancelled, sleepWanted>>

(* restore_sleep: awake, or dark again after a refused sleep; or the platform  *)
(* is gone and automatic_sleep_tick restores.                                  *)
Restore ==
  /\ app.prepared
  /\ \/ app' = Wakes([app EXCEPT !.prepared = FALSE]) /\ sleepWanted' = FALSE
     \/ app' = [app EXCEPT !.prepared = FALSE] /\ UNCHANGED sleepWanted
  /\ OthersKeep /\ UNCHANGED <<command, asks, cancelled>>

(* The platform restarts the player into the installer. *)
Restart ==
  /\ app.restarting
  /\ app' = [app EXCEPT !.busy = "none", !.queued = "none", !.pending = FALSE, !.run = FALSE,
             !.restarting = FALSE, !.idle = FALSE, !.dark = FALSE, !.playing = FALSE,
             !.requested = FALSE, !.prepared = FALSE]
  /\ command' = "none" /\ worker' = "none" /\ answer' = "none"
  /\ reply' = [task |-> "none", result |-> "none"]
  /\ abort' = FALSE /\ cancelled' = FALSE /\ sleepWanted' = FALSE /\ UNCHANGED asks

Owner == (\E t \in Operations \cup {"Refresh", "Sleep"} : Ask(t)) \/ (\E t \in Updates : UpdateNow(t))
           \/ Cancel \/ Wake \/ Blank \/ PlayPause
MainLoop == QueuedStarts \/ UpdateIdle \/ UpdateGivesUp \/ Poll \/ AutomaticSleep \/ TakeReply
Platform == Execute \/ Ends \/ Replies \/ Prepare \/ Restore \/ Restart
PlatformNext == Owner \/ MainLoop \/ Platform
PlatformSpec ==
  /\ PlatformInit /\ [][PlatformNext]_platformVars
  /\ WF_platformVars(Execute) /\ WF_platformVars(Ends) /\ WF_platformVars(Replies)
  /\ WF_platformVars(TakeReply) /\ WF_platformVars(QueuedStarts)
  /\ WF_platformVars(UpdateIdle) /\ WF_platformVars(UpdateGivesUp) /\ WF_platformVars(Restore)

-----------------------------------------------------------------------------
(* The busy task is under way, so an answer frees the application; no other    *)
(* operation is under way; and an observation waited for is.                   *)
UnderWay(t) == command = t \/ worker = t \/ reply.task = t
BusyIsUnderWay ==
  /\ app.busy # "none" => UnderWay(app.busy)
  /\ \A t \in PlatformWork \ {"Refresh"} : UnderWay(t) => app.busy = t
  /\ app.pending => UnderWay("Refresh")

(* A wake sticks: no sleep asked for before it waits for its turn, and one     *)
(* already on its way does not prepare with the screen lit or music playing.   *)
WakeSticks ==
  [][/\ app'.queued = "Sleep" => sleepWanted'
     /\ app'.prepared /\ ~app.prepared => app.dark /\ ~app.playing]_platformVars

(* A download nobody cancelled is not stopped by an older Cancel. *)
OnlyCancelStops == answer = "aborted" => cancelled

(* The application, the client and the worker agree on what is under way. *)
TasksAgree == BusyIsUnderWay /\ OnlyCancelStops

(* client.rs: "Stop the update download in progress".  A cancelled download is *)
(* not installed.                                                              *)
CancelledStaysOut == cancelled => app.busy # "Apply"

(* The update screen never stays with no update behind it. *)
UpdateScreenEnds == app.run ~> (~app.run \/ app.restarting)

(* queue_platform: "Keep a task the owner started": it is not lost to the next. *)
QueuedIsKept ==
  [][app.queued # "none" /\ app'.queued # app.queued
       => app'.busy = app.queued \/ app'.queued = "none"]_platformVars
=============================================================================
