--------------------------- MODULE BackgroundGate ---------------------------
(***************************************************************************)
(* The periodic observation of battery and media (background.rs): the main *)
(* loop asks for one, the watchdog thread reads, and a generation tells    *)
(* which answers still count.  Sleep is acknowledged only when no read is  *)
(* in flight.  Generation and `active` are the shared atomics, taken as    *)
(* sequentially consistent; requests and observations are channels of one. *)
(*                                                                         *)
(* What is read is the set of media sources, a number that names it.       *)
(***************************************************************************)
EXTENDS Naturals, Sequences

CONSTANTS
  MaxSources,     \* bound: changes of the media sources
  MaxGeneration   \* bound: the generation up to which sleep is tried (a u64 in the code)

ASSUME GateAssumption == MaxSources \in Nat /\ MaxGeneration \in Nat \ {0}

VARIABLES
  world,          \* the media sources there are
  generation, active,        \* the shared state
  gateSources, prepared,     \* Gate.sources, Gate.prepared
  sources, asleep,           \* AppModel.sources, sleep_prepared
  quiet,          \* quiesce returned true and sleep was not given up since
  pending,        \* observation_pending: its generation, 0 for none
  requests, observations,    \* the two channels
  mpc,            \* the stage of the main loop's pass
  wpc, request,   \* the watchdog's step, and the request it runs
  seen,           \* the sources it read
  era, readEra    \* history: sleeps and source changes, and their count at the read

shared   == <<generation, active>>
gate     == <<gateSources, prepared>>
model    == <<sources, asleep, quiet, era>>
main     == <<pending, mpc>>
watchdog == <<wpc, request, seen, readEra>>
vars == <<world, shared, gate, model, main, requests, observations, watchdog>>

MainStages  == {"workers", "control", "quiescing", "quiesced", "observe", "receive", "woke",
                "periodic", "due"}
WatchStages == {"idle", "check", "swap", "recheck", "working", "final", "leave", "publish",
                "leaveOld"}
Observation == [gen : Nat, sources : Nat, era : Nat]

Init ==
  /\ world = 0 /\ generation = 1 /\ active = FALSE
  /\ gateSources = 0 /\ prepared = FALSE
  /\ sources = 0 /\ asleep = FALSE /\ quiet = FALSE /\ era = 0
  /\ pending = 0 /\ mpc = "workers"
  /\ requests = <<>> /\ observations = <<>>
  /\ wpc = "idle" /\ request = 0 /\ seen = 0 /\ readEra = 0

MediaChange ==
  /\ world < MaxSources /\ world' = world + 1
  /\ UNCHANGED <<shared, gate, model, main, requests, observations, watchdog>>

-----------------------------------------------------------------------------
(* The gate. *)
\* Plausible bug: awake is enough, whatever was asked before the sleep.
Accepts_Awake(g) == ~prepared
Accepts(g) == ~prepared /\ g = generation

(* update: a new generation when something changed. *)
Update(s, p) ==
  /\ gateSources' = s /\ prepared' = p
  /\ generation' = IF gateSources = s /\ (prepared <=> p) THEN generation ELSE generation + 1

\* Plausible bug: a request the gate refuses is waited for.
RefreshPending_Not == pending
RefreshPending == IF Accepts(pending) THEN pending ELSE 0

(* request_observation: nothing while prepared, nothing when the watchdog has *)
(* not taken the last one.                                                    *)
RequestObservation(p) ==
  IF p = 0 /\ ~prepared /\ requests = <<>>
    THEN requests' = <<generation>> /\ pending' = generation
    ELSE pending' = p /\ UNCHANGED requests

-----------------------------------------------------------------------------
(* The main loop's pass. *)

(* workers, observations, periodic: the gate follows the model, and a change  *)
(* forgets the request.                                                       *)
Follows(stage, next) ==
  /\ mpc = stage /\ mpc' = next
  /\ Update(sources, asleep)
  /\ pending' = IF generation' = generation THEN pending ELSE 0
  /\ UNCHANGED <<world, active, model, requests, observations, watchdog>>

NoControl ==
  /\ mpc = "control" /\ mpc' = "observe"
  /\ UNCHANGED <<world, shared, gate, model, pending, requests, observations, watchdog>>

(* prepare_sleep: quiesce invalidates, then looks at `active`. *)
Quiesce ==
  /\ mpc = "control" /\ ~asleep /\ generation + 2 <= MaxGeneration
  /\ prepared' = TRUE /\ generation' = generation + 1
  /\ mpc' = "quiescing"
  /\ UNCHANGED <<world, active, gateSources, model, pending, requests, observations, watchdog>>

Quiesced ==
  /\ mpc = "quiescing" /\ ~active
  /\ quiet' = TRUE /\ mpc' = "quiesced"
  /\ UNCHANGED <<world, shared, gate, sources, asleep, era, pending, requests, observations,
                 watchdog>>

SleepGivenUp ==
  /\ (mpc = "quiescing" /\ active) \/ mpc = "quiesced"
  /\ Update(sources, FALSE)
  /\ quiet' = FALSE /\ mpc' = "observe"
  /\ UNCHANGED <<world, active, sources, asleep, era, pending, requests, observations, watchdog>>

(* The scanner, the covers, the database and playback are ready too. *)
SleepReady ==
  /\ mpc = "quiesced"
  /\ asleep' = TRUE /\ era' = era + 1 /\ mpc' = "observe"
  /\ UNCHANGED <<world, shared, gate, sources, quiet, pending, requests, observations, watchdog>>

RestoreSleep ==
  /\ mpc = "control" /\ asleep
  /\ asleep' = FALSE /\ quiet' = FALSE
  /\ Update(sources, FALSE)
  /\ mpc' = "observe"
  /\ UNCHANGED <<world, active, sources, era, pending, requests, observations, watchdog>>

(* One observation is taken; one that counts brings the sources. *)
Receive ==
  LET o == observations[1] IN
  /\ mpc = "receive" /\ observations # <<>>
  /\ mpc' = "woke" /\ observations' = <<>>
  /\ IF Accepts(o.gen)
       THEN /\ pending' = 0 /\ sources' = o.sources
            /\ era' = IF o.sources = sources THEN era ELSE era + 1
       ELSE UNCHANGED <<pending, sources, era>>
  /\ UNCHANGED <<world, shared, gate, asleep, quiet, requests, watchdog>>

NothingReceived ==
  /\ mpc = "receive" /\ observations = <<>>
  /\ mpc' = "woke"
  /\ UNCHANGED <<world, shared, gate, model, pending, requests, observations, watchdog>>

(* The screen just lit, or did not. *)
Woke(lit) ==
  /\ mpc = "woke" /\ mpc' = "periodic"
  /\ IF lit /\ pending = 0 THEN RequestObservation(pending) ELSE UNCHANGED <<requests, pending>>
  /\ UNCHANGED <<world, shared, gate, model, observations, watchdog>>

(* The periodic block, when it is due: the gate follows (above), the pending *)
(* request is looked at, and in time another one sent.                       *)
NotDue ==
  /\ mpc = "periodic" /\ mpc' = "workers"
  /\ UNCHANGED <<world, shared, gate, model, pending, requests, observations, watchdog>>

Due(asks) ==
  /\ mpc = "due" /\ mpc' = "workers"
  /\ IF asks THEN RequestObservation(RefreshPending)
             ELSE pending' = RefreshPending /\ UNCHANGED requests
  /\ UNCHANGED <<world, shared, gate, model, observations, watchdog>>

Pass ==
  \/ Follows("workers", "control") \/ Follows("observe", "receive") \/ Follows("periodic", "due")
  \/ NoControl \/ Receive \/ NothingReceived \/ NotDue
  \/ \E b \in BOOLEAN : Woke(b) \/ Due(b)

Control == Quiesce \/ Quiesced \/ SleepGivenUp \/ SleepReady \/ RestoreSleep

-----------------------------------------------------------------------------
(* The watchdog: Authority::run around the read, then the answer, which is   *)
(* lost when the last one was not taken.                                     *)
Watch(from, to) ==
  /\ wpc = from /\ wpc' = to
  /\ UNCHANGED <<world, generation, gate, model, main>>

TakeRequest ==
  /\ requests # <<>>
  /\ Watch("idle", "check")
  /\ request' = requests[1] /\ requests' = <<>>
  /\ UNCHANGED <<active, observations, seen, readEra>>

Check ==
  /\ Watch("check", IF request = generation THEN "swap" ELSE "idle")
  /\ UNCHANGED <<active, requests, observations, request, seen, readEra>>

Enter ==
  /\ Watch("swap", IF active THEN "idle" ELSE "recheck")
  /\ active' = TRUE
  /\ UNCHANGED <<requests, observations, request, seen, readEra>>

\* Plausible bug: a read is not checked again once it is announced.
MayRead_Unchecked == TRUE
MayRead == request = generation

BeginRead ==
  /\ Watch("recheck", IF MayRead THEN "working" ELSE "leaveOld")
  /\ readEra' = era
  /\ UNCHANGED <<active, requests, observations, request, seen>>

Read ==
  /\ Watch("working", "final")
  /\ seen' = world
  /\ UNCHANGED <<active, requests, observations, request, readEra>>

Final ==
  /\ Watch("final", IF request = generation THEN "leave" ELSE "leaveOld")
  /\ UNCHANGED <<active, requests, observations, request, seen, readEra>>

Leave ==
  /\ (Watch("leave", "publish") \/ Watch("leaveOld", "idle"))
  /\ active' = FALSE
  /\ UNCHANGED <<requests, observations, request, seen, readEra>>

Post(q, m) == IF q = <<>> THEN <<m>> ELSE q

Publish ==
  /\ Watch("publish", "idle")
  /\ observations' = Post(observations, [gen |-> request, sources |-> seen, era |-> readEra])
  /\ UNCHANGED <<active, requests, request, seen, readEra>>

Watchdog == TakeRequest \/ Check \/ Enter \/ BeginRead \/ Read \/ Final \/ Leave \/ Publish

-----------------------------------------------------------------------------
Next == MediaChange \/ Pass \/ Control \/ Watchdog

Spec == Init /\ [][Next]_vars

(* The two threads go on; the periodic block comes due; a quiesce ends. *)
Fairness ==
  /\ WF_vars(Pass \/ Quiesced \/ SleepGivenUp) /\ WF_vars(Watchdog)
  /\ SF_vars(Follows("periodic", "due"))
  /\ SF_vars(Due(TRUE))
FairSpec == Spec /\ Fairness

(* Every variable has its type, and a channel holds at most one. *)
GateTypeOK ==
  /\ world \in Nat /\ generation \in Nat \ {0} /\ active \in BOOLEAN
  /\ gateSources \in Nat /\ prepared \in BOOLEAN
  /\ sources \in Nat /\ asleep \in BOOLEAN /\ quiet \in BOOLEAN
  /\ pending \in Nat
  /\ requests \in Seq(Nat) /\ Len(requests) <= 1
  /\ observations \in Seq(Observation) /\ Len(observations) <= 1
  /\ mpc \in MainStages /\ wpc \in WatchStages
  /\ request \in Nat /\ seen \in Nat
  /\ era \in Nat /\ readEra \in Nat

(* Sleep is acknowledged only when no read is in flight, and until it is over *)
(* none begins: a watchdog past its first check finds the generation moved on *)
(* ("an active read must finish before the caller can acknowledge").          *)
QuiesceIsSilent == quiet => wpc # "working"

(* An answer that counts was read after the last sleep and after the last     *)
(* change of the sources ("source, music and resume generations reject old    *)
(* work even after reinsertion").                                             *)
AcceptedIsFresh ==
  mpc = "receive" /\ observations # <<>> /\ Accepts(observations[1].gen)
    => observations[1].era = era

(* A request the gate no longer accepts is forgotten, also when a quiesce and *)
(* a resume passed between two looks at it.                                   *)
StaleRequestForgotten == (pending # 0 /\ ~Accepts(pending)) ~> (pending = 0 \/ Accepts(pending))

(* The observation asked for comes ("quiesce and resume between main ticks    *)
(* cannot strand battery observation").  Not so: an old answer that passed    *)
(* its last check can take the new one's place in the channel.                *)
ObservationEnds == pending # 0 ~> pending = 0
=============================================================================
