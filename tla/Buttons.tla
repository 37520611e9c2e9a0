------------------------------ MODULE Buttons ------------------------------
(***************************************************************************)
(* The buttons (reborn-platform input.rs): InputManager turns the records  *)
(* of the input devices into presses, holds, releases and cancellations,   *)
(* ActionRouter turns those into actions, and the main loop applies them.  *)
(* A device may overflow or vanish, the screen goes off and on, the player *)
(* sleeps while buttons are down.                                          *)
(*                                                                         *)
(* Time, the clock of the records, counts the length of a hold.  The main  *)
(* loop may stall for any time.  While it reads and routes, nothing else   *)
(* happens: what arrives meanwhile is of the next round.  A press is known *)
(* by its number (ghost).  Left out: the wheel, the volume keys, records   *)
(* without time stamps, malformed ones, and two devices with one button.   *)
(***************************************************************************)
EXTENDS Naturals, SequencesExt, TLC

CONSTANTS
  Controls,     \* the buttons: some of Power, Select, Back, Previous, Next, PlayPause
  DarkModes,    \* the settings of the buttons in the dark
  Boards,       \* what may be open: "none", "plain" (the keyboard), "search" (the library's)
  WakeFails,    \* the display may fail to wake
  Long,         \* LONG_PRESS; a repeat starts a little sooner
  Ring,         \* QUICK_MENU_HOLD and POWER_HOLD, shortened
  MaxTime, MaxPresses, MaxLosses, MaxSleeps, MaxTurns      \* bounds

ButtonsAssumption ==
  /\ Controls \subseteq {"Power", "Select", "Back", "Previous", "Next", "PlayPause"}
  /\ DarkModes \subseteq {"Locked", "Buttons", "WheelAndButtons"} /\ DarkModes # {}
  /\ Boards \subseteq {"none", "plain", "search"} /\ "none" \in Boards
  /\ WakeFails \in BOOLEAN /\ {Long, Ring} \subseteq Nat \ {0}
  /\ {MaxTime, MaxPresses, MaxLosses, MaxSleeps, MaxTurns} \subseteq Nat

Devices == {"pmic", "nav"}
DeviceOf(c) == IF c = "Power" THEN "pmic" ELSE "nav"

VARIABLES
  clock,
  down,      \* the buttons that are down, since when
  presses,   \* ghost: the number of presses of each
  lines,     \* the records that wait in each device
  fds,       \* the descriptor of each device: "open", "dead" or "closed"
  reading,   \* poll_at takes records in
  raw,       \* records read and not yet taken in
  blocked,   \* devices whose records were not all read (drain_incomplete)
  events,    \* normalized events to route
  pressed,   \* InputManager: the buttons it knows pressed, since when
  dropping,  \* InputManager: devices that overflowed
  router,    \* ActionRouter
  mode,      \* screen_off_buttons
  lit, board,    \* the screen is on; what is open
  menu,      \* the Quick Menu is open
  hold,      \* power_hold: when the player turns off, 0 for never
  off,       \* the player was told to turn off
  asked,     \* a sleep is requested
  sleepPrepared, resume,  \* sleep_prepared; input_resume
  given,     \* ghost: what each press gave
  begun,     \* ghost: the presses that began in the dark
  cut,       \* ghost: presses some record of which was lost
  quick,     \* ghost: presses released before they were long
  losses, sleeps, turns    \* bounds
deviceVars == <<down, presses, lines, fds>>
loopVars == <<reading, raw, blocked, events, pressed, dropping, router>>
uiVars == <<lit, board, menu, hold, off, asked, sleepPrepared, resume>>
ghosts == <<given, begun, cut, quick>>
buttonsVars == <<clock, deviceVars, loopVars, mode, uiVars, ghosts, losses, sleeps, turns>>

NoPress == [c \in {} |-> 0]
With(f, c, x) == [b \in DOMAIN f \cup {c} |-> IF b = c THEN x ELSE f[b]]
NoRouter == [long |-> {}, dark |-> {}, keys |-> {}, power |-> "none", search |-> FALSE]
NoRecords == [d \in Devices |-> <<>>]

ButtonsInit ==
  /\ clock = 1 /\ down = NoPress /\ presses = [c \in Controls |-> 0] /\ lines = NoRecords
  /\ fds = [d \in Devices |-> "open"] /\ reading = FALSE /\ raw = NoRecords /\ blocked = {} /\ events = <<>>
  /\ pressed = NoPress /\ dropping = {} /\ router = NoRouter /\ mode \in DarkModes
  /\ lit = TRUE /\ board = "none" /\ menu = FALSE /\ hold = 0 /\ off = FALSE /\ asked = FALSE
  /\ sleepPrepared = FALSE /\ resume = FALSE
  /\ given = {} /\ begun = {} /\ cut = {} /\ quick = {} /\ losses = 0 /\ sleeps = 0 /\ turns = 0

Rests == ~reading /\ events = <<>> /\ ~off

-----------------------------------------------------------------------------
(* The devices (external). *)

Record(c, kind, id) == [control |-> c, kind |-> kind, at |-> clock, id |-> id]
Reports(c, kind, id) ==
  LET d == DeviceOf(c) IN
  lines' = IF fds[d] = "open" THEN [lines EXCEPT ![d] = Append(@, Record(c, kind, id))] ELSE lines

(* The presses of device d that lose a record, or their rest, now. *)
Losing(d) ==
  {<<c, presses[c]>> : c \in {x \in DOMAIN down \cup DOMAIN pressed : DeviceOf(x) = d}}
  \cup {<<lines[d][i].control, lines[d][i].id>> : i \in DOMAIN lines[d]}

Down ==
  /\ Rests /\ \E c \in Controls \ DOMAIN down :
       /\ FoldFunction(+, 0, presses) < MaxPresses
       /\ presses' = [presses EXCEPT ![c] = @ + 1] /\ down' = With(down, c, clock)
       /\ Reports(c, "down", presses[c] + 1)
       /\ cut' = IF fds[DeviceOf(c)] = "open" THEN cut ELSE cut \cup {<<c, presses[c] + 1>>}
  /\ UNCHANGED <<clock, fds, loopVars, mode, uiVars, given, begun, quick, losses, sleeps, turns>>
Up ==
  /\ Rests /\ \E c \in DOMAIN down :
       /\ down' = Restrict(down, DOMAIN down \ {c}) /\ Reports(c, "up", presses[c])
       /\ quick' = IF clock - down[c] < Long THEN quick \cup {<<c, presses[c]>>} ELSE quick
  /\ UNCHANGED <<clock, presses, fds, loopVars, mode, uiVars, given, begun, cut, losses, sleeps, turns>>

(* The kernel's queue overflows: the next record is lost as well (until the next SYN_REPORT). *)
Overflow ==
  /\ Rests /\ losses < MaxLosses /\ losses' = losses + 1
  /\ \E d \in Devices :
       /\ fds[d] = "open"
       /\ lines' = [lines EXCEPT ![d] = <<[control |-> "all", kind |-> "dropped", at |-> clock, id |-> 0]>>]
       /\ cut' = cut \cup Losing(d)
  /\ UNCHANGED <<clock, down, presses, fds, loopVars, mode, uiVars, given, begun, quick, sleeps, turns>>
(* A driver is bound anew: its descriptor gives nothing but an error. *)
Rebind ==
  /\ Rests /\ losses < MaxLosses /\ losses' = losses + 1
  /\ \E d \in Devices :
       /\ fds[d] = "open" /\ fds' = [fds EXCEPT ![d] = "dead"] /\ lines' = [lines EXCEPT ![d] = <<>>]
       /\ cut' = cut \cup Losing(d)
  /\ UNCHANGED <<clock, down, presses, loopVars, mode, uiVars, given, begun, quick, sleeps, turns>>

Time ==
  /\ Rests /\ clock < MaxTime /\ clock' = clock + 1
  /\ UNCHANGED <<deviceVars, loopVars, mode, uiVars, ghosts, losses, sleeps, turns>>

-----------------------------------------------------------------------------
(* InputManager. *)

Event(kind, c, id) == [kind |-> kind, control |-> c, id |-> id]
Events(kind, S) == LET q == SetToSeq(S) IN [i \in DOMAIN q |-> Event(kind, q[i], pressed[q[i]].id)]

(* cancel_stale_device. *)
Stale(d) == {c \in DOMAIN pressed : DeviceOf(c) = d}
Without(S) == Restrict(pressed, DOMAIN pressed \ S)

(* Something to read, to lose, to find or to age; other rounds change nothing. *)
Busy == \/ lines # NoRecords \/ \E d \in Devices : fds[d] # "open"
        \/ \E c \in DOMAIN pressed : clock - pressed[c].since >= Long

(* poll_at: what the devices hold is read, within a budget; the descriptors of the dead fail. *)
Read ==
  /\ Rests /\ ~resume /\ ~(hold # 0 /\ clock >= hold) /\ Busy
  /\ \E taken \in [pmic : 0..Len(lines["pmic"]), nav : 0..Len(lines["nav"])] :
       /\ raw' = [d \in Devices |-> SubSeq(lines[d], 1, taken[d])]
       /\ lines' = [d \in Devices |-> SubSeq(lines[d], taken[d] + 1, Len(lines[d]))]
       /\ blocked' = {d \in Devices : taken[d] < Len(lines[d])}
  /\ \/ fds' = [d \in Devices |-> IF fds[d] = "closed" THEN "open" ELSE fds[d]]       \* rescan, once a second
     \/ UNCHANGED fds
  /\ reading' = TRUE
  /\ UNCHANGED <<clock, down, presses, events, pressed, dropping, router, mode, uiVars, ghosts,
                 losses, sleeps, turns>>

(* What a release is: that of a wake press let go before its hold, or of a press not seen, is none. *)
\* Plausible bug: it acts all the same.
Ended_Always(c, wake) == "Release"
Ended(c, wake) == IF c \in DOMAIN pressed /\ ~wake THEN "Release" ELSE "Cancel"

(* ingest_record of a key. *)
Begun(at, id, resumed) == [since |-> at, long |-> FALSE, resumed |-> resumed, id |-> id]
Taken(r) ==
  LET c == r.control  was == c \in DOMAIN pressed IN
  IF r.kind = "down"
  THEN IF was THEN [known |-> pressed, gives |-> <<>>]
       ELSE [known |-> With(pressed, c, Begun(r.at, r.id, FALSE)), gives |-> <<Event("Press", c, r.id)>>]
  ELSE LET aged  == was /\ ~pressed[c].long /\ r.at - pressed[c].since >= Long
           wake  == was /\ pressed[c].resumed /\ ~pressed[c].long /\ ~aged
       IN [known |-> Without({c}),
           gives |-> (IF aged THEN <<Event("LongPress", c, r.id)>> ELSE <<>>)
                     \o <<Event(Ended(c, wake), c, r.id)>>]
First(d) == raw[d] # <<>> /\ \A e \in Devices : raw[e] # <<>> => raw[d][1].at <= raw[e][1].at
Ingest ==
  /\ reading /\ events = <<>>
  /\ \E d \in Devices :
       /\ First(d) /\ raw' = [raw EXCEPT ![d] = Tail(@)]
       /\ LET r == raw[d][1] IN
          \/ /\ r.kind = "dropped" /\ events' = Events("Cancel", Stale(d)) /\ pressed' = Without(Stale(d))
             /\ dropping' = dropping \cup {d} /\ UNCHANGED cut
          \/ /\ r.kind # "dropped" /\ d \in dropping /\ dropping' = dropping \ {d}
             /\ cut' = cut \cup {<<r.control, r.id>>} /\ UNCHANGED <<events, pressed>>
          \/ /\ r.kind # "dropped" /\ d \notin dropping /\ pressed' = Taken(r).known
             /\ events' = Taken(r).gives /\ UNCHANGED <<dropping, cut>>
  /\ UNCHANGED <<clock, deviceVars, reading, blocked, router, mode, uiVars, given, begun, quick,
                 losses, sleeps, turns>>

(* tick_ready: the buttons that become holds, and those that repeat (how often is left out). *)
Ageing(known) == {c \in DOMAIN known : DeviceOf(c) \notin blocked}
TurnLong(known) == {c \in Ageing(known) : ~known[c].long /\ clock - known[c].since >= Long}
Repeats(known) == {c \in Ageing(known) \ TurnLong(known) :
                     c \in {"Previous", "Next"} /\ clock - known[c].since >= Long}

(* All is taken in: the buttons of lost devices are cancelled, the others age. *)
Age ==
  /\ reading /\ events = <<>> /\ raw = NoRecords /\ reading' = FALSE /\ blocked' = {}
  /\ LET dead  == {d \in Devices : fds[d] = "dead"}
         stale == {c \in DOMAIN pressed : DeviceOf(c) \in dead}
         known == Without(stale)
     IN /\ events' = Events("Cancel", stale)
                       \o Events("LongPress", TurnLong(known)) \o Events("Repeat", Repeats(known))
        /\ pressed' = [c \in DOMAIN known |->
                         IF c \in TurnLong(known) THEN [known[c] EXCEPT !.long = TRUE] ELSE known[c]]
        /\ dropping' = dropping \ dead
        /\ fds' = [d \in Devices |-> IF d \in dead THEN "closed" ELSE fds[d]]
  /\ UNCHANGED <<clock, down, presses, lines, raw, router, mode, uiVars, ghosts, losses, sleeps, turns>>

(* resumed: every queue is closed and opened anew; Power still down begins a hold. *)
Resumed ==
  /\ Rests /\ resume /\ resume' = FALSE
  /\ lines' = NoRecords /\ fds' = [d \in Devices |-> "open"] /\ dropping' = {} /\ router' = NoRouter
  /\ pressed' = IF "Power" \in DOMAIN down THEN With(NoPress, "Power", Begun(clock, presses["Power"], TRUE)) ELSE NoPress
  /\ cut' = cut \cup Losing("pmic") \cup Losing("nav")
  /\ UNCHANGED <<clock, down, presses, reading, raw, blocked, events, mode, lit, board, menu, hold, off,
                 asked, sleepPrepared, given, begun, quick, losses, sleeps, turns>>

-----------------------------------------------------------------------------
(* ActionRouter: what it keeps after an event, and the actions it gives, by their kind. *)

Arrows == {"Back", "PlayPause", "Previous", "Next"}
RestsInTheDark(c) ==
  c \in CASE mode = "Locked"          -> {"Select", "Back", "Previous", "Next", "PlayPause"}
         [] mode = "Buttons"         -> {"Select", "Back"}
         [] mode = "WheelAndButtons" -> {"Back"}

Gives(r, acts) == [router |-> r, acts |-> acts]

(* keyboard_route: the buttons that were pressed as arrow keys. *)
Typed(e) ==
  LET c == e.control IN
  CASE e.kind = "Press" ->
         Gives([router EXCEPT !.keys = @ \cup {c}, !.search = IF c = "Back" THEN board = "search" ELSE @],
               {"arrow"})
    [] e.kind = "Repeat" -> Gives(router, IF board # "none" THEN {"arrow"} ELSE {})
    [] e.kind = "LongPress" ->
         Gives(router, IF c = "Back" /\ (board # "none" \/ (router.search /\ lit)) THEN {"hold"} ELSE {})
    [] OTHER -> Gives([router EXCEPT !.keys = @ \ {c}], {})
IsTyped(e) ==
  IF e.kind = "Press" THEN board # "none" /\ lit /\ e.control \in Arrows ELSE e.control \in router.keys

(* What a short press does. *)
Short(c, started) ==
  CASE c = "Power" -> IF started # "none" /\ (started = "lit") # lit THEN {}
                      ELSE IF lit THEN {"sleep"} ELSE {"wake"}
    [] c = "Select" -> IF lit \/ mode = "WheelAndButtons" THEN {"short"} ELSE {}
    [] c = "Back" -> IF lit THEN {"short"} ELSE {}
    [] OTHER -> {"short"}

\* Plausible bug: a hold in the dark is not forgotten.
Forgets_Dark(r, c) == [r EXCEPT !.long = @ \ {c}, !.power = IF c = "Power" THEN "none" ELSE @]
Forgets(r, c) == [r EXCEPT !.long = @ \ {c}, !.dark = @ \ {c}, !.power = IF c = "Power" THEN "none" ELSE @]
Cancelled(c) == Gives(Forgets(router, c), IF c = "Power" /\ c \in router.long THEN {"cancel"} ELSE {})
(* route. *)
Routed(e) ==
  LET c == e.control  held == c \in router.long  rests == c \in router.dark IN
  CASE e.kind = "Press" ->
         Gives([router EXCEPT !.power = IF c = "Power" THEN (IF lit THEN "lit" ELSE "dark") ELSE @,
                              !.dark = IF ~lit /\ RestsInTheDark(c) THEN @ \cup {c} ELSE @], {})
    [] e.kind = "Repeat" ->
         Gives(router, IF held /\ ~rests /\ c \in {"Previous", "Next"} THEN {"hold"} ELSE {})
    [] e.kind = "LongPress" ->
         Gives([router EXCEPT !.long = @ \cup {c}],
               IF rests \/ (~lit /\ c \notin {"Previous", "Next", "Power"}) THEN {}
               ELSE IF c = "Power" /\ ~lit THEN {"wake", "hold"} ELSE {"hold"})
    [] e.kind = "Cancel" -> Cancelled(c)
    [] e.kind = "Release" ->
         Gives(Forgets(router, c),
               IF rests THEN {} ELSE IF held THEN (IF c = "Power" THEN {"cancel"} ELSE {})
               ELSE Short(c, router.power))

Answer(e) == IF IsTyped(e) THEN Typed(e) ELSE Routed(e)

-----------------------------------------------------------------------------
(* The main loop and the interface. *)

(* model_action and its effect.  A short Power press closes the Quick Menu, or turns the screen
   off, and asks for a sleep when nothing plays. *)
Acts(c, acts) ==
  /\ lit' = \/ lit /\ ~("sleep" \in acts /\ ~menu)
            \/ "wake" \in acts
  /\ menu' = CASE c = "Power" /\ "hold" \in acts -> board = "none"
              [] "sleep" \in acts -> FALSE
              [] OTHER -> menu
  /\ hold' = CASE c = "Power" /\ "hold" \in acts -> clock + Ring
              [] "cancel" \in acts -> 0
              [] OTHER -> hold
  /\ asked' \in IF "sleep" \in acts /\ ~menu THEN {asked, TRUE} ELSE {asked}

\* An event while sleep is sleepPrepared is dropped.
Route ==
  /\ events # <<>> /\ events' = Tail(events)
  /\ LET e == events[1]  out == Answer(e) IN
     IF sleepPrepared THEN UNCHANGED <<router, lit, menu, hold, asked, given, begun>>
     ELSE /\ router' = out.router
          /\ begun' = IF e.kind = "Press" /\ ~lit THEN begun \cup {<<e.control, e.id>>} ELSE begun
          /\ given' = given \cup {<<e.control, e.id, a>> : a \in out.acts \ {"cancel"}}
          /\ \/ Acts(e.control, out.acts)
             \/ WakeFails /\ "wake" \in out.acts /\ Acts(e.control, out.acts \ {"wake"})
  /\ UNCHANGED <<clock, deviceVars, reading, raw, blocked, pressed, dropping, mode, board, off,
                 sleepPrepared, resume, cut, quick, losses, sleeps, turns>>

(* power_hold_complete, before the buttons are read. *)
Completes ==
  /\ Rests /\ hold # 0 /\ clock >= hold /\ hold' = 0 /\ off' = ~sleepPrepared
  /\ UNCHANGED <<clock, deviceVars, loopVars, mode, lit, board, menu, asked, sleepPrepared, resume, ghosts,
                 losses, sleeps, turns>>

(* What else happens to the interface: the keyboard opens or closes, the screen times out
   (never within a hold, which is shorter), or lights for a computer. *)
Interface ==
  /\ Rests /\ ~sleepPrepared /\ turns < MaxTurns /\ turns' = turns + 1
  /\ \/ lit /\ ~menu /\ board' \in Boards \ {board} /\ UNCHANGED <<lit, menu>>
     \/ lit /\ hold = 0 /\ lit' = FALSE /\ UNCHANGED <<board, menu>>
     \/ ~lit /\ lit' = TRUE /\ UNCHANGED <<board, menu>>
     \/ menu /\ menu' = FALSE /\ UNCHANGED <<lit, board>>
  /\ UNCHANGED <<clock, deviceVars, loopVars, mode, hold, off, asked, sleepPrepared, resume, ghosts,
                 losses, sleeps>>

(* prepare_sleep, after a request of Power or of the idle timer: refused when lit again. *)
Prepare ==
  /\ Rests /\ ~sleepPrepared /\ sleeps < MaxSleeps /\ (asked \/ ~lit) /\ asked' = FALSE
  /\ sleepPrepared' = ~lit /\ sleeps' = sleeps + 1
  /\ UNCHANGED <<clock, deviceVars, loopVars, mode, lit, board, menu, hold, off, resume, ghosts,
                 losses, turns>>
(* restore_sleep: the player woke, or sleep was refused and the screen stays off. *)
Restore ==
  /\ Rests /\ sleepPrepared /\ sleepPrepared' = FALSE /\ resume' = TRUE /\ lit' \in BOOLEAN
  /\ UNCHANGED <<clock, deviceVars, loopVars, mode, board, menu, hold, off, asked, ghosts,
                 losses, sleeps, turns>>

ButtonsNext ==
  \/ Down \/ Up \/ Overflow \/ Rebind \/ Time
  \/ Read \/ Ingest \/ Age \/ Resumed
  \/ Route \/ Completes \/ Interface \/ Prepare \/ Restore
ButtonsSpec == ButtonsInit /\ [][ButtonsNext]_buttonsVars

-----------------------------------------------------------------------------
Gave(c, id, what) == <<c, id, what>> \in given

(* A press means one thing, however late its records are read and whatever the screen, the
   keyboard, the devices and sleep do while it is down.  A short press is no hold and no arrow
   key; one that was released in time is no hold; one of which something was lost is nothing but
   a hold; one that began in the dark does not put the screen to sleep, and gives nothing at all
   where its button rests. *)
ShortIsShort ==
  \A g \in given : g[3] \in {"short", "sleep"} => ~Gave(g[1], g[2], "hold") /\ ~Gave(g[1], g[2], "arrow")
QuickIsShort == \A p \in quick : ~Gave(p[1], p[2], "hold")
LostIsNothing ==
  \A p \in cut :
    /\ ~Gave(p[1], p[2], "short") /\ ~Gave(p[1], p[2], "sleep")
    /\ Gave(p[1], p[2], "wake") => Gave(p[1], p[2], "hold")
DarkIsDark ==
  \A p \in begun :
    /\ ~Gave(p[1], p[2], "sleep")
    /\ RestsInTheDark(p[1]) => ~\E g \in given : g[1] = p[1] /\ g[2] = p[2]
OneMeaning == ShortIsShort /\ QuickIsShort /\ LostIsNothing /\ DarkIsDark

(* The clock that turns the player off runs only while Power is pressed. *)
HoldIsPressed ==
  hold # 0 => \/ "Power" \in DOMAIN pressed /\ pressed["Power"].long
              \/ \E i \in DOMAIN events : events[i].control = "Power" /\ events[i].kind \in {"Release", "Cancel"}

(* No button sticks: with every button up and every record read, nothing is kept as pressed, *)
(* and the clock of Power runs only for a press.                                             *)
NothingKept ==
  Rests /\ down = NoPress /\ lines = NoRecords /\ ~sleepPrepared /\ ~resume /\ fds = [d \in Devices |-> "open"]
  => pressed = NoPress /\ router.long = {} /\ router.dark = {} /\ router.keys = {}

NothingSticks == NothingKept /\ HoldIsPressed

(* The player is not turned off once Power was released.  A stall of the main loop does that. *)
OffIsHeld == off => "Power" \in DOMAIN down
=============================================================================
