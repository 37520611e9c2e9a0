-------------------------------- MODULE Wifi --------------------------------
(***************************************************************************)
(* The Wi-Fi thread of wifi.rs (run, PendingJoin, Scan), the supplicant it *)
(* drives, and the parts of the main loop that ask it and show what it     *)
(* says: a join is tried before it is saved, one that finds nothing        *)
(* restarts Wi-Fi once, and the radio is switched off while the player is  *)
(* dark and idle. A password is good or bad; the supplicant (external)     *)
(* keeps its networks while the radio is on and reads its file again when  *)
(* it comes back, numbering the networks anew: what it has and what it     *)
(* saved are sets of networks, ordered by their numbers.                   *)
(***************************************************************************)
EXTENDS Integers, Sequences, FiniteSets

CONSTANTS Ssids,
          Saved0,       \* the saved file at the start: a sequence of names, each once
          Restarts,     \* bound: starts of the player
          MaxWishes,      \* bound: commands asked of the thread
          StatusRoom,   \* states the main loop has not taken (sync_channel(2))
          CommandRoom,  \* commands the thread has not taken (sync_channel(8))
          OnBattery,    \* the player switches Wi-Fi off in the dark
          OffInTheDark  \* the control socket switches Wi-Fi while the screen is dark

WifiAssumption ==
  /\ MaxWishes \in Nat /\ StatusRoom \in Nat \ {0} /\ CommandRoom \in Nat \ {0}
  /\ Saved0 \in Seq(STRING) /\ \A i, k \in DOMAIN Saved0 : Saved0[i] = Saved0[k] => i = k

VARIABLES radio, up, networks, nets,          \* the supplicant: its saved file, what it has
          heard,                              \* its events, on the join's monitor socket
          preference, idleOff,                \* the saved switch, wifi_idle_off
          join, current, publish,             \* the thread
          commands, statuses,                 \* its channels
          statusShown, menu, said, attempts, wishes, starts,
          untried,   \* history: names of the new networks whose join an end of the player cut
          leftOff,   \* history: names of the networks that end left switched off
          missed     \* history: in the dark, the owner switched off last, or the player ended
supplicantVars == <<radio, up, networks, nets>>
idleVars == <<preference, idleOff>>
threadVars == <<join, current, publish>>
uiVars == <<statusShown, menu, said>>
pastVars == <<starts, untried, leftOff, missed>>
wifiVars == <<supplicantVars, heard, idleVars, threadVars, commands, statuses, uiVars, attempts, wishes, pastVars>>

NoNet == "none"
NoMenu == [id |-> -1, ssid |-> NoNet]
NoJoin == [attempt |-> 0]
NoOutcome == [attempt |-> 0, ssid |-> NoNet, outcome |-> "none"]
Block(id, ssid, good, on) == [id |-> id, ssid |-> ssid, good |-> good, on |-> on]
Listed(ns) == {[id |-> n.id, ssid |-> n.ssid] : n \in ns}
\* SAVE_CONFIG writes every network the supplicant has, in the order of their numbers; a network's
\* number, once the file is read again, is its place there.
Saved(ns) == {[n EXCEPT !.id = Cardinality({m \in ns : m.id < n.id})] : n \in ns}
FreeId(ns) == CHOOSE k \in {0} \cup {n.id + 1 : n \in ns} : \A n \in ns : n.id < k
Enabled(ns) == {[n EXCEPT !.on = TRUE] : n \in ns}
Selected(ns, id) == {[n EXCEPT !.on = (n.id = id)] : n \in ns}
Without(ns, id) == {n \in ns : n.id # id}

WifiInit ==
  /\ radio = TRUE /\ up = TRUE /\ heard = <<>>
  /\ networks = {Block(i - 1, Saved0[i], TRUE, TRUE) : i \in DOMAIN Saved0}
  /\ nets = networks
  /\ preference = TRUE /\ idleOff = FALSE
  /\ join = NoJoin /\ current = [saved |-> Listed(nets), join |-> NoOutcome]
  /\ publish = FALSE /\ commands = <<>> /\ statuses = <<>>
  /\ statusShown = current.saved /\ menu = NoMenu /\ said = 0 /\ attempts = 0 /\ wishes = 0 /\ starts = 1
  /\ untried = {} /\ leftOff = {} /\ missed = FALSE

-----------------------------------------------------------------------------
(* The supplicant (external). *)

\* The switch off takes the interface away, and with it what was not saved.
RadioOff == radio' = FALSE /\ up' = FALSE /\ nets' = {}
RadioOn == radio' = TRUE /\ UNCHANGED <<up, nets>>
SupplicantComesUp ==
  /\ radio /\ ~up
  /\ up' = TRUE /\ nets' = networks
  /\ UNCHANGED <<radio, networks, heard, idleVars, threadVars, commands, statuses, uiVars, attempts, wishes, pastVars>>
\* What a join's monitor hears: a bad password ends in the supplicant's timeout or the access
\* point's refusal, a handshake cut short on this side is called a wrong key too.
Tellings(good) == {<<"not found">>, <<"reject">>, <<"disconnected here", "wrong key">>, <<"disconnected there", "disabled">>}
  \cup (IF good THEN {<<"connected">>} ELSE {<<"timed out", "disconnected here", "wrong key">>, <<"disconnected there", "wrong key">>})
SupplicantTells ==
  /\ up /\ join # NoJoin /\ ~join.restarting /\ heard = <<>>
  /\ \E n \in nets : n.id = join.id /\ \E t \in Tellings(n.good) : heard' = t
  /\ UNCHANGED <<supplicantVars, idleVars, threadVars, commands, statuses, uiVars, attempts, wishes, pastVars>>

-----------------------------------------------------------------------------
(* PendingJoin. *)

\* What a command of the owner makes of the networks: a join still being checked is finished.
Ended(ns) == IF join = NoJoin \/ ~up \/ join.cleaned THEN ns
             ELSE Enabled(IF join.added THEN Without(ns, join.id) ELSE ns)
\* Plausible bug: the others stay disabled.
FinishJoin_Disabled(j, joined) ==
  IF j.cleaned \/ ~up THEN UNCHANGED <<nets, networks>>
  ELSE IF joined
  THEN LET others == IF j.added THEN {n \in nets : n.ssid # j.ssid \/ n.id = j.id} ELSE nets
       IN nets' = others /\ networks' = Saved(nets')
  ELSE nets' = Enabled(IF j.added THEN Without(nets, j.id) ELSE nets) /\ UNCHANGED networks
\* finish: keep a network that connected and drop older ones of its name; remove one that did
\* not; enable the others again.
FinishJoin(j, joined) ==
  IF j.cleaned \/ ~up THEN UNCHANGED <<nets, networks>>
  ELSE IF joined
  THEN LET others == IF j.added THEN {n \in nets : n.ssid # j.ssid \/ n.id = j.id} ELSE nets
       IN nets' = Enabled(others) /\ networks' = Saved(nets')
  ELSE nets' = Enabled(IF j.added THEN Without(nets, j.id) ELSE nets) /\ UNCHANGED networks

\* Plausible bug: every wrong key is the password's fault.
Hears_Blames(j, event) ==
  IF j.outcome # "checking" THEN j
  ELSE CASE event = "connected" -> [j EXCEPT !.outcome = "joined"]
         [] event = "wrong key" -> [j EXCEPT !.outcome = "wrong password"]
         [] event \in {"disabled", "reject"} -> [j EXCEPT !.failures = @ + 1, !.outcome = IF @ = "checking" /\ j.failures = 1 THEN "failed" ELSE @]
         [] OTHER -> j
\* listen: what one event makes of the join.
Hears(j, event) ==
  IF j.outcome # "checking" THEN j ELSE
  LET failed == IF j.failures = 1 THEN "failed" ELSE "checking"
      absent == IF j.absent = 2 THEN "not found" ELSE "checking"
  IN CASE event = "connected"          -> [j EXCEPT !.outcome = "joined"]
       [] event = "timed out"          -> [j EXCEPT !.timedOut = TRUE]
       [] event = "disconnected here"  -> [j EXCEPT !.interrupted = ~j.timedOut, !.timedOut = FALSE]
       [] event = "disconnected there" -> [j EXCEPT !.interrupted = FALSE, !.timedOut = FALSE]
       [] event = "wrong key" -> IF j.interrupted THEN [j EXCEPT !.interrupted = FALSE]
                                                  ELSE [j EXCEPT !.outcome = "wrong password"]
       [] event = "disabled"  -> [j EXCEPT !.interrupted = FALSE, !.failures = @ + 1, !.outcome = failed]
       [] event = "reject"    -> [j EXCEPT !.failures = @ + 1, !.outcome = failed]
       [] event = "not found" -> [j EXCEPT !.absent = @ + 1, !.outcome = absent]
\* The deadline passed without a verdict.
OutOfTime(j) == [j EXCEPT !.outcome = IF j.absent > 0 /\ j.failures = 0 THEN "not found" ELSE "failed"]

Pending(attempt, ssid, good, id, added, retry) ==
  [attempt |-> attempt, ssid |-> ssid, good |-> good, id |-> id, added |-> added, retry |-> retry,
   restarting |-> FALSE, cleaned |-> FALSE, failures |-> 0, absent |-> 0, timedOut |-> FALSE,
   interrupted |-> FALSE, outcome |-> "checking"]
\* start: a typed password is a new network, selected but not saved.
JoinTyped(ns, attempt, ssid, good, retry) ==
  LET id == FreeId(ns)
  IN /\ nets' = Selected(ns \cup {Block(id, ssid, good, TRUE)}, id)
     /\ join' = Pending(attempt, ssid, good, id, TRUE, retry)
JoinSaved(ns, attempt, ssid, id, retry) ==
  /\ nets' = Selected(ns, id)
  /\ \E n \in ns : n.id = id /\ join' = Pending(attempt, ssid, n.good, id, FALSE, retry)

Told(j, outcome) == [attempt |-> j.attempt, ssid |-> j.ssid, outcome |-> outcome]
\* The saved list is read again after each outcome.
JoinEnds(j, outcome) ==
  /\ FinishJoin(j, outcome = "joined")
  /\ join' = NoJoin /\ publish' = TRUE
  /\ current' = [saved |-> Listed(nets'), join |-> Told(j, outcome)]

\* A join that finds nothing restarts Wi-Fi once and is tried again.
RestartsWifi(j) ==
  /\ nets' = {} /\ up' = FALSE /\ radio' = TRUE
  /\ join' = [j EXCEPT !.restarting = TRUE, !.cleaned = TRUE, !.outcome = "checking"]
  /\ UNCHANGED <<current, publish, networks>>
\* step: an event came, or the deadline did.
JoinStep(late) ==
  /\ join # NoJoin /\ ~join.restarting /\ (late \/ heard # <<>>)
  /\ LET j == IF late THEN OutOfTime(join) ELSE Hears(join, Head(heard)) IN
     CASE j.outcome = "checking" -> join' = j /\ heard' = Tail(heard) /\ UNCHANGED <<supplicantVars, current, publish>>
       [] j.outcome = "not found" /\ j.retry /\ up -> RestartsWifi(j) /\ heard' = <<>>
       [] OTHER -> JoinEnds(j, j.outcome) /\ heard' = <<>> /\ UNCHANGED <<radio, up>>
  /\ UNCHANGED <<idleVars, commands, statuses, uiVars, attempts, wishes, pastVars>>
\* Plausible bug: the second try may restart Wi-Fi too.
Rejoin_Again ==
  /\ join # NoJoin /\ join.restarting /\ up
  /\ \/ join.added /\ JoinTyped(nets, join.attempt, join.ssid, join.good, TRUE)
     \/ /\ ~join.added
        /\ \E n \in nets : n.ssid = join.ssid /\ JoinSaved(nets, join.attempt, join.ssid, n.id, TRUE)
  /\ UNCHANGED <<radio, up, networks, heard, idleVars, current, publish, commands, statuses, uiVars, attempts, wishes, pastVars>>
\* rejoin: once the supplicant answers again; a saved network is looked up by its name.
Rejoin ==
  /\ join # NoJoin /\ join.restarting /\ up
  /\ \/ join.added /\ JoinTyped(nets, join.attempt, join.ssid, join.good, FALSE)
     \/ /\ ~join.added
        /\ \E n \in nets : n.ssid = join.ssid /\ JoinSaved(nets, join.attempt, join.ssid, n.id, FALSE)
  /\ UNCHANGED <<radio, up, networks, heard, idleVars, current, publish, commands, statuses, uiVars, attempts, wishes, pastVars>>
RestartTimesOut ==
  /\ join # NoJoin /\ join.restarting
  /\ JoinEnds(join, "not found")
  /\ UNCHANGED <<radio, up, heard, idleVars, commands, statuses, uiVars, attempts, wishes, pastVars>>

-----------------------------------------------------------------------------
(* A command of the owner ends a join still being checked, except a scan; the state is read anew. *)

Interrupted(kept) == [saved |-> Listed(nets'),
                      join |-> IF join = NoJoin \/ kept THEN current.join ELSE NoOutcome]
Take(op) == commands # <<>> /\ Head(commands).op = op /\ commands' = Tail(commands)
After == UNCHANGED <<idleOff, statuses, uiVars, wishes, starts, untried, leftOff>> /\ publish' = TRUE

DoPower ==
  /\ Take("power")
  /\ LET on == Head(commands).on IN
     /\ IF on THEN radio' = TRUE /\ nets' = Ended(nets) /\ UNCHANGED up ELSE RadioOff
     /\ preference' = on /\ missed' = (idleOff /\ ~on)
  /\ current' = Interrupted(FALSE) /\ join' = NoJoin /\ heard' = <<>>
  /\ UNCHANGED <<networks, attempts>> /\ After
DoScan ==
  /\ Take("scan")
  /\ preference' = TRUE /\ RadioOn /\ missed' = FALSE
  /\ current' = Interrupted(TRUE)
  /\ UNCHANGED <<networks, heard, join, attempts>> /\ After
DoConnect ==
  /\ Take("connect")
  /\ UNCHANGED <<radio, up, networks, preference, missed>> /\ After
  /\ attempts' = attempts + 1 /\ heard' = <<>>
  /\ IF up THEN /\ JoinTyped(Ended(nets), attempts', Head(commands).ssid, Head(commands).good, TRUE)
                /\ current' = [Interrupted(FALSE) EXCEPT !.join = Told(join', "checking")]
           ELSE /\ join' = NoJoin /\ UNCHANGED nets /\ current' = Interrupted(FALSE)
\* The name comes from the thread's list, the number from the owner's.
DoSaved ==
  /\ Take("saved")
  /\ UNCHANGED <<radio, up, networks, preference, missed>> /\ After
  /\ attempts' = attempts + 1 /\ heard' = <<>>
  /\ LET id == Head(commands).id
         names == {n.ssid : n \in {m \in current.saved : m.id = id}} IN
     IF up /\ \E n \in Ended(nets) : n.id = id
     THEN /\ JoinSaved(Ended(nets), attempts', IF names = {} THEN NoNet ELSE CHOOSE s \in names : TRUE, id, TRUE)
          /\ current' = [Interrupted(FALSE) EXCEPT !.join = Told(join', "checking")]
     ELSE join' = NoJoin /\ nets' = Ended(nets) /\ current' = Interrupted(FALSE)
DoForget ==
  /\ Take("forget")
  /\ nets' = Without(Ended(nets), Head(commands).id)
  /\ networks' = IF nets' # Ended(nets) THEN Saved(nets') ELSE networks
  /\ current' = Interrupted(FALSE) /\ join' = NoJoin /\ heard' = <<>>
  /\ UNCHANGED <<radio, up, preference, attempts, missed>> /\ After

\* Every 3 s the state is read; the saved list with it when the link changed, or after 30 s.
Refresh ==
  /\ current.saved # Listed(nets)
  /\ current' = [current EXCEPT !.saved = Listed(nets)] /\ publish' = TRUE
  /\ UNCHANGED <<supplicantVars, heard, idleVars, join, commands, statuses, uiVars, attempts, wishes, pastVars>>
\* A state the channel has no room for is sent on a later turn.
PublishStatus ==
  /\ publish /\ Len(statuses) < StatusRoom
  /\ statuses' = Append(statuses, current) /\ publish' = FALSE
  /\ UNCHANGED <<supplicantVars, heard, idleVars, join, current, commands, uiVars, attempts, wishes, pastVars>>
-----------------------------------------------------------------------------
(* The main loop: what the owner wishes, the states statusShown, the dark screen, the player's own start. *)

AskWifi(command) ==
  /\ menu' = NoMenu
  /\ wishes < MaxWishes /\ wishes' = wishes + 1
  /\ Len(commands) < CommandRoom /\ commands' = Append(commands, command)
  /\ UNCHANGED <<supplicantVars, heard, idleVars, threadVars, statuses, statusShown, said, attempts, pastVars>>
\* The menu of a saved network keeps the number it was opened on (context_key).
OpenMenu ==
  /\ ~idleOff /\ menu = NoMenu /\ wishes < MaxWishes
  /\ \E n \in statusShown : menu' = n
  /\ UNCHANGED <<supplicantVars, heard, idleVars, threadVars, commands, statuses, statusShown, said, attempts, wishes, pastVars>>
OwnerAsks ==
  /\ ~idleOff
  /\ \/ \E on \in BOOLEAN : AskWifi([op |-> "power", on |-> on])
     \/ AskWifi([op |-> "scan"])
     \/ \E s \in Ssids, good \in BOOLEAN : AskWifi([op |-> "connect", ssid |-> s, good |-> good])
     \/ menu # NoMenu /\ \E op \in {"saved", "forget"} : AskWifi([op |-> op, id |-> menu.id, meant |-> menu.ssid])
\* An outcome is said once (wifi_join_changed).
ShowStatus ==
  /\ statuses # <<>>
  /\ statusShown' = Head(statuses).saved /\ statuses' = Tail(statuses)
  /\ said' = IF Head(statuses).join.outcome \notin {"none", "checking"} /\ Head(statuses).join.attempt > said
             THEN Head(statuses).join.attempt ELSE said
  /\ UNCHANGED <<supplicantVars, heard, idleVars, threadVars, commands, menu, attempts, wishes, pastVars>>

\* After minutes in the dark (no join can still be checked, no command waits) the radio is
\* switched off; the wake brings it back.
WifiIdleTick ==
  /\ OnBattery /\ ~idleOff /\ radio /\ join = NoJoin /\ commands = <<>> /\ menu = NoMenu
  /\ RadioOff /\ idleOff' = TRUE
  /\ UNCHANGED <<networks, heard, preference, threadVars, commands, statuses, uiVars, attempts, wishes, pastVars>>
WifiIdleRestore ==
  /\ idleOff /\ idleOff' = FALSE /\ RadioOn
  /\ UNCHANGED <<networks, heard, preference, threadVars, commands, statuses, uiVars, attempts, wishes, pastVars>>
ControlSocketSwitches ==
  /\ OffInTheDark /\ idleOff /\ \E on \in BOOLEAN : AskWifi([op |-> "power", on |-> on])
\* The player stops (run breaks off at Stop) or crashes and starts again; the supplicant stays.
PlayerStarts ==
  /\ starts < Restarts /\ starts' = starts + 1
  /\ join' = NoJoin /\ heard' = <<>> /\ commands' = <<>> /\ statuses' = <<>>
  /\ current' = [saved |-> Listed(nets), join |-> NoOutcome] /\ statusShown' = current'.saved /\ menu' = NoMenu
  /\ publish' = FALSE /\ said' = 0 /\ attempts' = 0
  /\ idleOff' = FALSE /\ missed' = (missed \/ idleOff)
  /\ IF join = NoJoin \/ join.cleaned THEN UNCHANGED <<untried, leftOff>>
     ELSE /\ untried' = untried \cup IF join.added THEN {join.ssid} ELSE {}
          /\ leftOff' = leftOff \cup {n.ssid : n \in {m \in nets : ~m.on}}
  /\ UNCHANGED <<supplicantVars, preference, wishes>>

WifiNext ==
  \/ SupplicantComesUp \/ SupplicantTells
  \/ \E late \in BOOLEAN : JoinStep(late)
  \/ Rejoin \/ RestartTimesOut
  \/ DoPower \/ DoScan \/ DoConnect \/ DoSaved \/ DoForget
  \/ Refresh \/ PublishStatus \/ OpenMenu \/ OwnerAsks \/ ShowStatus
  \/ WifiIdleTick \/ WifiIdleRestore \/ ControlSocketSwitches \/ PlayerStarts

\* The thread keeps turning and its deadlines pass.
WifiFair == WF_wifiVars(JoinStep(TRUE)) /\ WF_wifiVars(RestartTimesOut)
WifiSpec == WifiInit /\ [][WifiNext]_wifiVars /\ WifiFair

-----------------------------------------------------------------------------
\* A join is tried before it is saved (Y2Reborn #20): no password that never connected is in
\* the supplicant's file, whatever interrupts the join; unless the player ended in that very join.
TriedBeforeSaved == \A n \in networks : n.good \/ n.ssid \in untried

\* A join selects its network and disables the others, but none is ever saved disabled, and a
\* name is saved once; but for what a player that ended in a join left disabled, or new.
SavedAreUsable == /\ \A n \in networks : n.on \/ n.ssid \in leftOff
                  /\ \A m, n \in networks : m.ssid = n.ssid => m = n \/ n.ssid \in untried

\* What the supplicant's file holds is worth having.
SavedNetworks == TriedBeforeSaved /\ SavedAreUsable

\* A right password is never called wrong because the handshake was cut short on this side (F52).
BlamesOnlyBadPasswords ==
  join # NoJoin /\ join.good /\ heard # <<>> => Hears(join, Head(heard)).outcome # "wrong password"

\* Every join comes to an end, however often the network is not found: Wi-Fi restarts once.
JoinsEnd == (join # NoJoin) ~> (join = NoJoin)

\* Awake, with every command done, the radio is what the owner chose last; unless that choice was
\* made in the dark, which the wake forgets, or the player ended there, which nothing brings back.
ChoiceHolds == ~idleOff /\ commands = <<>> /\ ~missed => radio = preference

\* The owner is told the truth and gets the radio he chose.
OwnerIsServed == BlamesOnlyBadPasswords /\ ChoiceHolds

\* Forget removes the network whose name was on screen, or none.
Names(ns) == {n.ssid : n \in ns}
ForgetsTheChosen == [][DoForget => Names(networks) \ Names(networks') \subseteq {Head(commands).meant}]_wifiVars

\* The two without their exceptions. Not so: nothing ends a join the player's end cut, and nothing
\* brings back a radio that was off in the dark.
OnlyTheTried == \A n \in networks : n.good /\ n.on
ChoiceAlwaysHolds == ~idleOff /\ commands = <<>> => radio = preference
=============================================================================
