------------------------------ MODULE MCLinks ------------------------------
(***************************************************************************)
(* The components that answer to the radios, to the platform and to        *)
(* Last.fm, and to a computer that shares the card, for TLC:               *)
(* BackgroundGate, Outputs, PlatformTasks, Playlists, RadioStream,         *)
(* Scrobbles and Wifi, which this module extends (their names are          *)
(* disjoint).  They share no state, so a behaviour is one of a single      *)
(* component, the one `part` names: the states add up instead of           *)
(* multiplying, and one configuration gives all of them their bounds.      *)
(***************************************************************************)
EXTENDS BackgroundGate, Outputs, PlatformTasks, Playlists, RadioStream, Scrobbles, Wifi, TLC

CONSTANT Parts      \* the components that run
VARIABLE part

linksVars == <<part, outputVars, wifiVars, platformVars, vars, scrobbleVars, streamVars, listsVars>>

ASSUME LinksAssumption ==
  /\ OutputBounds /\ WifiAssumption /\ PlatformAssumption /\ ScrobbleAssumption
  /\ RadioAssumption /\ PlaylistsAssumption

-----------------------------------------------------------------------------
(* Several initial states only for the component that runs. *)
LinksInit ==
  /\ part \in Parts
  /\ OutputsInit /\ (part # "outputs" => headphones = "in")
  /\ WifiInit /\ PlatformInit /\ Init /\ ScrobbleInit /\ StreamInit /\ ListsInit

OutputsStep  == part = "outputs" /\ OutputsNext
                /\ UNCHANGED <<part, wifiVars, platformVars, vars, scrobbleVars, streamVars, listsVars>>
WifiStep     == part = "wifi" /\ WifiNext
                /\ UNCHANGED <<part, outputVars, platformVars, vars, scrobbleVars, streamVars, listsVars>>
PlatformStep == part = "platform" /\ PlatformNext
                /\ UNCHANGED <<part, outputVars, wifiVars, vars, scrobbleVars, streamVars, listsVars>>
GateStep     == part = "gate" /\ Next
                /\ UNCHANGED <<part, outputVars, wifiVars, platformVars, scrobbleVars, streamVars, listsVars>>
ScrobbleStep == part = "scrobbles" /\ ScrobbleNext
                /\ UNCHANGED <<part, outputVars, wifiVars, platformVars, vars, streamVars, listsVars>>
RadioStep    == part = "radio" /\ StreamNext
                /\ UNCHANGED <<part, outputVars, wifiVars, platformVars, vars, scrobbleVars, listsVars>>
PlaylistStep == part = "playlists" /\ ListsNext
                /\ UNCHANGED <<part, outputVars, wifiVars, platformVars, vars, scrobbleVars, streamVars>>
LinksNext == OutputsStep \/ WifiStep \/ PlatformStep \/ GateStep \/ ScrobbleStep \/ RadioStep
             \/ PlaylistStep

(* Each component's own fairness, for the behaviours that are its own. *)
LinksFairness ==
  /\ WF_outputVars(part = "outputs" /\ OutputPass) /\ WF_outputVars(part = "outputs" /\ ClockTick)
  /\ WF_wifiVars(part = "wifi" /\ JoinStep(TRUE)) /\ WF_wifiVars(part = "wifi" /\ RestartTimesOut)
  /\ WF_platformVars(part = "platform" /\ Execute) /\ WF_platformVars(part = "platform" /\ Ends)
  /\ WF_platformVars(part = "platform" /\ Replies) /\ WF_platformVars(part = "platform" /\ TakeReply)
  /\ WF_platformVars(part = "platform" /\ QueuedStarts)
  /\ WF_platformVars(part = "platform" /\ UpdateIdle)
  /\ WF_platformVars(part = "platform" /\ UpdateGivesUp)
  /\ WF_platformVars(part = "platform" /\ Restore)
  /\ WF_vars(part = "gate" /\ (Pass \/ Quiesced \/ SleepGivenUp))
  /\ WF_vars(part = "gate" /\ Watchdog)
  /\ SF_vars(part = "gate" /\ Follows("periodic", "due"))
  /\ SF_vars(part = "gate" /\ Due(TRUE))
  /\ WF_streamVars(part = "radio" /\ Drops) /\ WF_streamVars(part = "radio" /\ Fetch)
  /\ WF_streamVars(part = "radio" /\ AwaitsCurl)

LinksSpec     == LinksInit /\ [][LinksNext]_linksVars
LinksFairSpec == LinksSpec /\ LinksFairness

-----------------------------------------------------------------------------
(* Values of constants. *)
OneSaved == <<"home">>
OneList == "a" :> <<"x", "y">>
TwiceX == "a" :> <<"x", "y", "x">>
\* Accounts are told apart by no action and no property.
Symmetry == Permutations(Accounts)
=============================================================================
