--------------------------- MODULE MCHardware ---------------------------
(***************************************************************************)
(* What the hardware does to the player, for TLC: a card that comes and    *)
(* goes under the scans (LibraryScan: one card of two files, one in a      *)
(* folder below), a power cut in the quarantine of a damaged database      *)
(* (Quarantine), the volume between the jack and headphones that come and  *)
(* go (Volume), and the buttons (Buttons: Power and Next).  They share no  *)
(* state, so a behaviour is one of a single component, the one `part`      *)
(* names.                                                                  *)
(***************************************************************************)
EXTENDS LibraryScan, Quarantine, Volume, Buttons, TLC

CONSTANTS
  Parts,      \* the components that run
  f1, f2, top, sub      \* the files and folders of the card

VARIABLE part
vars == <<part, scanVars, quarantineVars, volumeVars, buttonsVars>>

ASSUME HardwareAssumption == ScanAssumption /\ QuarantineAssumption /\ VolumeBounds /\ ButtonsAssumption

-----------------------------------------------------------------------------
(* Several initial states only for the component that runs. *)
Init ==
  /\ part \in Parts
  /\ ScanInit /\ (part # "scan" => disk = [c \in Cards |-> [file \in Files |-> 1]])
  /\ QuarantineInit
  /\ VolumeInit /\ (part # "volume" => player = CHOOSE first \in FirstPlayers : TRUE)
  /\ ButtonsInit /\ (part # "buttons" => mode = CHOOSE any \in DarkModes : TRUE)
ScanStep       == part = "scan" /\ ScanNext /\ UNCHANGED <<part, quarantineVars, volumeVars, buttonsVars>>
QuarantineStep == part = "quarantine" /\ QuarantineNext /\ UNCHANGED <<part, scanVars, volumeVars, buttonsVars>>
VolumeStep     == part = "volume" /\ VolumeNext /\ UNCHANGED <<part, scanVars, quarantineVars, buttonsVars>>
ButtonsStep    == part = "buttons" /\ ButtonsNext /\ UNCHANGED <<part, scanVars, quarantineVars, volumeVars>>
Next == ScanStep \/ QuarantineStep \/ VolumeStep \/ ButtonsStep
Spec == Init /\ [][Next]_vars

-----------------------------------------------------------------------------
(* Values of constants. *)
SafeLevels == [l \in Levels |-> IF l = "low" THEN 2 ELSE 1]
Where == (f1 :> top) @@ (f2 :> sub)
=============================================================================
