----------------------------- MODULE MCPlayback -----------------------------
(***************************************************************************)
(* Instances of the pipeline for TLC: what disturbs playback in a run.     *)
(***************************************************************************)
EXTENDS Playback

Undisturbed   == {}
Interruptions == {"PeerLost", "SourceChange", "TrackGone", "Transport"}
Services      == {"Click", "HoldLimit", "SdRepair", "Sleep"}
=============================================================================
