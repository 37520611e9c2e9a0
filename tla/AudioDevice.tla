---------------------------- MODULE AudioDevice -----------------------------
(***************************************************************************)
(* What the pipeline promises of the audio device: it is exclusive.  A     *)
(* stream, a sink kept between two streams (or for wheel clicks) and the   *)
(* probe of a plan each open it, one at a time.  An open device may pass   *)
(* from a stream to the kept sink and back; a probe finds it closed.       *)
(***************************************************************************)
VARIABLE users

Users == {"stream", "kept", "plan"}

Init == users = {}

Acquire(u) == users = {} /\ users' = {u}
HandOver(u, v) == {u, v} = {"stream", "kept"} /\ users = {u} /\ users' = {v}
Close == users # {} /\ users' = {}

Next ==
  \/ \E u \in Users : Acquire(u)
  \/ \E u, v \in Users : HandOver(u, v)
  \/ Close

Spec == Init /\ [][Next]_users
=============================================================================
