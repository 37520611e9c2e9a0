---------------------------- MODULE RadioStream ----------------------------
(***************************************************************************)
(* One station being received (radio.rs, from Stream::start to receive):   *)
(* the decode thread opens the stream, reads it through its own copy of    *)
(* the pipe and drops it (BoundDecoder: the decoder first); the fetcher    *)
(* runs curl after curl, each passed on through a slot from which the drop *)
(* can kill it, and writes into the pipe.  The station is external: it     *)
(* answers with audio, a playlist, something else, or not at all; a curl   *)
(* that gets nothing ends by its own time limits.                          *)
(***************************************************************************)
EXTENDS Naturals

CONSTANTS
  Tries,        \* BACKOFF_S.len(), 6 in the code
  Hops,         \* playlists that may lead to another, 3 in the code
  PipeRoom,     \* blocks the pipe takes
  MaxStreams    \* bound: stations opened

RadioAssumption == {Tries, Hops, MaxStreams} \subseteq Nat /\ PipeRoom \in Nat \ {0}

VARIABLES
  stream,     \* the decode thread: "none", "open", "dropping", "stopped", "closed", "joining"
  fetcher,    \* the fetcher: where run and receive stand
  curl,       \* the present child: "none", "running", "ended" (not yet waited for)
  slot,       \* Shared::child holds it
  pipe,       \* blocks in the pipe
  outcome,    \* what receive returned
  failures, hops,
  shown,      \* Shared::state
  streams
streamVars == <<stream, fetcher, curl, slot, pipe, outcome, failures, hops, shown, streams>>

StreamInit ==
  /\ stream = "none" /\ fetcher = "none" /\ curl = "none" /\ slot = FALSE /\ pipe = 0
  /\ outcome = "none" /\ failures = 0 /\ hops = 0 /\ shown = "None" /\ streams = 0

Stopped == stream \in {"stopped", "closed", "joining"}       \* Shared::stop
HasReader == stream \in {"open", "dropping", "stopped"}

-----------------------------------------------------------------------------
(* The decode thread. *)

\* Stream::start, then the decoder's copy of the read end.
OpenStream ==
  /\ stream = "none" /\ streams < MaxStreams
  /\ stream' = "open" /\ fetcher' = "check" /\ shown' = "Connecting" /\ streams' = streams + 1
  /\ pipe' = 0 /\ outcome' = "none" /\ failures' = 0 /\ hops' = 0
  /\ UNCHANGED <<curl, slot>>

\* The decoder reads while its own stream has room: it may stop for good.
Reads ==
  /\ stream = "open" /\ pipe > 0 /\ pipe' = pipe - 1
  /\ UNCHANGED <<stream, fetcher, curl, slot, outcome, failures, hops, shown, streams>>

\* The song is replaced, stopped, could not be opened or came to its end: the decoder goes first.
DropDecoder ==
  /\ stream = "open" /\ stream' = "dropping"
  /\ UNCHANGED <<fetcher, curl, slot, pipe, outcome, failures, hops, shown, streams>>

\* Stream::drop, step by step.
Stop ==
  /\ stream = "dropping" /\ stream' = "stopped"
  /\ UNCHANGED <<fetcher, curl, slot, pipe, outcome, failures, hops, shown, streams>>
\* Plausible bug (Beta 4's): the reader is closed after the fetcher was waited for.
Closing_Never == "stopped"
Closing == "closed"
CloseReader ==
  /\ stream = "stopped" /\ stream' = Closing
  /\ UNCHANGED <<fetcher, curl, slot, pipe, outcome, failures, hops, shown, streams>>
Kill ==
  /\ stream = "closed" /\ stream' = "joining"
  /\ curl' = IF slot THEN "ended" ELSE curl
  /\ UNCHANGED <<fetcher, slot, pipe, outcome, failures, hops, shown, streams>>
Join ==
  /\ stream = "joining" /\ fetcher = "done"
  /\ stream' = "none" /\ fetcher' = "none" /\ shown' = "None"
  /\ UNCHANGED <<curl, slot, pipe, outcome, failures, hops, streams>>
Drops == Stop \/ CloseReader \/ Kill \/ Join

-----------------------------------------------------------------------------
(* The fetcher. *)
Fetching == UNCHANGED <<stream, streams>>

StopCheck ==
  /\ fetcher = "check" /\ fetcher' = IF Stopped THEN "done" ELSE "spawn"
  /\ UNCHANGED <<curl, slot, pipe, outcome, failures, hops, shown>> /\ Fetching

Spawn ==
  /\ fetcher = "spawn" /\ curl' = "running" /\ fetcher' = "keep"
  /\ UNCHANGED <<slot, pipe, outcome, failures, hops, shown>> /\ Fetching
NoCurl ==
  /\ fetcher = "spawn" /\ outcome' = "unsupported" /\ fetcher' = "outcome"
  /\ UNCHANGED <<curl, slot, pipe, failures, hops, shown>> /\ Fetching
Keep ==
  /\ fetcher = "keep" /\ slot' = TRUE /\ fetcher' = "headers"
  /\ UNCHANGED <<curl, pipe, outcome, failures, hops, shown>> /\ Fetching

\* finish: whatever receive ends with, the child is killed and waited for.
\* Plausible bug: the child of a playlist is left to itself.
Reaped_NoPlaylist(result) == result # "playlist"
Reaped(result) == TRUE
Finish(result) ==
  /\ outcome' = result /\ fetcher' = "outcome" /\ slot' = FALSE
  /\ curl' = IF Reaped(result) THEN "none" ELSE curl
  /\ UNCHANGED <<pipe, failures, hops, shown>> /\ Fetching

\* The answer's headers: audio, a playlist, a web page or HLS, an error; or none.
Headers ==
  \/ /\ fetcher = "headers" /\ curl = "running" /\ fetcher' = "body"
     /\ UNCHANGED <<curl, slot, pipe, outcome, failures, hops, shown>> /\ Fetching
  \/ /\ fetcher = "headers" /\ curl = "running"
     /\ \E result \in {"playlist", "unsupported", "ended"} : Finish(result)
  \/ fetcher = "headers" /\ curl = "ended" /\ Finish("ended")

\* The next block, or the end of what curl had: after more than 30 s of it, or less.
Body ==
  \/ /\ fetcher = "body" /\ curl = "running" /\ fetcher' = "write"
     /\ UNCHANGED <<curl, slot, pipe, outcome, failures, hops, shown>> /\ Fetching
  \/ /\ fetcher = "body" /\ curl = "ended"
     /\ \E result \in {"ended", "played"} : Finish(result)

\* write_all blocks while the pipe is full and fails when nobody can read it.
Writes ==
  /\ fetcher = "write" /\ HasReader /\ pipe < PipeRoom
  /\ pipe' = pipe + 1 /\ shown' = "Playing" /\ fetcher' = "body"
  /\ UNCHANGED <<curl, slot, outcome, failures, hops>> /\ Fetching
PipeCloses == fetcher = "write" /\ ~HasReader /\ Finish("pipe")

\* run, after receive.
Decide ==
  /\ fetcher = "outcome" /\ outcome' = "none"
  /\ IF Stopped \/ outcome = "pipe"
       THEN fetcher' = "done" /\ UNCHANGED <<failures, hops, shown>>
     ELSE IF outcome = "unsupported" \/ (outcome = "playlist" /\ hops = Hops)
       THEN fetcher' = "done" /\ shown' = "Failed" /\ UNCHANGED <<failures, hops>>
     ELSE IF outcome = "playlist"
       THEN fetcher' = "check" /\ hops' = hops + 1 /\ UNCHANGED <<failures, shown>>
     ELSE LET f == IF outcome = "played" THEN 0 ELSE failures
          IN IF f >= Tries
               THEN fetcher' = "done" /\ shown' = "Failed" /\ failures' = f /\ UNCHANGED hops
               ELSE fetcher' = "wait" /\ shown' = "Reconnecting" /\ failures' = f + 1 /\ UNCHANGED hops
  /\ UNCHANGED <<curl, slot, pipe>> /\ Fetching

\* The back-off, cut short by stop.
BackOff ==
  /\ fetcher = "wait" /\ fetcher' = "check"
  /\ UNCHANGED <<curl, slot, pipe, outcome, failures, hops, shown>> /\ Fetching

Fetch == StopCheck \/ Spawn \/ NoCurl \/ Keep \/ Headers \/ Body \/ Writes \/ PipeCloses \/ Decide \/ BackOff

\* The station hangs up, stalls, or never answered.
CurlEnds ==
  /\ curl = "running" /\ curl' = "ended"
  /\ UNCHANGED <<stream, fetcher, slot, pipe, outcome, failures, hops, shown, streams>>

StreamNext == OpenStream \/ Reads \/ DropDecoder \/ Drops \/ Fetch \/ CurlEnds

(* The threads go on.  Of the station nothing is assumed: curl passes on    *)
(* what comes, or ends by its limits (10 s to connect, 15 s of silence), so *)
(* the fetcher waits for neither headers nor a block for good.              *)
AwaitsCurl == fetcher \in {"headers", "body"} /\ (Headers \/ Body \/ CurlEnds)
StreamSpec == StreamInit /\ [][StreamNext]_streamVars
              /\ WF_streamVars(Drops) /\ WF_streamVars(Fetch) /\ WF_streamVars(AwaitsCurl)

-----------------------------------------------------------------------------
(* "Dropping it stops the network transfer" (Stream): no curl outlives the   *)
(* stream, wherever between two of the fetcher's steps the drop came.        *)
TransferEnds == stream = "none" => curl = "none" /\ ~slot

(* A station that is not received any more says why, while its decoder is    *)
(* open: Now Playing shows no station as playing that is not.                *)
SaysWhy == stream = "open" /\ fetcher = "done" => shown = "Failed"
OneTransfer == TransferEnds /\ SaysWhy

(* Dropping a stream ends, although the fetcher may be writing into a full   *)
(* pipe ("Beta 4 hung here") or curl may not be in the slot yet.             *)
DropEnds == stream = "dropping" ~> stream = "none"

(* A drop waits for no time limit of curl's.  Not so: a drop between spawn   *)
(* and slot kills nothing.                                                   *)
DropKills == stream = "joining" => curl # "running"
=============================================================================
