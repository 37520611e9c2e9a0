---------------------------- MODULE DecodeThread ----------------------------
(***************************************************************************)
(* The decode thread (playback/decode.rs): one job at a time, taken from   *)
(* its command channel, decoded song after song into the stream channel    *)
(* until the job ends or another generation may sound.  It looks at its    *)
(* commands only between two jobs: what ends a job early is the epoch and  *)
(* the job's Cancel.                                                       *)
(*                                                                         *)
(* A song is a number of PCM blocks; whether another song follows without  *)
(* a gap, and whether a file reads, are choices.                           *)
(***************************************************************************)
EXTENDS Pipeline

DecodeStages == {"idle", "opening", "reading", "sending", "failed", "reporting"}

DecodeInit ==
  /\ dpc = "idle" /\ job = NoJob
  /\ left = 0 /\ joins = 0 /\ item = "End"

DecodeTyped ==
  /\ dpc \in DecodeStages /\ job \in JobRef
  /\ left \in Nat /\ joins \in Nat /\ item \in {"Pcm", "Boundary", "End"}

decodeOthers == <<epoch, hold, click, sinkQ, mainVars, sinkVars>>

JobOver ==
  /\ dpc' = "idle" /\ job' = NoJob
  /\ left' = 0 /\ joins' = 0 /\ item' = "End"

(* run: a Stop between two jobs says nothing, a Load of another generation   *)
(* than the epoch's is skipped.                                              *)
SkipCommand ==
  /\ dpc = "idle" /\ decodeQ # <<>>
  /\ Head(decodeQ).op = "Load" => Head(decodeQ).job.gen # epoch
  /\ decodeQ' = Tail(decodeQ)
  /\ UNCHANGED <<decodeOthers, streamQ, events, decodeVars>>

BeginJob ==
  /\ dpc = "idle" /\ decodeQ # <<>> /\ Head(decodeQ).op = "Load"
  /\ Head(decodeQ).job.gen = epoch
  /\ job' = Head(decodeQ).job /\ dpc' = "opening"
  /\ decodeQ' = Tail(decodeQ)
  /\ UNCHANGED <<decodeOthers, streamQ, events, left, joins, item>>

(* play: the file opens and seeks, or not.  A read can fail at any time, so  *)
(* the Cancel of a stopped job, which makes it fail, adds no step.           *)
OpenTrack(n) ==
  /\ dpc = "opening"
  /\ dpc' = "reading" /\ left' = n /\ joins' = Joins
  /\ UNCHANGED <<decodeOthers, decodeQ, streamQ, events, job, item>>

DecodeFails ==
  /\ dpc = "opening" \/ (dpc = "reading" /\ epoch = job.gen)
  /\ dpc' = "failed"
  /\ UNCHANGED <<decodeOthers, decodeQ, streamQ, events, job, left, joins, item>>

JobReplaced ==
  /\ dpc = "reading" /\ epoch # job.gen
  /\ JobOver
  /\ UNCHANGED <<decodeOthers, decodeQ, streamQ, events>>

(* The next item: a block of the song, the boundary to the next one, or the  *)
(* end of the stream.                                                        *)
Decode(kind, n) ==
  /\ dpc = "reading" /\ epoch = job.gen
  /\ CASE kind = "Pcm"      -> left > 0 /\ left' = left - 1 /\ joins' = joins
       [] kind = "Boundary" -> left = 0 /\ joins > 0 /\ left' = n /\ joins' = joins - 1
       [] kind = "End"      -> left = 0 /\ UNCHANGED <<left, joins>>
  /\ item' = kind
  /\ dpc' = "sending"
  /\ UNCHANGED <<decodeOthers, decodeQ, streamQ, events, job>>

(* send_stream_item: waits for room, gives up when the epoch moves on. *)
SendItem ==
  /\ dpc = "sending" /\ epoch = job.gen /\ Len(streamQ) < StreamCap
  /\ streamQ' = Append(streamQ, [kind |-> item, job |-> job])
  /\ IF item = "End" THEN JobOver
                          ELSE dpc' = "reading" /\ item' = "End" /\ UNCHANGED <<job, left, joins>>
  /\ UNCHANGED <<decodeOthers, decodeQ, events>>

\* Plausible bug: the wait for room does not look at the epoch.
DropItem_Never == FALSE

DropItem ==
  /\ dpc = "sending" /\ epoch # job.gen
  /\ IF item = "End" THEN JobOver
                          ELSE dpc' = "reading" /\ item' = "End" /\ UNCHANGED <<job, left, joins>>
  /\ UNCHANGED <<decodeOthers, decodeQ, streamQ, events>>

(* An error of a replaced or stopped job is not reported. *)
DecodeError ==
  /\ dpc = "failed"
  /\ IF epoch = job.gen THEN dpc' = "reporting" /\ UNCHANGED <<job, left, joins, item>>
                        ELSE JobOver
  /\ UNCHANGED <<decodeOthers, decodeQ, streamQ, events>>

DecodeReport ==
  /\ dpc = "reporting" /\ Len(events) < EventCap
  /\ events' = Append(events, [kind |-> "PlaybackError", job |-> job])
  /\ JobOver
  /\ UNCHANGED <<decodeOthers, decodeQ, streamQ>>

DecodeNext ==
  \/ SkipCommand \/ BeginJob
  \/ \E n \in 0..Blocks : OpenTrack(n)
  \/ \E kind \in {"Pcm", "Boundary", "End"}, n \in 0..Blocks : Decode(kind, n)
  \/ DecodeFails \/ JobReplaced \/ SendItem \/ DropItem \/ DecodeError \/ DecodeReport
=============================================================================
