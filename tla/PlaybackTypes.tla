--------------------------- MODULE PlaybackTypes ----------------------------
(***************************************************************************)
(* Type correctness of the playback pipeline, for every capacity and bound *)
(* and any choice of disturbances; with it, that no channel ever holds     *)
(* more than its capacity.                                                 *)
(***************************************************************************)
EXTENDS Playback, TLAPS

-----------------------------------------------------------------------------
(* Channels: sending, losing and taking keep the type and the capacity. *)
LEMMA Sent ==
  ASSUME NEW S, NEW q \in Seq(S), NEW m \in S, NEW cap \in Nat, Len(q) < cap
  PROVE  Append(q, m) \in Seq(S) /\ Len(Append(q, m)) <= cap
OBVIOUS

(* A send that may lose the message keeps the channel typed and within its capacity. *)
LEMMA Offered ==
  ASSUME NEW S, NEW q \in Seq(S), NEW m \in S, NEW cap \in Nat, Len(q) <= cap
  PROVE  Offer(q, m, cap) \in Seq(S) /\ Len(Offer(q, m, cap)) <= cap
BY DEF Offer

(* So do two of them in a row (a start invalidated, then stopped). *)
LEMMA OfferedTwice ==
  ASSUME NEW S, NEW q \in Seq(S), NEW m \in S, NEW cap \in Nat, Len(q) <= cap, NEW calls
  PROVE  OfferTimes(q, m, cap, calls) \in Seq(S) /\ Len(OfferTimes(q, m, cap, calls)) <= cap
<1>1. Offer(q, m, cap) \in Seq(S) /\ Len(Offer(q, m, cap)) <= cap
  BY Offered
<1>2. Offer(Offer(q, m, cap), m, cap) \in Seq(S) /\ Len(Offer(Offer(q, m, cap), m, cap)) <= cap
  BY <1>1, Offered
<1>3. QED
  BY <1>1, <1>2 DEF OfferTimes

(* What a thread takes from its channel, and what stays in it. *)
LEMMA Taken ==
  ASSUME NEW S, NEW q \in Seq(S), NEW cap \in Nat, Len(q) <= cap, q # <<>>
  PROVE  Head(q) \in S /\ Tail(q) \in Seq(S) /\ Len(Tail(q)) <= cap
OBVIOUS

(* An empty channel is typed. *)
LEMMA EmptyTyped ==
  ASSUME NEW S, NEW cap \in Nat
  PROVE  <<>> \in Seq(S) /\ Len(<<>>) <= cap
OBVIOUS

(* The first element of each channel has the type the channel carries. *)
LEMMA HeadsTyped ==
  ASSUME ChannelsTyped
  PROVE  /\ sinkQ # <<>> => Head(sinkQ) \in SinkCommand
         /\ decodeQ # <<>> => Head(decodeQ) \in DecodeCommand
         /\ streamQ # <<>> => Head(streamQ) \in Stream
         /\ events # <<>> => Head(events) \in Event
BY DEF ChannelsTyped

(* Commands, items and jobs have the types their channels carry. *)
LEMMA Messages ==
  /\ NoJob \in JobRef /\ StopDecoder \in DecodeCommand
  /\ Switch \in SinkCommand /\ Click \in SinkCommand
  /\ \A ask \in BOOLEAN : Stop(ask) \in SinkCommand
  /\ \A j \in JobRef : Open(j) \in SinkCommand /\ Load(j) \in DecodeCommand
BY DEF NoJob, JobRef, StopDecoder, DecodeCommand, SinkCommand, Switch, Click, Stop, Open, Load

-----------------------------------------------------------------------------
(* The sink thread. *)
LEMMA SinkThreadLeaves ==
  SinkNext => UNCHANGED <<epoch, hold, decodeQ, decodeVars, pc, resume, gen, play, seek, held,
                          pending, start, released, txn, asleep, starts, inputs>>
BY DEF SinkNext, OpenStale, OpenCurrent, DeviceOpened, ClickSinkOpened, SinkRelease, Drained,
       ClickWakes, CommandsDone, Stopped, Hold, NoHold, NothingReceived, ReceiveBoundary,
       ReceiveEnd, ReceivePcm, Write, WriteFails, NothingToWrite, NotDrained, SinkEmit,
       mainVars, sharedVars

(* Its answers to the main thread have their types. *)
LEMMA SinkAnswersTyped ==
  ASSUME MainTyped, SinkNext
  PROVE  MainTyped'
<1> USE DEF SinkNext, OpenStale, OpenCurrent, DeviceOpened, ClickSinkOpened, SinkRelease, Drained,
            ClickWakes, CommandsDone, Stopped, Hold, NoHold, NothingReceived, ReceiveBoundary,
            ReceiveEnd, ReceivePcm, Write, WriteFails, NothingToWrite, NotDrained, SinkEmit
<1>1. opened' \in {"none", "open", "failed"}
  BY DEF MainTyped, Reply, mainVars
<1>2. answer' \in {"none", "kept", "gone"}
  BY DEF MainTyped, mainVars
<1>3. QED
  BY <1>1, <1>2, SinkThreadLeaves DEF MainTyped

(* What it takes from and sends to the channels. *)
LEMMA SinkChannelsTyped ==
  ASSUME ChannelsTyped, SinkTyped, SinkNext
  PROVE  ChannelsTyped'
<1> USE DEF SinkNext, OpenStale, OpenCurrent, DeviceOpened, ClickSinkOpened, SinkRelease, Drained,
            ClickWakes, CommandsDone, Stopped, Hold, NoHold, NothingReceived, ReceiveBoundary,
            ReceiveEnd, ReceivePcm, Write, WriteFails, NothingToWrite, NotDrained, SinkEmit
<1>1. click' \in BOOLEAN
  BY DEF ChannelsTyped, sharedVars
<1>2. sinkQ' = sinkQ \/ (sinkQ # <<>> /\ sinkQ' = Tail(sinkQ))
  BY DEF sharedVars
<1>3. streamQ' = streamQ \/ (streamQ # <<>> /\ streamQ' = Tail(streamQ))
  BY DEF sharedVars
<1>4. events' = events \/ (Len(events) < EventCap /\ events' = Append(events, outbox.event))
  BY DEF sharedVars
<1>5. outbox.event \in Event
  BY DEF SinkTyped
<1>6. sinkQ' \in Seq(SinkCommand) /\ Len(sinkQ') <= SinkCap
  BY <1>2, Taken, CapacityAssumption DEF ChannelsTyped
<1>7. streamQ' \in Seq(Stream) /\ Len(streamQ') <= StreamCap
  BY <1>3, Taken, CapacityAssumption DEF ChannelsTyped
<1>8. events' \in Seq(Event) /\ Len(events') <= EventCap
  BY <1>4, <1>5, Sent, CapacityAssumption DEF ChannelsTyped
<1>9. QED
  BY <1>1, <1>6, <1>7, <1>8, SinkThreadLeaves DEF ChannelsTyped

(* Where its pass is, what it plays and what it reports. *)
LEMMA SinkPassTyped ==
  ASSUME ChannelsTyped, SinkTyped, SinkNext
  PROVE  SinkTyped'
<1>1. sinkQ # <<>> => Head(sinkQ).job \in JobRef
  BY HeadsTyped DEF SinkCommand
<1>2. streamQ # <<>> => Head(streamQ).job \in JobRef
  BY HeadsTyped DEF Stream
<1>3. NoJob \in JobRef
  BY Messages
<1>4. \A kind \in {"TrackStarted", "TrackBoundary", "TrackEnded", "PlaybackError"},
         then \in {"commands", "write", "drain"} :
        Emit(kind, then) => /\ outbox' \in [event : Event, then : {"commands", "write", "drain"}]
                            /\ spc' \in SinkStages
  BY DEF SinkTyped, Emit, Event, SinkStages
<1> USE DEF SinkTyped, SinkStages
<1>5. CASE OpenStale
  BY <1>5 DEF OpenStale, sinkVars
<1>6. ASSUME NEW reuse \in BOOLEAN, NEW prepared \in BOOLEAN, OpenCurrent(reuse, prepared)
      PROVE  SinkTyped'
  BY <1>6, <1>1, <1>3 DEF OpenCurrent, GoOn
<1>7. ASSUME NEW ok \in BOOLEAN, DeviceOpened(ok)
      PROVE  SinkTyped'
  BY <1>7, <1>3 DEF DeviceOpened, GoOn
<1>8. ASSUME NEW ok \in BOOLEAN, ClickSinkOpened(ok)
      PROVE  SinkTyped'
  BY <1>8 DEF ClickSinkOpened, GoOn
<1>9. ASSUME NEW k \in BOOLEAN, SinkRelease(k)
      PROVE  SinkTyped'
  BY <1>9, <1>3 DEF SinkRelease
<1>10. ASSUME NEW k \in BOOLEAN, Drained(k)
      PROVE  SinkTyped'
  BY <1>10, <1>4 DEF Drained
<1>11. CASE ClickWakes
  BY <1>11 DEF ClickWakes, sinkVars
<1>12. CASE CommandsDone
  BY <1>12 DEF CommandsDone, GoOn
<1>13. ASSUME NEW k \in BOOLEAN, NEW late \in BOOLEAN, Stopped(k, late)
      PROVE  SinkTyped'
  BY <1>13, <1>3 DEF Stopped, Expires, GoOn
<1>14. CASE Hold
  BY <1>14 DEF Hold, GoOn
<1>15. ASSUME NEW opens \in BOOLEAN, NoHold(opens)
      PROVE  SinkTyped'
  BY <1>15 DEF NoHold, GoOn
<1>16. CASE NothingReceived
  BY <1>16 DEF NothingReceived, GoOn
<1>17. CASE ReceiveBoundary
  BY <1>17, <1>4 DEF ReceiveBoundary, GoOn
<1>18. CASE ReceiveEnd
  BY <1>18 DEF ReceiveEnd, GoOn
<1>19. ASSUME NEW converts \in BOOLEAN, ReceivePcm(converts)
      PROVE  SinkTyped'
  BY <1>19, <1>2, <1>3, <1>4 DEF ReceivePcm, GoOn
<1>20. ASSUME NEW progress \in BOOLEAN, NEW finished \in BOOLEAN, Write(progress, finished)
      PROVE  SinkTyped'
  BY <1>20, <1>3, <1>4 DEF Write, GoOn
<1>21. CASE WriteFails
  BY <1>21, <1>3, <1>4 DEF WriteFails
<1>22. CASE NothingToWrite
  BY <1>22 DEF NothingToWrite, GoOn
<1>23. CASE NotDrained
  BY <1>23 DEF NotDrained, GoOn
<1>24. CASE SinkEmit
  BY <1>24, <1>3 DEF SinkEmit, NoOutbox, Event
<1>25. QED
  BY <1>5, <1>6, <1>7, <1>8, <1>9, <1>10, <1>11, <1>12, <1>13, <1>14, <1>15, <1>16, <1>17, <1>18, <1>19, <1>20, <1>21, <1>22, <1>23, <1>24 DEF SinkNext

-----------------------------------------------------------------------------
(* The decode thread. *)
LEMMA DecodeThreadLeaves ==
  DecodeNext => UNCHANGED <<sinkVars, mainVars, epoch, hold, click, sinkQ>>
BY DEF DecodeNext, SkipCommand, BeginJob, OpenTrack, Decode, DecodeFails, JobReplaced, SendItem,
       DropItem, DecodeError, DecodeReport, decodeOthers

(* The decode thread takes a command, sends an item or reports an error. *)
LEMMA DecodeChannelsTyped ==
  ASSUME ChannelsTyped, DecodeTyped, DecodeNext
  PROVE  ChannelsTyped'
<1> USE DEF DecodeNext, SkipCommand, BeginJob, OpenTrack, Decode, DecodeFails, JobReplaced, SendItem,
            DropItem, DecodeError, DecodeReport
<1>1. decodeQ' = decodeQ \/ (decodeQ # <<>> /\ decodeQ' = Tail(decodeQ))
  OBVIOUS
<1>2. \/ streamQ' = streamQ
      \/ Len(streamQ) < StreamCap /\ streamQ' = Append(streamQ, [kind |-> item, job |-> job])
  OBVIOUS
<1>3. \/ events' = events
      \/ Len(events) < EventCap
         /\ events' = Append(events, [kind |-> "PlaybackError", job |-> job])
  OBVIOUS
<1>4. /\ [kind |-> item, job |-> job] \in Stream
      /\ [kind |-> "PlaybackError", job |-> job] \in Event
  BY DEF DecodeTyped, Stream, Event
<1>5. decodeQ' \in Seq(DecodeCommand) /\ Len(decodeQ') <= DecodeCap
  BY <1>1, Taken, CapacityAssumption DEF ChannelsTyped
<1>6. streamQ' \in Seq(Stream) /\ Len(streamQ') <= StreamCap
  BY <1>2, <1>4, Sent, CapacityAssumption DEF ChannelsTyped
<1>7. events' \in Seq(Event) /\ Len(events') <= EventCap
  BY <1>3, <1>4, Sent, CapacityAssumption DEF ChannelsTyped
<1>8. QED
  BY <1>5, <1>6, <1>7, DecodeThreadLeaves DEF ChannelsTyped

(* Its job, its counters and its stage keep their types. *)
LEMMA DecodeJobTyped ==
  ASSUME ChannelsTyped, DecodeTyped, DecodeNext
  PROVE  DecodeTyped'
<1>1. decodeQ # <<>> => Head(decodeQ).job \in JobRef
  BY HeadsTyped DEF DecodeCommand
<1>2. JobOver => DecodeTyped'
  BY Messages DEF JobOver, DecodeTyped, DecodeStages
<1>3. CASE SkipCommand \/ BeginJob \/ DecodeFails \/ DecodeError
  BY <1>1, <1>2, <1>3 DEF SkipCommand, BeginJob, DecodeFails, DecodeError, decodeVars, DecodeTyped,
                          DecodeStages
<1>4. CASE JobReplaced \/ DecodeReport
  BY <1>2, <1>4 DEF JobReplaced, DecodeReport
<1>5. CASE SendItem \/ DropItem
  BY <1>2, <1>5 DEF SendItem, DropItem, DecodeTyped, DecodeStages
<1>6. ASSUME NEW n \in 0..Blocks, OpenTrack(n)
      PROVE  DecodeTyped'
  BY <1>6, BoundAssumption DEF OpenTrack, DecodeTyped, DecodeStages
<1>7. ASSUME NEW kind \in {"Pcm", "Boundary", "End"}, NEW n \in 0..Blocks, Decode(kind, n)
      PROVE  DecodeTyped'
  <2>1. CASE kind = "Pcm"
    BY <1>7, <2>1 DEF Decode, DecodeTyped, DecodeStages
  <2>2. CASE kind = "Boundary"
    BY <1>7, <2>2 DEF Decode, DecodeTyped, DecodeStages
  <2>3. CASE kind = "End"
    BY <1>7, <2>3 DEF Decode, DecodeTyped, DecodeStages
  <2>4. QED
    BY <1>7, <2>1, <2>2, <2>3
<1>8. QED
  BY <1>3, <1>4, <1>5, <1>6, <1>7 DEF DecodeNext

-----------------------------------------------------------------------------
(* The main thread: its calls of Playback. *)
CallTyped ==
  /\ epoch \in Nat /\ hold \in BOOLEAN /\ click \in BOOLEAN
  /\ sinkQ \in Seq(SinkCommand) /\ Len(sinkQ) <= SinkCap
  /\ decodeQ \in Seq(DecodeCommand) /\ Len(decodeQ) <= DecodeCap
  /\ start \in JobRef /\ opened \in {"none", "open", "failed"} /\ released \in BOOLEAN

(* Every call of Playback keeps the shared state, and the start in progress, typed. *)
LEMMA CallsTyped ==
  ASSUME ChannelsTyped, MainTyped
  PROVE  /\ CallTyped
         /\ NoCall => CallTyped'
         /\ \A g \in Nat, calls \in 1..2 : PlaybackStop(g, calls) => CallTyped'
         /\ \A t \in Txn : Release(t) => CallTyped'
<1>1. CallTyped
  BY DEF ChannelsTyped, MainTyped, CallTyped
<1>2. NoCall => CallTyped'
  BY <1>1 DEF CallTyped, NoCall
<1>3. ASSUME NEW g \in Nat, NEW calls \in 1..2, PlaybackStop(g, calls)
      PROVE  CallTyped'
  <2>1. /\ OfferTimes(sinkQ, Stop(FALSE), SinkCap, calls) \in Seq(SinkCommand)
        /\ Len(OfferTimes(sinkQ, Stop(FALSE), SinkCap, calls)) <= SinkCap
    BY <1>1, OfferedTwice, Messages, CapacityAssumption DEF CallTyped
  <2>2. /\ OfferTimes(decodeQ, StopDecoder, DecodeCap, calls) \in Seq(DecodeCommand)
        /\ Len(OfferTimes(decodeQ, StopDecoder, DecodeCap, calls)) <= DecodeCap
    BY <1>1, OfferedTwice, Messages, CapacityAssumption DEF CallTyped
  <2>3. QED
    BY <1>1, <1>3, <2>1, <2>2, Messages DEF CallTyped, PlaybackStop
<1>4. ASSUME NEW t \in Txn, Release(t)
      PROVE  CallTyped'
  BY <1>1, <1>4, Messages DEF CallTyped, Release, Txn
<1>5. QED
  BY <1>1, <1>2, <1>3, <1>4

-----------------------------------------------------------------------------
(* The main thread: its own state, the start in progress apart. *)
OwnTyped ==
  /\ pc \in MainStages \cup Blocked /\ resume \in MainStages
  /\ gen \in Nat /\ play \in PlayStates
  /\ seek \in BOOLEAN /\ held \in BOOLEAN
  /\ pending \in Pending /\ txn \in Txn /\ answer \in {"none", "kept", "gone"}
  /\ asleep \in BOOLEAN /\ starts \in Nat /\ inputs \in Nat

(* The main thread's own part of its types. *)
LEMMA OwnStateTyped ==
  ASSUME MainTyped
  PROVE  OwnTyped
BY DEF MainTyped, OwnTyped

(* The records the main thread resets to, and the playback state of a failure. *)
LEMMA Records ==
  /\ NoTxn \in Txn /\ NoPending \in Pending
  /\ \A p \in PlayStates : FailedPlay(p) \in PlayStates
BY DEF NoTxn, Txn, NoPending, Pending, PlayStates, FailedPlay

(* What a release without a load is for. *)
LEMMA ReleasesTyped ==
  ASSUME NEW why \in {"hold", "release", "repair", "sleep"}, NEW g \in Nat
  PROVE  [NoTxn EXCEPT !.why = why, !.gen = g] \in Txn
BY Records DEF Txn

(* Dropped receivers leave as many commands, of the same type. *)
LEMMA UnaskedTyped ==
  ASSUME sinkQ \in Seq(SinkCommand)
  PROVE  Unasked \in Seq(SinkCommand) /\ Len(Unasked) = Len(sinkQ)
<1>1. \A i \in 1..Len(sinkQ) : [sinkQ[i] EXCEPT !.ask = FALSE] \in SinkCommand
  <2>1. \A i \in 1..Len(sinkQ) : sinkQ[i] \in SinkCommand
    OBVIOUS
  <2>2. QED
    BY <2>1 DEF SinkCommand
<1>2. Len(sinkQ) \in Nat /\ DOMAIN sinkQ = 1..Len(sinkQ)
  OBVIOUS
<1>3. Unasked \in [1..Len(sinkQ) -> SinkCommand]
  BY <1>1, <1>2 DEF Unasked
<1>4. QED
  BY <1>2, <1>3

(* A load that fails after its release. *)
LEMMA LoadFailsTyped ==
  ASSUME ChannelsTyped, MainTyped, LoadFails
  PROVE  CallTyped' /\ OwnTyped'
<1>1. OwnTyped
  BY OwnStateTyped
<1>2. txn.gen + 1 \in Nat /\ FailedPlay(txn.play) \in PlayStates
  BY <1>1, Records DEF OwnTyped, Txn
<1>3. CallTyped'
  BY <1>2, CallsTyped DEF LoadFails
<1>4. OwnTyped'
  BY <1>1, <1>2, Records DEF LoadFails, OwnTyped
<1>5. QED
  BY <1>3, <1>4

(* What ends or continues a blocking release. *)
LEMMA ReleaseOverTyped ==
  ASSUME OwnTyped, NEW ok \in BOOLEAN, ReleaseOver(ok)
  PROVE  asleep' \in BOOLEAN /\ pc' \in MainStages \cup Blocked /\ txn' \in Txn
<1>1. asleep' \in BOOLEAN
  BY DEF ReleaseOver, OwnTyped
<1>2. pc' \in MainStages \cup Blocked
  BY DEF ReleaseOver, OwnTyped, Blocked
<1>3. txn' \in Txn
  BY Records DEF ReleaseOver, OwnTyped, Txn
<1>4. QED
  BY <1>1, <1>2, <1>3

(* The sink's answer, to a load or to another release. *)
LEMMA SinkAnsweredTyped ==
  ASSUME ChannelsTyped, MainTyped, NEW fits \in BOOLEAN, SinkAnswered(fits)
  PROVE  CallTyped' /\ OwnTyped'
<1>0. CallTyped /\ OwnTyped
  BY CallsTyped, OwnStateTyped
<1>1. decodeQ' \in Seq(DecodeCommand) /\ Len(decodeQ') <= DecodeCap
  BY <1>0, Offered, Messages, CapacityAssumption DEF SinkAnswered, CallTyped
<1>2. CallTyped'
  BY <1>0, <1>1 DEF SinkAnswered, CallTyped, ReleaseOver
<1>3. CASE txn.why = "load"
  <2>1. txn' \in Txn
    BY <1>0, <1>3 DEF SinkAnswered, OwnTyped, Txn
  <2>2. pc' \in MainStages \cup Blocked
    BY <1>0, <1>3 DEF SinkAnswered, Blocked
  <2>3. OwnTyped'
    BY <1>0, <1>3, <2>1, <2>2 DEF SinkAnswered, OwnTyped
  <2>4. QED
    BY <1>2, <2>3
<1>4. CASE txn.why # "load"
  <2>1. asleep' \in BOOLEAN /\ pc' \in MainStages \cup Blocked /\ txn' \in Txn
    BY <1>0, <1>4, ReleaseOverTyped DEF SinkAnswered
  <2>2. QED
    BY <1>0, <1>2, <1>4, <2>1 DEF SinkAnswered, OwnTyped
<1>5. QED
  BY <1>2, <1>3, <1>4

(* A release that times out, before or after its command was sent. *)
LEMMA ReleaseTimesOutTyped ==
  ASSUME ChannelsTyped, MainTyped, ReleaseTimesOut
  PROVE  CallTyped' /\ OwnTyped'
<1>0. CallTyped /\ OwnTyped
  BY CallsTyped, OwnStateTyped
<1>1. Unasked \in Seq(SinkCommand) /\ Len(Unasked) <= SinkCap
  BY <1>0, UnaskedTyped DEF CallTyped
<1>2. sinkQ' \in Seq(SinkCommand) /\ Len(sinkQ') <= SinkCap
  BY <1>1, Offered, Messages, CapacityAssumption DEF ReleaseTimesOut
<1>3. decodeQ' \in Seq(DecodeCommand) /\ Len(decodeQ') <= DecodeCap
  <2>1. StopDecoder \in DecodeCommand /\ DecodeCap \in Nat
        /\ decodeQ \in Seq(DecodeCommand) /\ Len(decodeQ) <= DecodeCap
    BY <1>0, Messages, CapacityAssumption DEF CallTyped
  <2>2. /\ Offer(decodeQ, StopDecoder, DecodeCap) \in Seq(DecodeCommand)
        /\ Len(Offer(decodeQ, StopDecoder, DecodeCap)) <= DecodeCap
    BY <2>1, Offered
  <2>3. \A calls : /\ OfferTimes(decodeQ, StopDecoder, DecodeCap, calls) \in Seq(DecodeCommand)
                   /\ Len(OfferTimes(decodeQ, StopDecoder, DecodeCap, calls)) <= DecodeCap
    BY <2>1, OfferedTwice
  <2>4. CASE txn.why = "load"
    <3>1. decodeQ' = OfferTimes(decodeQ, StopDecoder, DecodeCap, IF pc = "asking" THEN 1 ELSE 2)
      BY <2>4 DEF ReleaseTimesOut
    <3>2. QED
      BY <2>3, <3>1
  <2>5. CASE txn.why # "load"
    <3>1. decodeQ' = IF pc = "asking" THEN decodeQ ELSE Offer(decodeQ, StopDecoder, DecodeCap)
      BY <2>5 DEF ReleaseTimesOut
    <3>2. QED
      BY <2>1, <2>2, <3>1
  <2>6. QED
    BY <2>4, <2>5
<1>4. CASE txn.why = "load"
  <2>1. txn.gen + 1 \in Nat /\ FailedPlay(txn.play) \in PlayStates
    BY <1>0, Records DEF OwnTyped, Txn
  <2>2. CallTyped'
    BY <1>0, <1>2, <1>3, <1>4, <2>1, Messages DEF ReleaseTimesOut, CallTyped
  <2>3. OwnTyped'
    BY <1>0, <1>4, <2>1, Records DEF ReleaseTimesOut, OwnTyped
  <2>4. QED
    BY <2>2, <2>3
<1>5. CASE txn.why # "load"
  <2>1. asleep' \in BOOLEAN /\ pc' \in MainStages \cup Blocked /\ txn' \in Txn
    BY <1>0, <1>5, ReleaseOverTyped DEF ReleaseTimesOut
  <2>2. CallTyped'
    BY <1>0, <1>2, <1>3, <1>5 DEF ReleaseTimesOut, CallTyped, ReleaseOver
  <2>3. OwnTyped'
    BY <1>0, <1>5, <2>1 DEF ReleaseTimesOut, OwnTyped
  <2>4. QED
    BY <2>2, <2>3
<1>6. QED
  BY <1>4, <1>5

(* A start: the command to open, and the snapshot to go back to. *)
LEMMA StartSentTyped ==
  ASSUME ChannelsTyped, MainTyped, MayOpen, StartSent
  PROVE  CallTyped' /\ OwnTyped'
<1>0. CallTyped /\ OwnTyped
  BY CallsTyped, OwnStateTyped
<1> DEFINE j == [id |-> starts, gen |-> txn.gen]
<1>1. j \in JobRef
  BY <1>0 DEF OwnTyped, Txn, JobRef
<1>2. sinkQ' = Append(sinkQ, Open(j)) /\ Len(sinkQ) < SinkCap
  BY DEF StartSent, SendOpen, MayOpen
<1>3. sinkQ' \in Seq(SinkCommand) /\ Len(sinkQ') <= SinkCap
  BY <1>0, <1>1, <1>2, Sent, Messages, CapacityAssumption DEF CallTyped
<1>4. CallTyped'
  BY <1>0, <1>1, <1>3 DEF StartSent, SendOpen, CallTyped
<1>5. pending' \in Pending
  BY <1>0 DEF StartSent, OwnTyped, Txn, Pending
<1>6. OwnTyped'
  BY <1>0, <1>5, Records DEF StartSent, OwnTyped, Txn, PlayStates
<1>7. QED
  BY <1>4, <1>6

(* It is sent or refused. *)
LEMMA BeginStartTyped ==
  ASSUME ChannelsTyped, MainTyped, BeginStart
  PROVE  CallTyped' /\ OwnTyped'
BY StartSentTyped, LoadFailsTyped DEF BeginStart

(* The remaining steps of a release and of a start. *)
LEMMA StartStepsTyped ==
  ASSUME ChannelsTyped, MainTyped,
         AskSink \/ RepairStops \/ Planned \/ PlanFails \/ StartOpened \/ NextStage
  PROVE  CallTyped' /\ OwnTyped'
<1>0. CallTyped /\ OwnTyped
  BY CallsTyped, OwnStateTyped
<1>1. CASE AskSink
  <2>1. sinkQ' \in Seq(SinkCommand) /\ Len(sinkQ') <= SinkCap
    BY <1>0, <1>1, Sent, Messages, CapacityAssumption DEF AskSink, CallTyped
  <2>2. QED
    BY <1>0, <1>1, <2>1 DEF AskSink, CallTyped, OwnTyped, Blocked
<1>2. CASE RepairStops
  BY <1>0, <1>2, CallsTyped, Records DEF RepairStops, OwnTyped
<1>3. CASE Planned
  BY <1>0, <1>3 DEF Planned, OwnTyped, CallTyped, Blocked
<1>4. CASE PlanFails
  BY <1>4, LoadFailsTyped DEF PlanFails
<1>5. CASE StartOpened
  <2>1. decodeQ' \in Seq(DecodeCommand) /\ Len(decodeQ') <= DecodeCap
    BY <1>0, <1>5, Sent, Messages, CapacityAssumption DEF StartOpened, CallTyped
  <2>2. QED
    BY <1>0, <1>5, <2>1, Messages, Records DEF StartOpened, CallTyped, OwnTyped, Went, MainStages
<1>6. CASE NextStage
  BY <1>0, <1>6, CallsTyped DEF NextStage, OwnTyped, MainStages
<1>7. QED
  BY <1>1, <1>2, <1>3, <1>4, <1>5, <1>6

-----------------------------------------------------------------------------
(* What inputs, events and control steps share. *)
LEMMA BeginLoadTyped ==
  ASSUME ChannelsTyped, MainTyped, pc \in MainStages,
         NEW before \in Nat, NEW was \in PlayStates, NEW song \in BOOLEAN,
         BeginLoad(before, was, song)
  PROVE  /\ CallTyped' /\ gen' \in Nat /\ starts' \in Nat
         /\ pc' \in MainStages \cup Blocked /\ resume' \in MainStages
         /\ txn' \in Txn /\ answer' \in {"none", "kept", "gone"}
<1> DEFINE t == [why |-> "load", cmd |-> "Switch", song |-> song, gen |-> NextGeneration(before),
                 was |-> gen, play |-> was]
<1>1. t \in Txn
  BY DEF Txn, NextGeneration, MainTyped
<1>2. Release(t)
  BY DEF BeginLoad
<1>3. CallTyped'
  BY <1>1, <1>2, CallsTyped
<1>4. QED
  BY <1>1, <1>2, <1>3 DEF BeginLoad, Release, MainTyped, Blocked

(* A release sends nothing yet. *)
LEMMA ReleaseTyped ==
  ASSUME ChannelsTyped, MainTyped, NEW t \in Txn, Release(t)
  PROVE  CallTyped' /\ pc' \in MainStages \cup Blocked /\ txn' \in Txn
         /\ answer' \in {"none", "kept", "gone"}
BY CallsTyped DEF Release, Blocked

(* A stop past the generation the model has. *)
LEMMA StopSinkingTyped ==
  ASSUME ChannelsTyped, MainTyped, NEW before \in Nat, NEW state \in PlayStates,
         StopSinking(before, state)
  PROVE  CallTyped' /\ gen' \in Nat /\ play' \in PlayStates
BY CallsTyped DEF StopSinking

(* A step that only moves the pass on. *)
LEMMA WentTyped ==
  ASSUME MainTyped, NEW stage \in MainStages, Went(stage)
  PROVE  /\ pc' \in MainStages \cup Blocked /\ resume' \in MainStages
         /\ txn' \in Txn /\ answer' \in {"none", "kept", "gone"}
BY DEF Went, MainTyped

(* Both pauses, in place and giving the sink back. *)
LEMMA PausesTyped ==
  ASSUME ChannelsTyped, MainTyped, NEW g \in Nat, NEW state \in PlayStates,
         PauseInPlace(g, state) \/ PauseReleasing(g, state)
  PROVE  /\ CallTyped' /\ gen' \in Nat /\ play' \in PlayStates
         /\ seek' \in BOOLEAN /\ held' \in BOOLEAN
<1>1. CASE PauseInPlace(g, state)
  BY <1>1, CallsTyped DEF PauseInPlace, CallTyped, MainTyped
<1>2. CASE PauseReleasing(g, state)
  BY <1>2, StopSinkingTyped DEF PauseReleasing
<1>3. QED
  BY <1>1, <1>2

(* The generation an abandoned start goes back to. *)
LEMMA AbandonedTyped ==
  ASSUME MainTyped
  PROVE  /\ Abandoned \in Nat /\ (Abandon => pending' \in Pending)
         /\ {"Playing", "Paused", "Stopped", "Error"} \subseteq PlayStates
         /\ pending.gen \in Nat /\ pending.song \in BOOLEAN
         /\ pending.play \in PlayStates /\ FailedPlay(pending.play) \in PlayStates
         /\ play \in PlayStates
BY Records DEF MainTyped, Abandoned, Abandon, Pending, PlayStates

(* pause, whichever branch it takes. *)
LEMMA PauseTyped ==
  ASSUME ChannelsTyped, MainTyped, NEW state \in PlayStates, NEW keeps \in BOOLEAN,
         Pause(state, keeps)
  PROVE  /\ CallTyped' /\ gen' \in Nat /\ play' \in PlayStates
         /\ seek' \in BOOLEAN /\ held' \in BOOLEAN /\ pending' \in Pending
<1>1. gen \in Nat /\ Abandoned \in Nat /\ pending' \in Pending
  BY AbandonedTyped DEF Pause, MainTyped
<1>2. QED
  BY <1>1, PausesTyped DEF Pause

(* release_hold, with or without a held pause. *)
LEMMA ReleaseHoldTyped ==
  ASSUME ChannelsTyped, MainTyped, ReleaseHold
  PROVE  CallTyped' /\ gen' \in Nat /\ play' \in PlayStates /\ held' \in BOOLEAN
<1>1. gen \in Nat /\ play \in PlayStates
  BY DEF MainTyped
<1>2. CASE hold
  BY <1>1, <1>2, StopSinkingTyped DEF ReleaseHold
<1>3. CASE ~hold
  BY <1>1, <1>3, CallsTyped DEF ReleaseHold
<1>4. QED
  BY <1>2, <1>3

-----------------------------------------------------------------------------
(* The start of a pass. *)
LEMMA PassTyped ==
  ASSUME ChannelsTyped, MainTyped,
         HoldLimit \/ (\E why \in {"refused", "late", "lost"} : StartFails(why))
           \/ (\E refused \in BOOLEAN : ApplySeek(refused))
  PROVE  CallTyped' /\ OwnTyped'
<1>0. OwnTyped /\ gen \in Nat /\ play \in PlayStates
  BY OwnStateTyped DEF OwnTyped
<1>1. CASE HoldLimit
  BY <1>0, <1>1, ReleaseHoldTyped, WentTyped DEF HoldLimit, OwnTyped, MainStages
<1>2. ASSUME NEW why \in {"refused", "late", "lost"}, StartFails(why)
      PROVE  CallTyped' /\ OwnTyped'
  <2>1. pending.gen + 1 \in Nat /\ FailedPlay(pending.play) \in PlayStates
    BY AbandonedTyped
  <2>2. CallTyped'
    BY <1>2, <2>1, CallsTyped DEF StartFails
  <2>3. Went("seek")
    BY <1>2 DEF StartFails
  <2>4. QED
    BY <1>0, <1>2, <2>1, <2>2, <2>3, WentTyped, Records DEF StartFails, OwnTyped, MainStages
<1>3. ASSUME NEW refused \in BOOLEAN, ApplySeek(refused)
      PROVE  CallTyped' /\ OwnTyped'
  <2>1. CASE Active /\ ~refused
    <3>1. BeginLoad(gen, play, TRUE) /\ pc \in MainStages /\ TRUE \in BOOLEAN
      BY <1>3, <2>1 DEF ApplySeek, MainStages
    <3>2. QED
      BY <1>0, <1>3, <2>1, <3>1, BeginLoadTyped DEF ApplySeek, OwnTyped
  <2>2. CASE ~(Active /\ ~refused)
    <3>1. NoCall /\ Went("seek") /\ "seek" \in MainStages
      BY <1>3, <2>2 DEF ApplySeek, MainStages
    <3>2. QED
      BY <1>0, <1>3, <2>2, <3>1, CallsTyped, WentTyped DEF ApplySeek, OwnTyped
  <2>3. QED
    BY <2>1, <2>2
<1>4. QED
  BY <1>1, <1>2, <1>3

-----------------------------------------------------------------------------
(* Inputs. *)
LEMMA InputsTyped ==
  ASSUME ChannelsTyped, MainTyped,
         \/ TogglePause \/ ResumeInPlace \/ StepWhileStarting \/ StopAtEnd \/ StopPlayback \/ SeekBy
         \/ \E steps \in 0..1, song \in BOOLEAN : PlaySong(steps, song)
         \/ WheelClick \/ SleepRequest
  PROVE  CallTyped' /\ OwnTyped'
<1>0. OwnTyped /\ CallTyped /\ gen \in Nat /\ play \in PlayStates /\ pending.song \in BOOLEAN
  BY OwnStateTyped, CallsTyped, AbandonedTyped DEF OwnTyped
<1>s. /\ {"seek", "input", "events", "control"} \subseteq MainStages
      /\ {"Playing", "Paused", "Stopped", "Error"} \subseteq PlayStates
      /\ TRUE \in BOOLEAN /\ FALSE \in BOOLEAN
  BY DEF MainStages, PlayStates
<1>i. Input /\ InputRest => pc \in MainStages /\ inputs' \in Nat /\ asleep' \in BOOLEAN
  BY <1>0, <1>s DEF Input, InputRest, OwnTyped
<1>1. CASE TogglePause
  <2>1. Pause("Paused", pending.song) /\ Went("input")
    BY <1>1 DEF TogglePause
  <2>2. QED
    BY <1>0, <1>s, <1>i, <1>1, <2>1, PauseTyped, WentTyped DEF TogglePause, OwnTyped
<1>2. CASE ResumeInPlace
  BY <1>0, <1>s, <1>i, <1>2, WentTyped DEF ResumeInPlace, OwnTyped, CallTyped
<1>3. CASE StepWhileStarting
  BY <1>0, <1>s, <1>i, <1>3, WentTyped DEF StepWhileStarting, OwnTyped, CallTyped
<1>4. CASE StopAtEnd
  BY <1>0, <1>s, <1>i, <1>4, StopSinkingTyped, WentTyped DEF StopAtEnd, OwnTyped
<1>5. CASE StopPlayback
  <2>1. Pause("Stopped", FALSE) /\ Went("input")
    BY <1>5 DEF StopPlayback
  <2>2. QED
    BY <1>0, <1>s, <1>i, <1>5, <2>1, PauseTyped, WentTyped DEF StopPlayback, OwnTyped
<1>6. CASE SeekBy
  <2>1. CASE Active
    BY <1>0, <1>s, <1>i, <1>6, <2>1, WentTyped DEF SeekBy, OwnTyped, CallTyped
  <2>2. CASE ~Active
    BY <1>0, <1>s, <1>i, <1>6, <2>2, ReleaseHoldTyped, WentTyped DEF SeekBy, OwnTyped
  <2>3. QED
    BY <2>1, <2>2
<1>7. ASSUME NEW steps \in 0..1, NEW song \in BOOLEAN, PlaySong(steps, song)
      PROVE  CallTyped' /\ OwnTyped'
  <2>1. gen + steps \in Nat /\ BeginLoad(gen + steps, play, song)
    BY <1>0, <1>7 DEF PlaySong
  <2>2. QED
    BY <1>0, <1>i, <1>7, <2>1, BeginLoadTyped DEF PlaySong, OwnTyped
<1>8. CASE WheelClick
  <2>1. sinkQ' \in Seq(SinkCommand) /\ Len(sinkQ') <= SinkCap
    BY <1>0, <1>8, Offered, Messages, CapacityAssumption DEF WheelClick, CallTyped
  <2>2. QED
    BY <1>0, <1>s, <1>i, <1>8, <2>1, WentTyped DEF WheelClick, OwnTyped, CallTyped
<1>9. CASE SleepRequest
  <2> DEFINE g == IF hold THEN gen + 1 ELSE gen
             t == [NoTxn EXCEPT !.why = IF hold THEN "hold" ELSE "release", !.gen = g]
  <2>0. g \in Nat /\ (IF hold THEN "hold" ELSE "release") \in {"hold", "release", "repair", "sleep"}
    BY <1>0
  <2>1. g \in Nat /\ t \in Txn
    BY <2>0, ReleasesTyped
  <2>2. Release(t)
    BY <1>9 DEF SleepRequest
  <2>3. CallTyped' /\ pc' \in MainStages \cup Blocked /\ txn' \in Txn
        /\ answer' \in {"none", "kept", "gone"}
    BY <2>1, <2>2, ReleaseTyped
  <2>4. QED
    BY <1>0, <1>i, <1>9, <2>1, <2>3 DEF SleepRequest, OwnTyped
<1>10. QED
  BY <1>1, <1>2, <1>3, <1>4, <1>5, <1>6, <1>7, <1>8, <1>9

(* A card repair, in each of its three cases. *)
LEMMA SdRepairTyped ==
  ASSUME ChannelsTyped, MainTyped, SdRepair
  PROVE  CallTyped' /\ OwnTyped'
<1>0. OwnTyped /\ gen \in Nat /\ play \in PlayStates /\ Abandoned \in Nat
  BY OwnStateTyped, AbandonedTyped DEF OwnTyped
<1>s. "input" \in MainStages /\ "Paused" \in PlayStates
  BY DEF MainStages, PlayStates
<1>i. pc \in MainStages /\ inputs' \in Nat /\ asleep' \in BOOLEAN /\ starts' = starts
  BY <1>0, <1>s DEF SdRepair, Input, InputRest, OwnTyped
<1>1. CASE InPlace \/ (play # "Playing" /\ hold)
  <2> DEFINE t == [NoTxn EXCEPT !.why = "repair", !.gen = gen + 1]
  <2>0. gen + 1 \in Nat
    BY <1>0
  <2>1. t \in Txn
    BY <2>0, ReleasesTyped
  <2>2. /\ gen' = gen + 1 /\ held' = FALSE /\ play' = (IF InPlace THEN "Paused" ELSE play)
        /\ Release(t) /\ resume' = pc /\ UNCHANGED <<seek, pending>>
    BY <1>1 DEF SdRepair, InPlace
  <2>3. CallTyped' /\ pc' \in MainStages \cup Blocked /\ txn' \in Txn
        /\ answer' \in {"none", "kept", "gone"}
    BY <2>1, <2>2, ReleaseTyped
  <2>4. QED
    BY <1>0, <1>s, <1>i, <2>0, <2>2, <2>3 DEF OwnTyped
<1>2. CASE play = "Playing" /\ ~InPlace
  <2>1. /\ gen' = Abandoned + 1 /\ play' = "Paused" /\ seek' = FALSE /\ held' = FALSE /\ Abandon
        /\ PlaybackStop(Abandoned + 1, 2) /\ Went("input")
    BY <1>2 DEF SdRepair, InPlace
  <2>2. Abandoned + 1 \in Nat /\ 2 \in 1..2
    BY <1>0
  <2>3. QED
    BY <1>0, <1>s, <1>i, <2>1, <2>2, CallsTyped, WentTyped, AbandonedTyped DEF OwnTyped
<1>3. CASE play # "Playing" /\ ~hold
  <2>1. held' = FALSE /\ PlaybackStop(gen, 1) /\ Went("input") /\ UNCHANGED <<gen, play, seek, pending>>
    BY <1>3 DEF SdRepair, InPlace
  <2>2. 1 \in 1..2
    OBVIOUS
  <2>3. QED
    BY <1>0, <1>s, <1>i, <2>1, <2>2, CallsTyped, WentTyped DEF OwnTyped
<1>4. QED
  BY <1>1, <1>2, <1>3

(* Events. *)
LEMMA EventsTyped ==
  ASSUME ChannelsTyped, MainTyped,
         \/ StaleEvent \/ TrackStarted \/ PlaybackError
         \/ \E found \in BOOLEAN : TrackBoundary(found)
         \/ \E next, again \in BOOLEAN : TrackEnded(next, again)
  PROVE  CallTyped' /\ OwnTyped'
<1>0. OwnTyped /\ CallTyped /\ gen \in Nat /\ play \in PlayStates
  BY OwnStateTyped, CallsTyped DEF OwnTyped
<1>s. /\ "events" \in MainStages /\ TRUE \in BOOLEAN
      /\ {"Playing", "Buffering", "Stopped", "Error"} \subseteq PlayStates
  BY DEF MainStages, PlayStates
<1>1. CASE StaleEvent
  BY <1>0, <1>1, CallsTyped DEF StaleEvent, OwnTyped
<1>2. CASE TrackStarted
  BY <1>0, <1>s, <1>2, CallsTyped, WentTyped DEF TrackStarted, TakesEvent, OwnTyped
<1>3. CASE PlaybackError
  BY <1>0, <1>s, <1>3, StopSinkingTyped, WentTyped DEF PlaybackError, TakesEvent, OwnTyped
<1>4. ASSUME NEW found \in BOOLEAN, TrackBoundary(found)
      PROVE  CallTyped' /\ OwnTyped'
  BY <1>0, <1>s, <1>4, CallsTyped, WentTyped DEF TrackBoundary, TakesEvent, OwnTyped
<1>5. ASSUME NEW next \in BOOLEAN, NEW again \in BOOLEAN, TrackEnded(next, again)
      PROVE  CallTyped' /\ OwnTyped'
  <2>1. CASE (next \/ again) /\ ~pending.on
    <3> DEFINE before == IF again THEN gen ELSE gen + 1
    <3>0. before \in Nat
      BY <1>0
    <3>1. BeginLoad(before, "Stopped", TRUE) /\ pc \in MainStages
      BY <1>s, <1>5, <2>1 DEF TrackEnded, TakesEvent
    <3>2. CallTyped' /\ gen' \in Nat /\ starts' \in Nat /\ pc' \in MainStages \cup Blocked
          /\ resume' \in MainStages /\ txn' \in Txn /\ answer' \in {"none", "kept", "gone"}
      BY <1>s, <3>0, <3>1, BeginLoadTyped
    <3>3. QED
      BY <1>0, <1>s, <1>5, <3>2 DEF TrackEnded, TakesEvent, OwnTyped
  <2>2. CASE ~((next \/ again) /\ ~pending.on)
    <3>1. NoCall /\ Went("events") /\ UNCHANGED <<gen, starts>>
      BY <1>5, <2>2 DEF TrackEnded
    <3>2. QED
      BY <1>0, <1>s, <1>5, <3>1, CallsTyped, WentTyped DEF TrackEnded, TakesEvent, OwnTyped
  <2>3. QED
    BY <2>1, <2>2
<1>6. QED
  BY <1>1, <1>2, <1>3, <1>4, <1>5

(* Bluetooth, storage and sleep. *)
LEMMA ControlsTyped ==
  ASSUME ChannelsTyped, MainTyped,
         \/ TransportMoves \/ TransportFails \/ PrepareSleep \/ RestoreSleep
         \/ \E ours \in BOOLEAN : PeerLost(ours)
         \/ \E offline \in BOOLEAN : SourceChange(offline) \/ CardRemoved(offline)
  PROVE  CallTyped' /\ OwnTyped'
<1>0. /\ OwnTyped /\ CallTyped /\ gen \in Nat /\ play \in PlayStates
      /\ Abandoned \in Nat /\ Abandoned + 1 \in Nat /\ Abandoned + 2 \in Nat
      /\ pending.play \in PlayStates /\ (Abandon => pending' \in Pending)
  BY OwnStateTyped, CallsTyped, AbandonedTyped DEF OwnTyped
<1>s. /\ "control" \in MainStages /\ TRUE \in BOOLEAN /\ 2 \in 1..2
      /\ {"Paused", "Error"} \subseteq PlayStates
  BY DEF MainStages, PlayStates
<1>i. /\ Control => pc \in MainStages /\ inputs' \in Nat
      /\ InputRest => asleep' \in BOOLEAN
  BY <1>0, <1>s DEF Control, InputRest, OwnTyped
<1>1. CASE TransportMoves
  <2>1. BeginLoad(gen, play, TRUE) /\ pc \in MainStages
    BY <1>i, <1>1 DEF TransportMoves
  <2>2. QED
    BY <1>0, <1>s, <1>i, <1>1, <2>1, BeginLoadTyped DEF TransportMoves, OwnTyped
<1>2. CASE TransportFails
  <2>1. StopSinking(Abandoned, "Error") /\ Went("control")
    BY <1>2 DEF TransportFails
  <2>2. QED
    BY <1>0, <1>s, <1>i, <1>2, <2>1, StopSinkingTyped, WentTyped DEF TransportFails, OwnTyped
<1>3. CASE PrepareSleep
  <2> DEFINE t == [NoTxn EXCEPT !.why = "sleep", !.gen = gen]
  <2>1. t \in Txn /\ Release(t)
    BY <1>0, <1>3, ReleasesTyped DEF PrepareSleep
  <2>2. CallTyped' /\ pc' \in MainStages \cup Blocked /\ txn' \in Txn
        /\ answer' \in {"none", "kept", "gone"}
    BY <2>1, ReleaseTyped
  <2>3. QED
    BY <1>0, <1>i, <1>3, <2>2 DEF PrepareSleep, OwnTyped
<1>4. CASE RestoreSleep
  BY <1>0, <1>s, <1>i, <1>4, CallsTyped, WentTyped DEF RestoreSleep, OwnTyped
<1>5. ASSUME NEW ours \in BOOLEAN, PeerLost(ours)
      PROVE  CallTyped' /\ OwnTyped'
  <2>1. \/ PauseReleasing(Abandoned + 1, "Paused")
        \/ PauseInPlace(Abandoned, "Paused") \/ PauseReleasing(Abandoned, "Paused")
    BY <1>5 DEF PeerLost
  <2>2. /\ CallTyped' /\ gen' \in Nat /\ play' \in PlayStates
        /\ seek' \in BOOLEAN /\ held' \in BOOLEAN
    BY <1>0, <1>s, <2>1, PausesTyped
  <2>3. QED
    BY <1>0, <1>s, <1>i, <1>5, <2>2, WentTyped DEF PeerLost, OwnTyped
<1>6. ASSUME NEW offline \in BOOLEAN, SourceChange(offline)
      PROVE  CallTyped' /\ OwnTyped'
  <2>1. CASE offline
    BY <1>0, <1>s, <1>i, <1>6, <2>1, StopSinkingTyped, WentTyped DEF SourceChange, OwnTyped
  <2>2. CASE ~offline
    BY <1>0, <1>s, <1>i, <1>6, <2>2, CallsTyped, WentTyped DEF SourceChange, OwnTyped
  <2>3. QED
    BY <2>1, <2>2
<1>7. ASSUME NEW offline \in BOOLEAN, CardRemoved(offline)
      PROVE  CallTyped' /\ OwnTyped'
  <2>1. \/ PauseInPlace(gen, "Paused") \/ PauseReleasing(Abandoned, "Paused")
        \/ held' = TRUE /\ UNCHANGED seek /\ StopSinking(gen, "Paused")
        \/ /\ gen' = Abandoned + 2 /\ play' = "Paused" /\ seek' = FALSE /\ held' = FALSE
           /\ PlaybackStop(Abandoned + 2, 2)
    BY <1>7 DEF CardRemoved
  <2>2. CallTyped' /\ gen' \in Nat /\ play' \in PlayStates /\ seek' \in BOOLEAN /\ held' \in BOOLEAN
    <3>1. CASE PauseInPlace(gen, "Paused") \/ PauseReleasing(Abandoned, "Paused")
      BY <1>0, <1>s, <3>1, PausesTyped
    <3>2. CASE held' = TRUE /\ UNCHANGED seek /\ StopSinking(gen, "Paused")
      BY <1>0, <1>s, <3>2, StopSinkingTyped DEF OwnTyped
    <3>3. CASE /\ gen' = Abandoned + 2 /\ play' = "Paused" /\ seek' = FALSE /\ held' = FALSE
               /\ PlaybackStop(Abandoned + 2, 2)
      BY <1>0, <1>s, <3>3, CallsTyped
    <3>4. QED
      BY <2>1, <3>1, <3>2, <3>3
  <2>3. QED
    BY <1>0, <1>s, <1>i, <1>7, <2>2, WentTyped DEF CardRemoved, OwnTyped
<1>8. QED
  BY <1>1, <1>2, <1>3, <1>4, <1>5, <1>6, <1>7

(* Every step of the main thread. *)
LEMMA TransportLeaves ==
  TransportNext => /\ UNCHANGED <<sinkVars, decodeVars, streamQ>>
                   /\ events' = events \/ (events # <<>> /\ events' = Tail(events))
BY DEF TransportNext, AskSink, ReleaseTimesOut, RepairStops, Planned, PlanFails, BeginStart,
       StartSent, SinkAnswered, NextStage, StartOpened, HoldLimit, StartFails, ApplySeek,
       TogglePause, ResumeInPlace, StepWhileStarting, StopAtEnd, StopPlayback, SeekBy, PlaySong,
       WheelClick, SleepRequest, SdRepair, StaleEvent, TrackStarted, PlaybackError, TrackBoundary,
       TrackEnded, TransportMoves, TransportFails, PeerLost, SourceChange, CardRemoved,
       PrepareSleep, RestoreSleep, LoadFails, InputRest, TakesEvent, elsewhere

(* Every step of the main thread. *)
LEMMA TransportTyped ==
  ASSUME ChannelsTyped, MainTyped, TransportNext
  PROVE  ChannelsTyped' /\ MainTyped'
<1>1. CallTyped' /\ OwnTyped'
  BY StartStepsTyped, ReleaseTimesOutTyped, BeginStartTyped, SinkAnsweredTyped, PassTyped,
     InputsTyped, SdRepairTyped, EventsTyped, ControlsTyped DEF TransportNext
<1>2. streamQ' = streamQ /\ (events' = events \/ (events # <<>> /\ events' = Tail(events)))
  BY TransportLeaves
<1>3. events' \in Seq(Event) /\ Len(events') <= EventCap
  BY <1>2, Taken, CapacityAssumption DEF ChannelsTyped
<1>4. ChannelsTyped'
  BY <1>1, <1>2, <1>3 DEF CallTyped, ChannelsTyped
<1>5. MainTyped'
  BY <1>1 DEF CallTyped, OwnTyped, MainTyped
<1>6. QED
  BY <1>4, <1>5

-----------------------------------------------------------------------------
(* Every variable of the pipeline keeps its type and every channel its        *)
(* capacity, whatever the three threads do and in whatever order.             *)
THEOREM PipelineTypes == Spec => []TypeOK
<1>1. Init => TypeOK
  <2> SUFFICES ASSUME Init
               PROVE  TypeOK
    OBVIOUS
  <2>1. ChannelsTyped
    <3>1. SinkCap \in Nat /\ DecodeCap \in Nat /\ StreamCap \in Nat /\ EventCap \in Nat
      BY CapacityAssumption
    <3>2. /\ sinkQ \in Seq(SinkCommand) /\ Len(sinkQ) <= SinkCap
          /\ decodeQ \in Seq(DecodeCommand) /\ Len(decodeQ) <= DecodeCap
          /\ streamQ \in Seq(Stream) /\ Len(streamQ) <= StreamCap
          /\ events \in Seq(Event) /\ Len(events) <= EventCap
      BY <3>1, EmptyTyped DEF Init
    <3>3. QED
      BY <3>2 DEF Init, ChannelsTyped
  <2>2. MainTyped
    BY Messages, Records DEF Init, TransportInit, MainTyped, MainStages, PlayStates
  <2>3. SinkTyped
    BY Messages DEF Init, SinkInit, SinkTyped, SinkStages, NoOutbox, Event
  <2>4. DecodeTyped
    BY Messages DEF Init, DecodeInit, DecodeTyped, DecodeStages
  <2>5. QED
    BY <2>1, <2>2, <2>3, <2>4 DEF TypeOK
<1>2. TypeOK /\ [Next]_vars => TypeOK'
  <2> SUFFICES ASSUME ChannelsTyped, MainTyped, SinkTyped, DecodeTyped, [Next]_vars
               PROVE  ChannelsTyped' /\ MainTyped' /\ SinkTyped' /\ DecodeTyped'
    BY DEF TypeOK
  <2>1. CASE SinkNext
    <3>1. DecodeTyped'
      BY <2>1, SinkThreadLeaves DEF DecodeTyped, decodeVars
    <3>2. QED
      BY <2>1, <3>1, SinkAnswersTyped, SinkChannelsTyped, SinkPassTyped
  <2>2. CASE DecodeNext
    <3>1. SinkTyped' /\ MainTyped'
      BY <2>2, DecodeThreadLeaves DEF SinkTyped, sinkVars, MainTyped, mainVars
    <3>2. QED
      BY <2>2, <3>1, DecodeChannelsTyped, DecodeJobTyped
  <2>3. CASE TransportNext
    <3>1. SinkTyped' /\ DecodeTyped'
      BY <2>3, TransportLeaves DEF SinkTyped, sinkVars, DecodeTyped, decodeVars
    <3>2. QED
      BY <2>3, <3>1, TransportTyped
  <2>4. CASE UNCHANGED vars
    BY <2>4 DEF vars, sharedVars, mainVars, sinkVars, decodeVars, ChannelsTyped, MainTyped,
                SinkTyped, DecodeTyped
  <2>5. QED
    BY <2>1, <2>2, <2>3, <2>4 DEF Next
<1>3. QED
  BY <1>1, <1>2, PTL DEF Spec
=============================================================================
