--------------------------- MODULE PlaybackProofs ---------------------------
(***************************************************************************)
(* Proofs about the device and its guard, for every capacity, bound and    *)
(* choice of disturbances: one device is open at a time, and once a        *)
(* release is acknowledged nothing plays, opens or waits to open, whatever *)
(* timed out, failed or was abandoned before.  Without wheel clicks the    *)
(* pipeline implements the exclusive device of AudioDevice.                *)
(***************************************************************************)
EXTENDS PlaybackTypes

-----------------------------------------------------------------------------
(* One device: the sink thread alone opens it, and it drops the one it has. *)
LEMMA OneDeviceStep ==
  ASSUME SinkTyped, OneDevice, SinkNext
  PROVE  OneDevice'
<1> USE DEF OneDevice
<1>1. CASE OpenStale
  BY <1>1 DEF OpenStale, sinkVars
<1>2. ASSUME NEW reuse \in BOOLEAN, NEW prepared \in BOOLEAN, OpenCurrent(reuse, prepared)
      PROVE  OneDevice'
  BY <1>2 DEF OpenCurrent, GoOn
<1>3. ASSUME NEW ok \in BOOLEAN, DeviceOpened(ok) \/ ClickSinkOpened(ok)
      PROVE  OneDevice'
  BY <1>3 DEF DeviceOpened, ClickSinkOpened, GoOn
<1>4. ASSUME NEW k \in BOOLEAN, SinkRelease(k) \/ Drained(k)
      PROVE  OneDevice'
  BY <1>4 DEF SinkRelease, Drained, Emit
<1>5. ASSUME NEW k \in BOOLEAN, NEW late \in BOOLEAN, Stopped(k, late)
      PROVE  OneDevice'
  BY <1>5 DEF Stopped, KeepSink, Expires, GoOn
<1>6. CASE Hold
  BY <1>6 DEF Hold, GoOn
<1>7. ASSUME NEW opens \in BOOLEAN, NoHold(opens)
      PROVE  OneDevice'
  BY <1>7 DEF NoHold, ClickOpens, GoOn
<1>8. CASE NothingReceived \/ ReceiveBoundary \/ ReceiveEnd
  BY <1>8 DEF NothingReceived, ReceiveBoundary, ReceiveEnd, Emit, GoOn
<1>9. ASSUME NEW converts \in BOOLEAN, ReceivePcm(converts)
      PROVE  OneDevice'
  BY <1>9 DEF ReceivePcm, Emit, GoOn
<1>10. ASSUME NEW progress \in BOOLEAN, NEW finished \in BOOLEAN, Write(progress, finished)
       PROVE  OneDevice'
  BY <1>10 DEF Write, Emit, GoOn
<1>11. CASE ClickWakes \/ CommandsDone \/ WriteFails \/ NothingToWrite \/ NotDrained
  BY <1>11 DEF ClickWakes, CommandsDone, WriteFails, NothingToWrite, NotDrained, Emit, GoOn, sinkVars
<1>12. CASE SinkEmit
  BY <1>12 DEF SinkEmit, SinkTyped
<1>13. QED
  BY <1>1, <1>2, <1>3, <1>4, <1>5, <1>6, <1>7, <1>8, <1>9, <1>10, <1>11, <1>12 DEF SinkNext

LEMMA OneDeviceStays ==
  ASSUME SinkTyped, OneDevice, [Next]_vars
  PROVE  OneDevice'
<1>1. CASE SinkNext
  BY <1>1, OneDeviceStep
<1>2. CASE DecodeNext
  BY <1>2, DecodeThreadLeaves DEF OneDevice, sinkVars
<1>3. CASE TransportNext
  BY <1>3, TransportLeaves DEF OneDevice, sinkVars
<1>4. CASE UNCHANGED vars
  BY <1>4 DEF vars, sinkVars, OneDevice
<1>5. QED
  BY <1>1, <1>2, <1>3, <1>4 DEF Next

(* At most one audio device is open at any time: the sink that plays, the     *)
(* kept one, the one being opened for a stream or for a wheel click.          *)
THEOREM DeviceIsOne == Spec => []OneDevice
<1>1. Init => OneDevice
  BY DEF Init, SinkInit, OneDevice
<1>2. TypeOK /\ OneDevice /\ [Next]_vars => OneDevice'
  BY OneDeviceStays DEF TypeOK
<1>3. QED
  BY <1>1, <1>2, PipelineTypes, PTL DEF Spec

-----------------------------------------------------------------------------
(* The acknowledged release.  The strengthening: an answer that waits was     *)
(* given by a silent sink thread, and the command that asks for one is the    *)
(* last of its channel, since the main thread waits for it.                   *)
NoOpen(q) == \A i \in 1..Len(q) : q[i].op # "Open"
NoAsk(q)  == \A i \in 1..Len(q) : ~q[i].ask

Silent == ~sink /\ spc # "opening" /\ NoOpen(sinkQ)

AskIsLast ==
  \A i \in 1..Len(sinkQ) : sinkQ[i].ask => i = Len(sinkQ) /\ pc = "waiting" /\ answer = "none"

Released ==
  /\ released => Silent
  /\ answer # "none" => Silent /\ pc = "waiting"
  /\ AskIsLast

(* Taking the first command, sending another one. *)
LEMMA TailCommands ==
  ASSUME NEW S, NEW q \in Seq(S), q # <<>>
  PROVE  /\ Len(q) \in Nat \ {0} /\ Len(Tail(q)) = Len(q) - 1 /\ Head(q) = q[1]
         /\ \A i \in 1..Len(Tail(q)) : Tail(q)[i] = q[i + 1] /\ i + 1 \in 1..Len(q)
OBVIOUS

(* No command to open appears by taking another one. *)
LEMMA TailKeeps ==
  ASSUME NEW S, NEW q \in Seq(S), q # <<>>, NoOpen(q)
  PROVE  NoOpen(Tail(q)) /\ Head(q).op # "Open"
<1>1. \A i \in 1..Len(Tail(q)) : Tail(q)[i] = q[i + 1] /\ i + 1 \in 1..Len(q)
  BY TailCommands
<1>2. Head(q) = q[1] /\ 1 \in 1..Len(q)
  BY TailCommands
<1>3. QED
  BY <1>1, <1>2 DEF NoOpen

(* Nor by sending one that is no such command; the others keep their place. *)
LEMMA SentCommands ==
  ASSUME NEW q \in Seq(SinkCommand), NEW c \in SinkCommand
  PROVE  /\ NoOpen(q) /\ c.op # "Open" => NoOpen(Append(q, c))
         /\ NoAsk(q) /\ ~c.ask => NoAsk(Append(q, c))
         /\ \A i \in 1..Len(Append(q, c)) : i # Len(Append(q, c)) => i \in 1..Len(q) /\ Append(q, c)[i] = q[i]
<1>1. /\ Len(Append(q, c)) = Len(q) + 1 /\ Len(q) \in Nat
      /\ Append(q, c)[Len(q) + 1] = c
      /\ \A i \in 1..Len(q) : Append(q, c)[i] = q[i]
  OBVIOUS
<1>2. QED
  BY <1>1 DEF NoOpen, NoAsk

(* A stop, or two, neither opens nor asks. *)
LEMMA StopCommands ==
  ASSUME ChannelsTyped, NEW calls \in 1..2
  PROVE  LET q == OfferTimes(sinkQ, Stop(FALSE), SinkCap, calls)
         IN  (NoOpen(sinkQ) => NoOpen(q)) /\ (NoAsk(sinkQ) => NoAsk(q))
<1> DEFINE c == Stop(FALSE)
           o == Offer(sinkQ, c, SinkCap)
<1>1. c \in SinkCommand /\ c.op # "Open" /\ ~c.ask
  BY Messages DEF Stop
<1>2. o \in Seq(SinkCommand) /\ sinkQ \in Seq(SinkCommand)
  BY <1>1, Offered, CapacityAssumption DEF ChannelsTyped
<1>3. (NoOpen(sinkQ) => NoOpen(o)) /\ (NoAsk(sinkQ) => NoAsk(o))
  BY <1>1, <1>2, SentCommands DEF Offer
<1>4. (NoOpen(o) => NoOpen(Offer(o, c, SinkCap))) /\ (NoAsk(o) => NoAsk(Offer(o, c, SinkCap)))
  <2>1. Offer(o, c, SinkCap) = Append(o, c) \/ Offer(o, c, SinkCap) = o
    BY DEF Offer
  <2>2. QED
    BY <1>1, <1>2, <2>1, SentCommands
<1>5. QED
  BY <1>3, <1>4 DEF OfferTimes

(* A silent sink thread stays silent until it is asked to open. *)
LEMMA SilentStays ==
  ASSUME ChannelsTyped, SinkTyped, Silent, SinkNext
  PROVE  Silent'
<1>1. sinkQ' = sinkQ \/ (sinkQ # <<>> /\ sinkQ' = Tail(sinkQ))
  BY DEF SinkNext, OpenStale, OpenCurrent, DeviceOpened, ClickSinkOpened, SinkRelease, Drained,
         ClickWakes, CommandsDone, Stopped, Hold, NoHold, NothingReceived, ReceiveBoundary,
         ReceiveEnd, ReceivePcm, Write, WriteFails, NothingToWrite, NotDrained, SinkEmit, sharedVars
<1>2. NoOpen(sinkQ') /\ (sinkQ # <<>> => Head(sinkQ).op # "Open")
  BY <1>1, TailKeeps DEF Silent, ChannelsTyped
<1>3. /\ ~OpenStale
      /\ \A reuse, prepared \in BOOLEAN : ~OpenCurrent(reuse, prepared)
      /\ \A ok \in BOOLEAN : ~DeviceOpened(ok)
  BY <1>2 DEF Silent, OpenStale, OpenCurrent, DeviceOpened
<1>4. ~sink' /\ spc' # "opening"
  <2> USE DEF Silent, GoOn, Emit
  <2>1. ASSUME NEW b \in BOOLEAN, ClickSinkOpened(b) \/ SinkRelease(b) \/ Drained(b) \/ NoHold(b)
        PROVE  ~sink' /\ spc' # "opening"
    BY <2>1 DEF ClickSinkOpened, SinkRelease, Drained, NoHold
  <2>2. ASSUME NEW b \in BOOLEAN, ReceivePcm(b)
        PROVE  ~sink' /\ spc' # "opening"
    BY <2>2 DEF ReceivePcm
  <2>3. ASSUME NEW k \in BOOLEAN, NEW late \in BOOLEAN, Stopped(k, late)
        PROVE  ~sink' /\ spc' # "opening"
    BY <2>3 DEF Stopped
  <2>4. ASSUME NEW progress \in BOOLEAN, NEW finished \in BOOLEAN, Write(progress, finished)
        PROVE  ~sink' /\ spc' # "opening"
    BY <2>4 DEF Write
  <2>5. CASE ClickWakes
    BY <2>5 DEF ClickWakes, sinkVars
  <2>6. CASE CommandsDone
    BY <2>6 DEF CommandsDone
  <2>7. CASE NothingReceived \/ WriteFails
    BY <2>7 DEF NothingReceived, WriteFails
  <2>8. CASE NothingToWrite \/ NotDrained
    BY <2>8 DEF NothingToWrite, NotDrained
  <2>9. CASE ReceiveBoundary \/ ReceiveEnd
    BY <2>9 DEF ReceiveBoundary, ReceiveEnd
  <2>10. CASE SinkEmit
    BY <2>10 DEF SinkEmit, SinkTyped
  <2>11. ~Hold
    BY DEF Hold
  <2>12. QED
    BY <1>3, <2>1, <2>2, <2>3, <2>4, <2>5, <2>6, <2>7, <2>8, <2>9, <2>10, <2>11 DEF SinkNext
<1>5. QED
  BY <1>2, <1>4 DEF Silent

(* The sink thread's steps: an answer is given with the last command taken, *)
(* every device closed or kept.                                             *)
LEMMA SinkKeepsReleased ==
  ASSUME ChannelsTyped, SinkTyped, Released, SinkNext
  PROVE  Released'
<1>1. pc' = pc /\ released' = released
  BY SinkThreadLeaves
<1>2. released' => Silent'
  BY <1>1, SilentStays DEF Released
<1>3. \/ answer' = answer
      \/ /\ sinkQ # <<>> /\ Head(sinkQ).ask /\ sinkQ' = Tail(sinkQ)
         /\ ~sink' /\ spc' = "commands"
  BY DEF SinkNext, OpenStale, OpenCurrent, DeviceOpened, ClickSinkOpened, SinkRelease, Drained,
         ClickWakes, CommandsDone, Stopped, Hold, NoHold, NothingReceived, ReceiveBoundary,
         ReceiveEnd, ReceivePcm, Write, WriteFails, NothingToWrite, NotDrained, SinkEmit, mainVars
<1>4. sinkQ' = sinkQ \/ (sinkQ # <<>> /\ sinkQ' = Tail(sinkQ))
  BY DEF SinkNext, OpenStale, OpenCurrent, DeviceOpened, ClickSinkOpened, SinkRelease, Drained,
         ClickWakes, CommandsDone, Stopped, Hold, NoHold, NothingReceived, ReceiveBoundary,
         ReceiveEnd, ReceivePcm, Write, WriteFails, NothingToWrite, NotDrained, SinkEmit, sharedVars
<1>5. sinkQ # <<>> =>
        /\ Len(sinkQ) \in Nat \ {0} /\ Len(Tail(sinkQ)) = Len(sinkQ) - 1 /\ Head(sinkQ) = sinkQ[1]
        /\ \A i \in 1..Len(Tail(sinkQ)) : Tail(sinkQ)[i] = sinkQ[i + 1] /\ i + 1 \in 1..Len(sinkQ)
  BY TailCommands DEF ChannelsTyped
<1>6. CASE answer' = answer
  <2>1. answer' # "none" => Silent' /\ pc' = "waiting"
    BY <1>1, <1>6, SilentStays DEF Released
  <2>2. CASE sinkQ' = sinkQ
    BY <1>1, <1>2, <1>6, <2>1, <2>2 DEF Released, AskIsLast
  <2>3. CASE sinkQ # <<>> /\ sinkQ' = Tail(sinkQ)
    <3>1. ASSUME NEW i \in 1..Len(Tail(sinkQ)), Tail(sinkQ)[i].ask
          PROVE  i = Len(Tail(sinkQ)) /\ pc = "waiting" /\ answer = "none"
      <4>1. sinkQ[i + 1].ask /\ i + 1 \in 1..Len(sinkQ)
        BY <1>5, <2>3, <3>1
      <4>2. i + 1 = Len(sinkQ) /\ pc = "waiting" /\ answer = "none"
        BY <4>1 DEF Released, AskIsLast
      <4>3. QED
        BY <1>5, <2>3, <4>2
    <3>2. AskIsLast'
      BY <1>1, <1>6, <2>3, <3>1 DEF AskIsLast
    <3>3. QED
      BY <1>2, <2>1, <3>2 DEF Released
  <2>4. QED
    BY <1>4, <2>2, <2>3
<1>7. CASE sinkQ # <<>> /\ Head(sinkQ).ask /\ sinkQ' = Tail(sinkQ) /\ ~sink' /\ spc' = "commands"
  <2>1. 1 \in 1..Len(sinkQ) /\ sinkQ[1].ask
    BY <1>5, <1>7
  <2>2. Len(sinkQ) = 1 /\ pc = "waiting"
    BY <2>1 DEF Released, AskIsLast
  <2>3. Len(sinkQ') = 0
    BY <1>5, <1>7, <2>2
  <2>4. NoOpen(sinkQ') /\ AskIsLast'
    BY <2>3 DEF NoOpen, AskIsLast
  <2>5. QED
    BY <1>1, <1>2, <1>7, <2>2, <2>4 DEF Released, Silent
<1>8. QED
  BY <1>3, <1>6, <1>7

-----------------------------------------------------------------------------
(* What the main thread sends outside a release and a start: nothing that    *)
(* opens, nothing that asks, and a click only where there is a wheel.        *)
Sends ==
  /\ released' = released /\ (click' = click \/ "Click" \in Disturbances)
  /\ \/ sinkQ' = sinkQ
     \/ sinkQ' = OfferTimes(sinkQ, Stop(FALSE), SinkCap, 1)
     \/ sinkQ' = OfferTimes(sinkQ, Stop(FALSE), SinkCap, 2)
     \/ sinkQ' = Offer(sinkQ, Click, SinkCap)

(* It keeps a silent sink thread silent, and asks nothing. *)
LEMMA SendsKeep ==
  ASSUME ChannelsTyped, Sends
  PROVE  (NoOpen(sinkQ) => NoOpen(sinkQ')) /\ (NoAsk(sinkQ) => NoAsk(sinkQ'))
<1>1. /\ Click \in SinkCommand /\ Click.op # "Open" /\ ~Click.ask
      /\ sinkQ \in Seq(SinkCommand)
  BY Messages DEF Click, ChannelsTyped
<1>2. CASE sinkQ' = Offer(sinkQ, Click, SinkCap)
  BY <1>1, <1>2, SentCommands DEF Offer
<1>3. ASSUME NEW calls \in 1..2, sinkQ' = OfferTimes(sinkQ, Stop(FALSE), SinkCap, calls)
      PROVE  (NoOpen(sinkQ) => NoOpen(sinkQ')) /\ (NoAsk(sinkQ) => NoAsk(sinkQ'))
  BY <1>3, StopCommands
<1>4. CASE sinkQ' = sinkQ
  BY <1>4
<1>5. 1 \in 1..2 /\ 2 \in 1..2
  OBVIOUS
<1>6. QED
  BY <1>2, <1>3, <1>4, <1>5 DEF Sends

(* Every call of Playback but the start sends no more than that. *)
LEMMA CallsSend ==
  /\ NoCall => Sends
  /\ \A g : PlaybackStop(g, 1) => Sends
  /\ \A g : PlaybackStop(g, 2) => Sends
  /\ \A t : Release(t) => Sends /\ answer' = "none" /\ pc' # "planning"
BY DEF NoCall, PlaybackStop, Release, Sends

(* The main thread does one of these four only in a release; otherwise it is *)
(* not waiting, sends no more than that, and does not begin a plan.          *)
LEMMA MainSends ==
  ASSUME MainTyped, TransportNext
  PROVE  \/ AskSink \/ (pc = "starting" /\ MayOpen /\ StartSent) \/ ReleaseTimesOut \/ (\E fits \in BOOLEAN : SinkAnswered(fits))
         \/ pc # "waiting" /\ Sends /\ answer' \in {answer, "none"} /\ pc' # "planning"
<1> DEFINE Quiet == pc # "waiting" /\ Sends /\ answer' \in {answer, "none"} /\ pc' # "planning"
<1>0. resume # "planning"
  BY DEF MainTyped, MainStages
<1> USE <1>0
<1>1. ASSUME NEW before, NEW was, NEW song, BeginLoad(before, was, song)
      PROVE  Sends /\ answer' = "none" /\ pc' # "planning"
  BY <1>1, CallsSend DEF BeginLoad, Release
<1>2. ASSUME NEW before, NEW state, StopSinking(before, state)
      PROVE  Sends
  BY <1>2, CallsSend DEF StopSinking
<1>3. ASSUME NEW g, NEW state, PauseInPlace(g, state) \/ PauseReleasing(g, state)
      PROVE  Sends
  BY <1>2, <1>3 DEF PauseInPlace, PauseReleasing, Sends
<1>4. ASSUME NEW state, NEW keeps, Pause(state, keeps)
      PROVE  Sends
  BY <1>3, <1>4 DEF Pause
<1>5. ReleaseHold => Sends
  BY <1>2, CallsSend DEF ReleaseHold
<1>6. CASE RepairStops
  BY <1>6, CallsSend DEF RepairStops
<1>7. CASE Planned
  BY <1>7 DEF Planned, Sends
<1>8. CASE PlanFails
  BY <1>8, CallsSend DEF PlanFails, LoadFails
<1>9. CASE NextStage
  BY <1>9, CallsSend DEF NextStage, MainStages
<1>10. CASE StartOpened
  BY <1>10 DEF StartOpened, Went, Sends
<1>11. CASE HoldLimit
  BY <1>5, <1>11 DEF HoldLimit, Went
<1>12. ASSUME NEW why \in {"refused", "late", "lost"}, StartFails(why)
       PROVE  Quiet
  <2>1. \E g : PlaybackStop(g, 1) \/ PlaybackStop(g, 2)
    BY <1>12 DEF StartFails
  <2>2. QED
    BY <1>12, <2>1, CallsSend DEF StartFails, Went
<1>13. ASSUME NEW refused \in BOOLEAN, ApplySeek(refused)
       PROVE  Quiet
  BY <1>1, <1>13, CallsSend DEF ApplySeek, Went
<1>14. CASE TogglePause \/ StopPlayback
  BY <1>4, <1>14 DEF TogglePause, StopPlayback, Input, Went
<1>15. CASE ResumeInPlace
  BY <1>15 DEF ResumeInPlace, Input, Went, Sends
<1>16. CASE StepWhileStarting
  BY <1>16 DEF StepWhileStarting, Input, Went, Sends
<1>17. CASE StopAtEnd
  BY <1>2, <1>17 DEF StopAtEnd, Input, Went
<1>18. CASE SeekBy
  BY <1>5, <1>18 DEF SeekBy, Input, Went, Sends
<1>19. ASSUME NEW steps \in 0..1, NEW song \in BOOLEAN, PlaySong(steps, song)
       PROVE  Quiet
  BY <1>1, <1>19 DEF PlaySong, Input
<1>20. CASE WheelClick
  BY <1>20 DEF WheelClick, Input, Went, Sends
<1>21. CASE SleepRequest
  BY <1>21, CallsSend DEF SleepRequest, Input
<1>22. CASE SdRepair
  <2>1. \/ \E t : Release(t)
        \/ (\E g : PlaybackStop(g, 1) \/ PlaybackStop(g, 2)) /\ answer' = answer /\ pc' # "planning"
    BY <1>22 DEF SdRepair, Went
  <2>2. QED
    BY <1>22, <2>1, CallsSend DEF SdRepair, Input
<1>23. CASE StaleEvent
  BY <1>23, CallsSend DEF StaleEvent
<1>24. CASE TrackStarted
  BY <1>24, CallsSend DEF TrackStarted, TakesEvent, Went
<1>25. CASE PlaybackError
  BY <1>2, <1>25 DEF PlaybackError, TakesEvent, Went
<1>26. ASSUME NEW found \in BOOLEAN, TrackBoundary(found)
       PROVE  Quiet
  BY <1>26, CallsSend DEF TrackBoundary, TakesEvent, Went
<1>27. ASSUME NEW next \in BOOLEAN, NEW again \in BOOLEAN, TrackEnded(next, again)
       PROVE  Quiet
  BY <1>1, <1>27, CallsSend DEF TrackEnded, TakesEvent, Went
<1>28. CASE TransportMoves
  BY <1>1, <1>28 DEF TransportMoves, Control
<1>29. CASE TransportFails
  BY <1>2, <1>29 DEF TransportFails, Control, Went
<1>30. ASSUME NEW ours \in BOOLEAN, PeerLost(ours)
       PROVE  Quiet
  <2>1. \E g : PauseInPlace(g, "Paused") \/ PauseReleasing(g, "Paused")
    BY <1>30 DEF PeerLost
  <2>2. QED
    BY <1>3, <1>30, <2>1 DEF PeerLost, Control, Went
<1>31. ASSUME NEW offline \in BOOLEAN, SourceChange(offline)
       PROVE  Quiet
  BY <1>2, <1>31, CallsSend DEF SourceChange, Control, Went
<1>32. ASSUME NEW offline \in BOOLEAN, CardRemoved(offline)
       PROVE  Quiet
  <2>1. \/ \E g : PauseInPlace(g, "Paused") \/ PauseReleasing(g, "Paused")
        \/ \E g : StopSinking(g, "Paused")
        \/ \E g : PlaybackStop(g, 2)
    BY <1>32 DEF CardRemoved
  <2>2. QED
    BY <1>2, <1>3, <1>32, <2>1, CallsSend DEF CardRemoved, Control, Went
<1>33. CASE PrepareSleep
  BY <1>33, CallsSend DEF PrepareSleep, Control
<1>34. CASE RestoreSleep
  BY <1>34, CallsSend DEF RestoreSleep, Control, Went
<1>35. CASE BeginStart
  BY <1>35, CallsSend DEF BeginStart, LoadFails
<1>36. QED
  BY <1>6, <1>7, <1>8, <1>9, <1>10, <1>11, <1>12, <1>13, <1>14, <1>15, <1>16, <1>17, <1>18, <1>19,
     <1>20, <1>21, <1>22, <1>23, <1>24, <1>25, <1>26, <1>27, <1>28, <1>29, <1>30, <1>31, <1>32,
     <1>33, <1>34, <1>35 DEF TransportNext

(* A dropped receiver: the command stays, nobody is told. *)
LEMMA UnaskedCommands ==
  ASSUME sinkQ \in Seq(SinkCommand)
  PROVE  /\ Unasked \in Seq(SinkCommand) /\ NoAsk(Unasked)
         /\ NoOpen(sinkQ) => NoOpen(Unasked)
<1>1. Unasked \in Seq(SinkCommand) /\ Len(Unasked) = Len(sinkQ)
  BY UnaskedTyped
<1>2. ASSUME NEW i \in 1..Len(sinkQ)
      PROVE  Unasked[i].op = sinkQ[i].op /\ ~Unasked[i].ask
  <2>1. sinkQ[i] \in SinkCommand /\ DOMAIN sinkQ = 1..Len(sinkQ)
    OBVIOUS
  <2>2. Unasked[i] = [sinkQ[i] EXCEPT !.ask = FALSE]
    BY <2>1 DEF Unasked
  <2>3. QED
    BY <2>1, <2>2 DEF SinkCommand
<1>3. QED
  BY <1>1, <1>2 DEF NoAsk, NoOpen

(* The main thread's steps. *)
LEMMA MainKeepsReleased ==
  ASSUME ChannelsTyped, MainTyped, Released, TransportNext
  PROVE  Released'
<1>1. sink' = sink /\ spc' = spc
  BY TransportLeaves DEF sinkVars
<1>2. sinkQ \in Seq(SinkCommand) /\ Len(sinkQ) \in Nat
  BY DEF ChannelsTyped
<1>3. pc # "waiting" => NoAsk(sinkQ) /\ answer = "none"
  BY DEF Released, AskIsLast, NoAsk
<1>4. CASE pc # "waiting" /\ Sends /\ answer' \in {answer, "none"}
  <2>1. NoAsk(sinkQ') /\ (NoOpen(sinkQ) => NoOpen(sinkQ'))
    BY <1>3, <1>4, SendsKeep
  <2>2. QED
    BY <1>1, <1>3, <1>4, <2>1 DEF Released, Silent, AskIsLast, NoAsk, Sends
<1>5. CASE AskSink
  <2> DEFINE c == IF txn.cmd = "Stop" THEN Stop(TRUE) ELSE Switch
  <2>1. c \in SinkCommand /\ c.op # "Open" /\ sinkQ' = Append(sinkQ, c) /\ pc' = "waiting"
        /\ answer' = answer /\ released' = released /\ pc # "waiting"
    BY <1>5, Messages DEF AskSink, Stop, Switch
  <2>2. NoOpen(sinkQ) => NoOpen(sinkQ')
    BY <1>2, <2>1, SentCommands
  <2>3. ASSUME NEW i \in 1..Len(sinkQ'), sinkQ'[i].ask
        PROVE  i = Len(sinkQ')
    BY <1>2, <1>3, <2>1, <2>3, SentCommands DEF NoAsk
  <2>4. AskIsLast'
    BY <1>3, <2>1, <2>3 DEF AskIsLast
  <2>5. QED
    BY <1>1, <1>3, <2>1, <2>2, <2>4 DEF Released, Silent
<1>6. CASE pc = "starting" /\ MayOpen /\ StartSent
  <2> DEFINE j == [id |-> starts, gen |-> txn.gen]
  <2>1. sinkQ' = Append(sinkQ, Open(j)) /\ ~released' /\ answer' = answer /\ pc # "waiting"
    BY <1>6 DEF StartSent, SendOpen
  <2>2. Open(j) \in SinkCommand /\ ~Open(j).ask
    <3>1. j \in JobRef
      BY DEF MainTyped, Txn, JobRef
    <3>2. QED
      BY <3>1, Messages DEF Open
  <2>3. NoAsk(sinkQ')
    BY <1>2, <1>3, <2>1, <2>2, SentCommands
  <2>4. QED
    BY <1>3, <2>1, <2>3 DEF Released, AskIsLast, NoAsk
<1>7. CASE ReleaseTimesOut
  <2>1. answer' = "none" /\ released' = released
    BY <1>7 DEF ReleaseTimesOut
  <2>2. sinkQ' = Unasked \/ sinkQ' = Offer(Unasked, Stop(FALSE), SinkCap)
    BY <1>7 DEF ReleaseTimesOut
  <2>3. Stop(FALSE) \in SinkCommand /\ Stop(FALSE).op # "Open" /\ ~Stop(FALSE).ask
    BY Messages DEF Stop
  <2>4. NoAsk(sinkQ') /\ (NoOpen(sinkQ) => NoOpen(sinkQ'))
    BY <1>2, <2>2, <2>3, UnaskedCommands, SentCommands DEF Offer
  <2>5. QED
    BY <1>1, <2>1, <2>4 DEF Released, Silent, AskIsLast, NoAsk
<1>8. ASSUME NEW fits \in BOOLEAN, SinkAnswered(fits)
      PROVE  Released'
  <2>1. pc = "waiting" /\ answer # "none" /\ sinkQ' = sinkQ /\ answer' = "none"
    BY <1>8 DEF SinkAnswered
  <2>2. Silent' /\ NoAsk(sinkQ')
    BY <1>1, <2>1 DEF Released, Silent, AskIsLast, NoAsk
  <2>3. QED
    BY <2>1, <2>2 DEF Released, AskIsLast, NoAsk
<1>9. QED
  BY <1>4, <1>5, <1>6, <1>7, <1>8, MainSends

LEMMA ReleasedStays ==
  ASSUME ChannelsTyped, MainTyped, SinkTyped, Released, [Next]_vars
  PROVE  Released'
<1>1. CASE SinkNext
  BY <1>1, SinkKeepsReleased
<1>2. CASE DecodeNext
  BY <1>2, DecodeThreadLeaves DEF Released, Silent, AskIsLast, sinkVars, mainVars
<1>3. CASE TransportNext
  BY <1>3, MainKeepsReleased
<1>4. CASE UNCHANGED vars
  BY <1>4 DEF vars, sharedVars, sinkVars, mainVars, Released, Silent, AskIsLast
<1>5. QED
  BY <1>1, <1>2, <1>3, <1>4 DEF Next

(* Once a release is acknowledged nothing plays, opens or is queued to open,  *)
(* until the start that follows: the guard of begin_start never lets two      *)
(* opens overlap, whatever timed out, failed or was abandoned before.         *)
THEOREM ReleaseIsSilent == Spec => []ReleasedIsSilent
<1>1. Init => Released
  BY DEF Init, SinkInit, TransportInit, Released, Silent, NoOpen, AskIsLast
<1>2. TypeOK /\ Released /\ [Next]_vars => Released'
  BY ReleasedStays DEF TypeOK
<1>3. Released => ReleasedIsSilent
  BY DEF Released, Silent, NoOpen, ReleasedIsSilent, Opens
<1>4. QED
  BY <1>1, <1>2, <1>3, PipelineTypes, PTL DEF Spec

-----------------------------------------------------------------------------
(* The device is exclusive.  The plan probes it from the main thread, without *)
(* asking the sink thread, after a release that said the device is gone: from *)
(* that answer to the end of the probe nothing is open nor about to open.  A  *)
(* wheel click is the exception, which wakes the sink thread at any time: it  *)
(* is left out here, and with it the click's sink.                            *)
Closed == Silent /\ ~kept

ProbeAlone ==
  /\ ~click /\ spc # "clicking"
  /\ pc = "planning" \/ answer = "gone" => Closed

ExclusiveInv == OneDevice /\ Released /\ ProbeAlone

(* The sink thread opens nothing of its own. *)
LEMMA SinkKeepsProbeAlone ==
  ASSUME ChannelsTyped, SinkTyped, ExclusiveInv, SinkNext
  PROVE  ProbeAlone'
<1> USE DEF ExclusiveInv
<1>1. pc' = pc
  BY SinkThreadLeaves
<1>2. ~click' /\ spc' # "clicking"
  <2> USE DEF ProbeAlone, GoOn, Emit
  <2>1. ASSUME NEW b \in BOOLEAN,
               DeviceOpened(b) \/ ClickSinkOpened(b) \/ SinkRelease(b) \/ Drained(b) \/ NoHold(b)
        PROVE  ~click' /\ spc' # "clicking"
    BY <2>1 DEF DeviceOpened, ClickSinkOpened, SinkRelease, Drained, NoHold, ClickOpens, sharedVars
  <2>2. ASSUME NEW a \in BOOLEAN, NEW b \in BOOLEAN,
               OpenCurrent(a, b) \/ Stopped(a, b) \/ Write(a, b) \/ ReceivePcm(a)
        PROVE  ~click' /\ spc' # "clicking"
    BY <2>2 DEF OpenCurrent, Stopped, Write, ReceivePcm, sharedVars
  <2>3. CASE OpenStale \/ ClickWakes \/ CommandsDone
    BY <2>3 DEF OpenStale, ClickWakes, CommandsDone, sharedVars, sinkVars
  <2>4. CASE Hold
    <3>1. (click' = FALSE \/ click' = click) /\ spc' = "commands"
      BY <2>4 DEF Hold
    <3>2. CASE click' = FALSE
      BY <3>1, <3>2
    <3>3. CASE click' = click
      BY <3>1, <3>3
    <3>4. QED
      BY <3>1, <3>2, <3>3
  <2>5. CASE NothingReceived \/ ReceiveBoundary
    BY <2>5 DEF NothingReceived, ReceiveBoundary, sharedVars
  <2>6. CASE ReceiveEnd \/ WriteFails \/ NothingToWrite \/ NotDrained
    BY <2>6 DEF ReceiveEnd, WriteFails, NothingToWrite, NotDrained, sharedVars
  <2>7. CASE SinkEmit
    BY <2>7 DEF SinkEmit, SinkTyped
  <2>8. QED
    BY <2>1, <2>2, <2>3, <2>4, <2>5, <2>6, <2>7 DEF SinkNext
<1>3. ASSUME Closed
      PROVE  Closed'
  <2>1. Silent'
    BY <1>3, SilentStays DEF Closed
  <2>2. ~kept'
    <3> USE <1>3 DEF Closed, Silent, KeepSink, Expires, ProbeAlone
    <3>1. ASSUME NEW b \in BOOLEAN, DeviceOpened(b) \/ ClickSinkOpened(b) \/ SinkRelease(b)
          PROVE  ~kept'
      BY <3>1 DEF DeviceOpened, ClickSinkOpened, SinkRelease
    <3>2. ASSUME NEW b \in BOOLEAN, Drained(b) \/ NoHold(b) \/ ReceivePcm(b)
          PROVE  ~kept'
      BY <3>2 DEF Drained, NoHold, ReceivePcm
    <3>3. ASSUME NEW a \in BOOLEAN, NEW b \in BOOLEAN, OpenCurrent(a, b) \/ Stopped(a, b) \/ Write(a, b)
          PROVE  ~kept'
      BY <3>3 DEF OpenCurrent, Stopped, Write
    <3>4. CASE OpenStale \/ ClickWakes \/ CommandsDone \/ Hold \/ NothingReceived \/ ReceiveBoundary
      BY <3>4 DEF OpenStale, ClickWakes, CommandsDone, Hold, NothingReceived, ReceiveBoundary, sinkVars
    <3>5. CASE ReceiveEnd \/ WriteFails \/ NothingToWrite \/ NotDrained \/ SinkEmit
      BY <3>5 DEF ReceiveEnd, WriteFails, NothingToWrite, NotDrained, SinkEmit
    <3>6. QED
      BY <3>1, <3>2, <3>3, <3>4, <3>5 DEF SinkNext
  <2>3. QED
    BY <2>1, <2>2 DEF Closed
<1>4. answer' = answer \/ (answer' = "gone" => ~kept')
  BY DEF SinkNext, OpenStale, OpenCurrent, DeviceOpened, ClickSinkOpened, SinkRelease, Drained,
         ClickWakes, CommandsDone, Stopped, Hold, NoHold, NothingReceived, ReceiveBoundary,
         ReceiveEnd, ReceivePcm, Write, WriteFails, NothingToWrite, NotDrained, SinkEmit, mainVars
<1>5. answer' = "gone" => Closed'
  <2>1. answer' # "none" => Silent'
    BY SinkKeepsReleased DEF Released
  <2>2. QED
    BY <1>3, <1>4, <2>1 DEF ProbeAlone, Closed
<1>6. QED
  BY <1>1, <1>2, <1>3, <1>5 DEF ProbeAlone

(* The main thread begins a plan only with an answer that said so. *)
LEMMA MainKeepsProbeAlone ==
  ASSUME "Click" \notin Disturbances, ChannelsTyped, MainTyped, ExclusiveInv, TransportNext
  PROVE  ProbeAlone'
<1> USE DEF ExclusiveInv
<1>1. sink' = sink /\ kept' = kept /\ spc' = spc
  BY TransportLeaves DEF sinkVars
<1>2. CASE pc # "waiting" /\ Sends /\ answer' \in {answer, "none"} /\ pc' # "planning"
  <2>1. NoOpen(sinkQ) => NoOpen(sinkQ')
    BY <1>2, SendsKeep
  <2>2. QED
    BY <1>1, <1>2, <2>1 DEF ProbeAlone, Closed, Silent, Sends
<1>3. CASE AskSink
  <2>1. answer = "none"
    BY <1>3 DEF AskSink, Released
  <2>2. QED
    BY <1>1, <1>3, <2>1 DEF AskSink, ProbeAlone
<1>4. CASE pc = "starting" /\ MayOpen /\ StartSent
  <2>1. answer = "none" /\ answer' = answer /\ pc' = resume /\ click' = click
    BY <1>4 DEF StartSent, Released
  <2>2. QED
    BY <1>1, <2>1 DEF ProbeAlone, MainTyped, MainStages
<1>5. CASE ReleaseTimesOut
  BY <1>1, <1>5 DEF ReleaseTimesOut, ReleaseOver, ProbeAlone, MainTyped, MainStages
<1>6. ASSUME NEW fits \in BOOLEAN, SinkAnswered(fits)
      PROVE  ProbeAlone'
  <2>1. pc' = "planning" => answer = "gone"
    BY <1>6 DEF SinkAnswered, MustClose, ReleaseOver, MainTyped, MainStages
  <2>2. sinkQ' = sinkQ /\ click' = click /\ answer' = "none"
    BY <1>6 DEF SinkAnswered, ReleaseOver
  <2>3. QED
    BY <1>1, <2>1, <2>2 DEF ProbeAlone, Closed, Silent
<1>7. QED
  BY <1>2, <1>3, <1>4, <1>5, <1>6, MainSends

(* What is open, by who has it. *)
OneUser ==
  /\ DeviceUsers \in {{}, {"stream"}, {"kept"}, {"plan"}}
  /\ DeviceUsers = {"plan"} <=> pc = "planning"

LEMMA UsersOfTheDevice == ExclusiveInv => OneUser
<1> SUFFICES ASSUME ExclusiveInv
             PROVE  OneUser
  OBVIOUS
<1> USE DEF OneUser, ExclusiveInv, OneDevice, ProbeAlone, Closed, Silent
<1>1. CASE pc = "planning"
  BY <1>1 DEF DeviceUsers
<1>2. CASE pc # "planning" /\ (sink \/ spc = "opening")
  <2>1. DeviceUsers = {"stream"}
    BY <1>2 DEF DeviceUsers
  <2>2. QED
    BY <1>2, <2>1
<1>3. CASE pc # "planning" /\ ~(sink \/ spc = "opening") /\ kept
  <2>1. DeviceUsers = {"kept"}
    BY <1>3 DEF DeviceUsers
  <2>2. QED
    BY <1>3, <2>1
<1>4. CASE pc # "planning" /\ ~(sink \/ spc = "opening") /\ ~kept
  <2>1. DeviceUsers = {}
    BY <1>4 DEF DeviceUsers
  <2>2. QED
    BY <1>4, <2>1
<1>5. QED
  BY <1>1, <1>2, <1>3, <1>4

LEMMA UsersAfterAStep == ExclusiveInv' => OneUser'
BY UsersOfTheDevice, PTL

(* The steps of each thread are steps of the exclusive device, or none: the   *)
(* sink thread passes the device between stream and kept sink while no plan   *)
(* probes, the main thread begins a plan with a closed device and ends it.    *)
LEMMA StepsAreExclusive ==
  ASSUME ExclusiveInv, ExclusiveInv', SinkNext \/ DecodeNext \/ TransportNext \/ UNCHANGED vars
  PROVE  Device!Next \/ UNCHANGED DeviceUsers
<1>1. /\ DeviceUsers \in {{}, {"stream"}, {"kept"}, {"plan"}}
      /\ DeviceUsers = {"plan"} <=> pc = "planning"
  BY UsersOfTheDevice DEF OneUser
<1>2. /\ DeviceUsers' \in {{}, {"stream"}, {"kept"}, {"plan"}}
      /\ DeviceUsers' = {"plan"} <=> pc' = "planning"
  BY UsersAfterAStep DEF OneUser
<1>3. CASE pc' = pc
  <2>1. \/ DeviceUsers' = DeviceUsers \/ DeviceUsers' = {}
        \/ DeviceUsers = {} \/ {DeviceUsers, DeviceUsers'} = {{"stream"}, {"kept"}}
    BY <1>1, <1>2, <1>3
  <2>2. QED
    BY <1>1, <1>2, <2>1
       DEF Device!Next, Device!Acquire, Device!HandOver, Device!Close, Device!Users
<1>4. CASE pc' # pc
  <2>1. sink' = sink /\ kept' = kept /\ spc' = spc
    BY <1>4, SinkThreadLeaves, DecodeThreadLeaves, TransportLeaves DEF sinkVars, mainVars, vars
  <2>2. CASE pc = "planning"
    <3>1. ~sink /\ ~kept /\ spc # "opening" /\ spc # "clicking"
      BY <2>2 DEF ExclusiveInv, ProbeAlone, Closed, Silent
    <3>2. DeviceUsers' = {}
      BY <1>4, <2>1, <2>2, <3>1 DEF DeviceUsers
    <3>3. QED
      BY <1>1, <2>2, <3>2 DEF Device!Next, Device!Close
  <2>3. CASE pc # "planning" /\ pc' = "planning"
    <3>1. ~sink /\ ~kept /\ spc # "opening" /\ spc # "clicking"
      BY <2>1, <2>3 DEF ExclusiveInv, ProbeAlone, Closed, Silent
    <3>2. DeviceUsers = {}
      BY <2>3, <3>1 DEF DeviceUsers
    <3>3. QED
      BY <1>2, <2>3, <3>2 DEF Device!Next, Device!Acquire, Device!Users
  <2>4. CASE pc # "planning" /\ pc' # "planning"
    BY <2>1, <2>4 DEF DeviceUsers
  <2>5. QED
    BY <2>2, <2>3, <2>4
<1>5. QED
  BY <1>3, <1>4

(* Playback implements the exclusive device: a stream, a kept sink and the    *)
(* probe of a plan have it one at a time, and every step that opens, hands    *)
(* over or closes it is one AudioDevice allows.  Without wheel clicks: one    *)
(* that waits while a plan probes opens the device beside the probe.          *)
THEOREM DeviceImplemented ==
  ASSUME "Click" \notin Disturbances
  PROVE  Spec => DeviceIsExclusive
<1>1. Init => ExclusiveInv /\ Device!Init
  BY DEF Init, SinkInit, TransportInit, ExclusiveInv, OneDevice, Released, Silent, NoOpen, AskIsLast,
         ProbeAlone, Device!Init, DeviceUsers
<1>2. TypeOK /\ ExclusiveInv /\ [Next]_vars => ExclusiveInv' /\ [Device!Next]_DeviceUsers
  <2> SUFFICES ASSUME ChannelsTyped, MainTyped, SinkTyped, ExclusiveInv, [Next]_vars
               PROVE  ExclusiveInv' /\ (Device!Next \/ UNCHANGED DeviceUsers)
    BY DEF TypeOK
  <2>1. OneDevice' /\ Released'
    BY OneDeviceStays, ReleasedStays DEF ExclusiveInv
  <2>2. SinkNext \/ DecodeNext \/ TransportNext \/ UNCHANGED vars
    BY DEF Next
  <2>3. ProbeAlone'
    <3>1. CASE DecodeNext \/ UNCHANGED vars
      BY <3>1, DecodeThreadLeaves
         DEF ExclusiveInv, ProbeAlone, Closed, Silent, sinkVars, mainVars, vars, sharedVars
    <3>2. QED
      BY <2>2, <3>1, SinkKeepsProbeAlone, MainKeepsProbeAlone
  <2>4. QED
    BY <2>1, <2>2, <2>3, StepsAreExclusive DEF ExclusiveInv
<1>3. QED
  BY <1>1, <1>2, PipelineTypes, PTL DEF Spec, DeviceIsExclusive, Device!Spec
=============================================================================
