---------------------------- MODULE StreamProofs ----------------------------
(***************************************************************************)
(* Proofs about the streams of the playback pipeline, for every capacity,  *)
(* bound and choice of disturbances.  The threads compare generations, and *)
(* an abandoned start gives its generation back; what keeps two streams    *)
(* apart all the same is when the main thread lets a generation return.    *)
(*                                                                         *)
(* The argument has three parts.  Work: the jobs the decode thread was     *)
(* given and that left a trace anywhere.  Requests: the jobs the sink      *)
(* thread was asked to open.  Base: the generation the model goes back to  *)
(* when it abandons what is in progress.  No work is of a generation past  *)
(* the base, every load asks for one past it, and a job becomes work only  *)
(* when its own stream is the open one and no other request is on its way. *)
(*                                                                         *)
(* On this rest three more.  EndsInv: a job moves from load to decoder, to *)
(* items, to a block, to its end, and nothing of it is left behind an end. *)
(* Fresh: work of the model's generation is of its last start.  FlowInv:   *)
(* that work is of the open stream, which is asked for nothing but clicks, *)
(* and what the model claims to play is there or being started.            *)
(***************************************************************************)
EXTENDS PlaybackProofs

JobsIn(q) == {q[i].job : i \in 1..Len(q)}

Work ==
  JobsIn(decodeQ) \cup JobsIn(streamQ) \cup JobsIn(events) \cup {NoJob, job, block, outbox.event.job}
    \cup (IF eof THEN {stream} ELSE {})

Requests == JobsIn(sinkQ) \cup {NoJob, stream, opening}

Base ==
  IF pending.on THEN pending.was ELSE IF txn.why = "load" THEN txn.was ELSE gen

(* The main thread's numbers: a load asks for a generation past the model's,  *)
(* a start in progress is of the one the model had or passed since.           *)
Numbers ==
  /\ pc \in MainStages \cup {"stopping"} => txn.why # "load"
  /\ pc \in {"planning", "starting"} => txn.why = "load"
  /\ txn.why = "load" => /\ ~pending.on /\ start = NoJob /\ starts > 0
                         /\ txn.gen = gen + 1 /\ txn.was <= gen
  /\ pending.on => /\ pending.was < pending.gen /\ pending.gen <= gen
                   /\ start # NoJob => start.gen = pending.gen
  /\ start # NoJob => start.id > 0 /\ start.gen > 0

(* Generations tell jobs apart: work from work asked for later, and the work  *)
(* of the open stream from every other.                                       *)
Apart ==
  /\ \A d \in Work : d # NoJob => d.gen > 0 /\ d.gen <= Base
  /\ \A d \in Work, o \in Requests : d # NoJob /\ d.gen = o.gen => d = o
  /\ \A o \in Requests : o # NoJob => o.id > 0 /\ o.gen > 0

(* At most one request is on its way: in the channel, or being opened. *)
Formed(q) ==
  /\ \A i, k \in 1..Len(q) : q[i].op = "Open" /\ q[k].op = "Open" => i = k
  /\ \A i \in 1..Len(q) : IF q[i].op = "Open" THEN ~q[i].ask /\ q[i].job # NoJob
                                               ELSE q[i].job = NoJob
OneRequest ==
  /\ Formed(sinkQ)
  /\ IF spc = "opening" THEN opening # NoJob /\ opening = stream /\ NoOpen(sinkQ)
                         ELSE opening = NoJob

(* A start waits for its own request, or has its answer; a device that opened *)
(* for it is the open stream.                                                 *)
Answered ==
  /\ start = NoJob => opened = "none"
  /\ start # NoJob =>
       /\ opened = "none" => \/ opening = start /\ Opens = {}
                             \/ opening = NoJob /\ Opens = {Open(start)}
       /\ opened # "none" => opening = NoJob /\ Opens = {}
       /\ opened = "open" => stream = start

StreamsInv == Numbers /\ Apart /\ SinkPlaysItsJob /\ OneRequest /\ Answered

-----------------------------------------------------------------------------
(* Channels: the jobs in them and the requests among their commands. *)
LEMMA JobsSent ==
  ASSUME NEW S, NEW q \in Seq(S), NEW m \in S
  PROVE  JobsIn(Append(q, m)) = JobsIn(q) \cup {m.job}
<1>1. /\ Len(Append(q, m)) = Len(q) + 1 /\ Len(q) \in Nat
      /\ Append(q, m)[Len(q) + 1] = m
      /\ \A i \in 1..Len(q) : Append(q, m)[i] = q[i]
  OBVIOUS
<1>2. \A i \in 1..Len(Append(q, m)) : i \in 1..Len(q) \/ i = Len(q) + 1
  BY <1>1
<1>3. \A i \in 1..Len(q) : i \in 1..Len(Append(q, m))
  BY <1>1
<1>4. Len(q) + 1 \in 1..Len(Append(q, m))
  BY <1>1
<1> HIDE DEF JobsIn
<1>5. ASSUME NEW d \in JobsIn(Append(q, m))
      PROVE  d \in JobsIn(q) \cup {m.job}
  BY <1>1, <1>2 DEF JobsIn
<1>6. ASSUME NEW d \in JobsIn(q) \cup {m.job}
      PROVE  d \in JobsIn(Append(q, m))
  BY <1>1, <1>3, <1>4 DEF JobsIn
<1>7. QED
  BY <1>5, <1>6

LEMMA JobsTaken ==
  ASSUME NEW S, NEW q \in Seq(S), q # <<>>
  PROVE  JobsIn(Tail(q)) \subseteq JobsIn(q) /\ Head(q).job \in JobsIn(q)
<1>1. /\ Head(q) = q[1] /\ 1 \in 1..Len(q)
      /\ \A i \in 1..Len(Tail(q)) : Tail(q)[i] = q[i + 1] /\ i + 1 \in 1..Len(q)
  BY TailCommands
<1>2. QED
  BY <1>1 DEF JobsIn

LEMMA JobsOffered ==
  ASSUME NEW S, NEW q \in Seq(S), NEW m \in S, NEW cap \in Nat
  PROVE  /\ JobsIn(Offer(q, m, cap)) \subseteq JobsIn(q) \cup {m.job}
         /\ Offer(q, m, cap) \in Seq(S)
BY JobsSent DEF Offer

LEMMA JobsOfferedTwice ==
  ASSUME NEW S, NEW q \in Seq(S), NEW m \in S, NEW cap \in Nat, NEW calls
  PROVE  JobsIn(OfferTimes(q, m, cap, calls)) \subseteq JobsIn(q) \cup {m.job}
BY JobsOffered DEF OfferTimes

OpensIn(q) == {c \in {q[i] : i \in 1..Len(q)} : c.op = "Open"}

LEMMA NoOpensIn ==
  ASSUME NEW q
  PROVE  NoOpen(q) <=> OpensIn(q) = {}
BY DEF NoOpen, OpensIn

(* The same requests in another channel. *)
Same(q, r) ==
  /\ r \in Seq(SinkCommand) /\ Formed(r) /\ OpensIn(r) = OpensIn(q)
  /\ JobsIn(r) \subseteq JobsIn(q) \cup {NoJob}

LEMMA SentSame ==
  ASSUME NEW q \in Seq(SinkCommand), Formed(q), NEW c \in SinkCommand, c.op # "Open", c.job = NoJob
  PROVE  Same(q, Append(q, c))
<1> DEFINE r == Append(q, c)
<1>1. /\ Len(r) = Len(q) + 1 /\ Len(q) \in Nat /\ r[Len(q) + 1] = c
      /\ \A i \in 1..Len(q) : r[i] = q[i]
      /\ r \in Seq(SinkCommand)
  OBVIOUS
<1>2. \A i \in 1..Len(r) : i \in 1..Len(q) \/ i = Len(q) + 1
  BY <1>1
<1>3. \A i \in 1..Len(q) : i \in 1..Len(r)
  BY <1>1
<1>4. JobsIn(r) \subseteq JobsIn(q) \cup {NoJob}
  BY JobsSent
<1> HIDE DEF r
<1>5. \A i \in 1..Len(r) : r[i].op = "Open" => i \in 1..Len(q) /\ r[i] = q[i]
  BY <1>1, <1>2
<1>6. OpensIn(r) = OpensIn(q)
  <2>1. ASSUME NEW o \in OpensIn(r)
        PROVE  o \in OpensIn(q)
    BY <1>5, <2>1 DEF OpensIn
  <2>2. ASSUME NEW o \in OpensIn(q)
        PROVE  o \in OpensIn(r)
    BY <1>1, <1>3, <2>2 DEF OpensIn
  <2>3. QED
    BY <2>1, <2>2
<1>7. Formed(r)
  <2>1. \A i, k \in 1..Len(r) : r[i].op = "Open" /\ r[k].op = "Open" => i = k
    BY <1>5 DEF Formed
  <2>2. ASSUME NEW i \in 1..Len(r)
        PROVE  IF r[i].op = "Open" THEN ~r[i].ask /\ r[i].job # NoJob ELSE r[i].job = NoJob
    BY <1>1, <1>2 DEF Formed
  <2>3. QED
    BY <2>1, <2>2 DEF Formed
<1>8. QED
  BY <1>1, <1>4, <1>6, <1>7 DEF Same, r

LEMMA OfferedSame ==
  ASSUME NEW q \in Seq(SinkCommand), Formed(q), NEW c \in SinkCommand, c.op # "Open", c.job = NoJob,
         NEW cap
  PROVE  Same(q, Offer(q, c, cap))
<1>1. Same(q, q)
  BY DEF Same
<1>2. QED
  BY <1>1, SentSame DEF Offer

LEMMA SameAgain ==
  ASSUME NEW q, NEW r, NEW s, Same(q, r), Same(r, s)
  PROVE  Same(q, s)
BY DEF Same

LEMMA OfferedTwiceSame ==
  ASSUME NEW q \in Seq(SinkCommand), Formed(q), NEW c \in SinkCommand, c.op # "Open", c.job = NoJob,
         NEW cap, NEW calls
  PROVE  Same(q, OfferTimes(q, c, cap, calls))
<1> DEFINE o == Offer(q, c, cap)
<1>1. Same(q, o) /\ o \in Seq(SinkCommand) /\ Formed(o)
  BY OfferedSame DEF Same
<1> HIDE DEF o
<1>2. Same(o, Offer(o, c, cap))
  BY <1>1, OfferedSame
<1>3. Same(q, Offer(o, c, cap))
  BY <1>1, <1>2, SameAgain
<1>4. QED
  BY <1>1, <1>3 DEF OfferTimes, o

LEMMA UnaskedSame ==
  ASSUME sinkQ \in Seq(SinkCommand), Formed(sinkQ)
  PROVE  Same(sinkQ, Unasked)
<1> DEFINE r == Unasked
<1>1. r \in Seq(SinkCommand) /\ Len(r) = Len(sinkQ)
  BY UnaskedTyped
<1>2. ASSUME NEW i \in 1..Len(sinkQ)
      PROVE  /\ r[i].op = sinkQ[i].op /\ ~r[i].ask /\ r[i].job = sinkQ[i].job
             /\ sinkQ[i].op = "Open" => r[i] = sinkQ[i]
  <2>1. sinkQ[i] \in SinkCommand /\ DOMAIN sinkQ = 1..Len(sinkQ)
    OBVIOUS
  <2>2. r[i] = [sinkQ[i] EXCEPT !.ask = FALSE]
    BY <2>1 DEF Unasked
  <2>3. r[i].op = sinkQ[i].op /\ r[i].ask = FALSE /\ r[i].job = sinkQ[i].job
    BY <2>1, <2>2 DEF SinkCommand
  <2>4. ASSUME sinkQ[i].op = "Open"
        PROVE  r[i] = sinkQ[i]
    <3>1. sinkQ[i].ask = FALSE
      BY <2>1, <2>4 DEF Formed, SinkCommand
    <3>2. [sinkQ[i] EXCEPT !.ask = FALSE] = sinkQ[i]
      BY <2>1, <3>1 DEF SinkCommand
    <3>3. QED
      BY <2>2, <3>2
  <2>5. QED
    BY <2>3, <2>4
<1> HIDE DEF r
<1>3. JobsIn(r) \subseteq JobsIn(sinkQ)
  BY <1>1, <1>2 DEF JobsIn
<1>4. OpensIn(r) = OpensIn(sinkQ)
  <2>1. ASSUME NEW o \in OpensIn(r)
        PROVE  o \in OpensIn(sinkQ)
    BY <1>1, <1>2, <2>1 DEF OpensIn
  <2>2. ASSUME NEW o \in OpensIn(sinkQ)
        PROVE  o \in OpensIn(r)
    BY <1>1, <1>2, <2>2 DEF OpensIn
  <2>3. QED
    BY <2>1, <2>2
<1>5. Formed(r)
  BY <1>1, <1>2 DEF Formed
<1>6. QED
  BY <1>1, <1>3, <1>4, <1>5 DEF Same, r

(* Taking a command: the request, which leaves none, or another one. *)
LEMMA TakenFormed ==
  ASSUME NEW q \in Seq(SinkCommand), q # <<>>, Formed(q)
  PROVE  /\ Tail(q) \in Seq(SinkCommand) /\ Formed(Tail(q)) /\ JobsIn(Tail(q)) \subseteq JobsIn(q)
         /\ Head(q).op = "Open" => OpensIn(Tail(q)) = {} /\ Head(q) \in OpensIn(q)
         /\ Head(q).op # "Open" => OpensIn(Tail(q)) = OpensIn(q)
<1> DEFINE r == Tail(q)
<1>1. /\ Len(q) \in Nat \ {0} /\ Len(r) = Len(q) - 1 /\ Head(q) = q[1]
      /\ \A i \in 1..Len(r) : r[i] = q[i + 1] /\ i + 1 \in 1..Len(q)
      /\ r \in Seq(SinkCommand)
  BY TailCommands
<1>2. \A i \in 1..Len(q) : i = 1 \/ (i - 1 \in 1..Len(r) /\ r[i - 1] = q[i])
  BY <1>1
<1>3. JobsIn(r) \subseteq JobsIn(q)
  BY JobsTaken
<1> HIDE DEF r
<1>4. Formed(r)
  <2>1. ASSUME NEW i \in 1..Len(r), NEW k \in 1..Len(r), r[i].op = "Open", r[k].op = "Open"
        PROVE  i = k
    <3>1. i + 1 = k + 1
      BY <1>1, <2>1 DEF Formed
    <3>2. QED
      BY <3>1
  <2>2. \A i \in 1..Len(r) : IF r[i].op = "Open" THEN ~r[i].ask /\ r[i].job # NoJob ELSE r[i].job = NoJob
    BY <1>1 DEF Formed
  <2>3. QED
    BY <2>1, <2>2 DEF Formed
<1>5. ASSUME Head(q).op = "Open"
      PROVE  OpensIn(r) = {} /\ Head(q) \in OpensIn(q)
  <2>1. \A i \in 1..Len(r) : r[i].op # "Open"
    <3>1. SUFFICES ASSUME NEW i \in 1..Len(r), r[i].op = "Open"
                   PROVE  FALSE
      OBVIOUS
    <3>2. 1 \in 1..Len(q) /\ i + 1 \in 1..Len(q) /\ q[1].op = "Open" /\ q[i + 1].op = "Open"
      BY <1>1, <1>5, <3>1
    <3>3. 1 = i + 1
      BY <3>2 DEF Formed
    <3>4. QED
      BY <3>3
  <2>2. 1 \in 1..Len(q)
    BY <1>1
  <2>3. QED
    BY <1>1, <1>5, <2>1, <2>2 DEF OpensIn
<1>6. ASSUME Head(q).op # "Open"
      PROVE  OpensIn(r) = OpensIn(q)
  <2>1. ASSUME NEW o \in OpensIn(r)
        PROVE  o \in OpensIn(q)
    BY <1>1, <2>1 DEF OpensIn
  <2>2. ASSUME NEW o \in OpensIn(q)
        PROVE  o \in OpensIn(r)
    BY <1>1, <1>2, <1>6, <2>2 DEF OpensIn
  <2>3. QED
    BY <2>1, <2>2
<1>7. QED
  BY <1>1, <1>3, <1>4, <1>5, <1>6 DEF r

(* The one request, sent where there is none. *)
LEMMA RequestSent ==
  ASSUME NEW q \in Seq(SinkCommand), Formed(q), NoOpen(q), NEW j \in JobRef, j # NoJob
  PROVE  LET r == Append(q, Open(j))
         IN  Formed(r) /\ OpensIn(r) = {Open(j)} /\ JobsIn(r) = JobsIn(q) \cup {j}
<1> DEFINE c == Open(j)
           r == Append(q, c)
<1>1. c \in SinkCommand /\ c.op = "Open" /\ c.job = j /\ ~c.ask
  BY Messages DEF Open
<1> HIDE DEF c
<1>2. /\ Len(r) = Len(q) + 1 /\ Len(q) \in Nat /\ r[Len(q) + 1] = c
      /\ \A i \in 1..Len(q) : r[i] = q[i]
      /\ Len(q) + 1 \in 1..Len(r)
  BY <1>1
<1>3. \A i \in 1..Len(r) : i \in 1..Len(q) \/ i = Len(q) + 1
  BY <1>2
<1>4. JobsIn(r) = JobsIn(q) \cup {j}
  BY <1>1, JobsSent
<1> HIDE DEF r
<1>5. \A i \in 1..Len(r) : r[i].op = "Open" => i = Len(q) + 1
  BY <1>2, <1>3 DEF NoOpen
<1>6. OpensIn(r) = {c}
  BY <1>1, <1>2, <1>5 DEF OpensIn
<1>7. Formed(r)
  <2>1. \A i \in 1..Len(r) : IF r[i].op = "Open" THEN ~r[i].ask /\ r[i].job # NoJob ELSE r[i].job = NoJob
    BY <1>1, <1>2, <1>3 DEF Formed
  <2>2. QED
    BY <1>5, <2>1 DEF Formed
<1>8. QED
  BY <1>4, <1>6, <1>7 DEF r, c

-----------------------------------------------------------------------------
(* Work and requests as sets. *)
LEMMA JobsTyped ==
  ASSUME NEW S, NEW q \in Seq(S), \A m \in S : m.job \in JobRef
  PROVE  JobsIn(q) \subseteq JobRef
<1>1. \A i \in 1..Len(q) : q[i] \in S
  OBVIOUS
<1>2. QED
  BY <1>1, Zenon DEF JobsIn

LEMMA WorkTyped ==
  ASSUME TypeOK
  PROVE  Work \subseteq JobRef /\ Requests \subseteq JobRef /\ Base \in Nat
<1>1. NoJob \in JobRef
  BY Messages
<1>2. JobsIn(sinkQ) \subseteq JobRef
  <2>1. sinkQ \in Seq(SinkCommand)
    BY DEF TypeOK, ChannelsTyped
  <2>2. \A m \in SinkCommand : m.job \in JobRef
    BY DEF SinkCommand
  <2>3. QED
    BY <2>1, <2>2, JobsTyped
<1>3. JobsIn(decodeQ) \subseteq JobRef
  <2>1. decodeQ \in Seq(DecodeCommand)
    BY DEF TypeOK, ChannelsTyped
  <2>2. \A m \in DecodeCommand : m.job \in JobRef
    BY DEF DecodeCommand
  <2>3. QED
    BY <2>1, <2>2, JobsTyped
<1>4. JobsIn(streamQ) \subseteq JobRef
  <2>1. streamQ \in Seq(Stream)
    BY DEF TypeOK, ChannelsTyped
  <2>2. \A m \in Stream : m.job \in JobRef
    BY DEF Stream
  <2>3. QED
    BY <2>1, <2>2, JobsTyped
<1>5. JobsIn(events) \subseteq JobRef
  <2>1. events \in Seq(Event)
    BY DEF TypeOK, ChannelsTyped
  <2>2. \A m \in Event : m.job \in JobRef
    BY DEF Event
  <2>3. QED
    BY <2>1, <2>2, JobsTyped
<1>6. stream \in JobRef /\ opening \in JobRef /\ block \in JobRef /\ job \in JobRef
      /\ outbox.event.job \in JobRef
  BY DEF TypeOK, SinkTyped, DecodeTyped, Event
<1>7. Base \in Nat
  BY DEF TypeOK, MainTyped, Base, Pending, Txn
<1>8. QED
  BY <1>1, <1>2, <1>3, <1>4, <1>5, <1>6, <1>7 DEF Work, Requests

LEMMA WorkFrame ==
  ASSUME JobsIn(decodeQ') \subseteq Work, JobsIn(streamQ') \subseteq Work, JobsIn(events') \subseteq Work,
         job' \in Work, block' \in Work, outbox'.event.job \in Work, eof' => stream' \in Work
  PROVE  Work' \subseteq Work
<1>1. NoJob \in Work
  BY DEF Work
<1>2. JobsIn(decodeQ)' = JobsIn(decodeQ') /\ JobsIn(streamQ)' = JobsIn(streamQ')
      /\ JobsIn(events)' = JobsIn(events')
  BY DEF JobsIn
<1>3. NoJob' = NoJob
  BY DEF NoJob
<1>4. ASSUME NEW d \in Work'
      PROVE  \/ d \in JobsIn(decodeQ)' \/ d \in JobsIn(streamQ)' \/ d \in JobsIn(events)'
             \/ d \in {NoJob, job', block', outbox'.event.job} \/ (eof' /\ d = stream')
  BY <1>3 DEF Work
<1>5. QED
  BY <1>1, <1>2, <1>4

(* Fewer traces, fewer requests, no lower base: what was apart stays apart. *)
LEMMA ApartStays ==
  ASSUME TypeOK, Apart, Work' \subseteq Work, Requests' \subseteq Requests, Base' \in Nat, Base <= Base'
  PROVE  Apart'
<1>1. Work \subseteq JobRef /\ Requests \subseteq JobRef /\ Base \in Nat
  BY WorkTyped
<1>2. \A d \in Work' : d # NoJob => d.gen > 0 /\ d.gen <= Base'
  BY <1>1 DEF Apart, JobRef
<1>3. \A d \in Work', o \in Requests' : d # NoJob /\ d.gen = o.gen => d = o
  BY DEF Apart
<1>4. \A o \in Requests' : o # NoJob => o.id > 0 /\ o.gen > 0
  BY DEF Apart
<1>5. QED
  BY <1>2, <1>3, <1>4 DEF Apart, NoJob

-----------------------------------------------------------------------------
(* The sink thread.  What it meets of the open stream's generation is of the  *)
(* open stream.                                                               *)
LEMMA OfTheStream ==
  ASSUME TypeOK, Apart, NEW d \in Work, d.gen = stream.gen
  PROVE  d = stream
<1>1. stream \in Requests /\ NoJob.gen = 0
  BY DEF Requests, NoJob
<1>2. CASE d # NoJob
  BY <1>1, <1>2 DEF Apart
<1>3. CASE d = NoJob
  <2>1. ~(stream.gen > 0)
    BY <1>1, <1>3
  <2>2. QED
    BY <1>1, <1>3, <2>1 DEF Apart
<1>4. QED
  BY <1>2, <1>3

(* What it leaves of a pass: traces of the open stream, and the one request   *)
(* it took.                                                                   *)
SinkTraces ==
  /\ block' = NoJob \/ (block' = stream /\ stream \in Work /\ stream' = stream)
  /\ eof' => stream \in Work /\ stream' = stream
  /\ outbox'.event.job \in {NoJob, outbox.event.job} \/ (outbox'.event.job = stream /\ stream \in Work)
  /\ streamQ' = streamQ \/ (streamQ # <<>> /\ streamQ' = Tail(streamQ))
  /\ events' = events \/ events' = Append(events, outbox.event)
  /\ stream' = stream \/ (sinkQ # <<>> /\ stream' = Head(sinkQ).job)
  /\ opening' \in {opening, NoJob} \/ (sinkQ # <<>> /\ opening' = Head(sinkQ).job)
  /\ sinkQ' = sinkQ \/ (sinkQ # <<>> /\ sinkQ' = Tail(sinkQ))

LEMMA SinkLeavesTraces ==
  ASSUME TypeOK, Apart, SinkPlaysItsJob, SinkNext
  PROVE  SinkTraces
<1>1. streamQ # <<>> => Head(streamQ).job \in Work
  BY JobsTaken DEF Work, TypeOK, ChannelsTyped
<1>2. streamQ # <<>> /\ OfStream(Head(streamQ).job) => Head(streamQ).job = stream /\ stream \in Work
  BY <1>1, OfTheStream DEF OfStream
<1>3. block # NoJob => block = stream /\ stream \in Work
  BY DEF SinkPlaysItsJob, Work
<1>4. eof => stream \in Work
  BY DEF Work
<1> USE DEF SinkTraces, GoOn, Emit
<1>5. CASE OpenStale \/ ClickWakes
  BY <1>3, <1>4, <1>5 DEF OpenStale, ClickWakes, sinkVars
<1>17. CASE CommandsDone
  BY <1>3, <1>4, <1>17 DEF CommandsDone, sharedVars
<1>18. CASE Hold
  <2>1. UNCHANGED <<block, eof, outbox, streamQ, events, stream, opening, sinkQ>>
    BY <1>18 DEF Hold
  <2>2. QED
    BY <1>3, <1>4, <2>1
<1>6. ASSUME NEW reuse \in BOOLEAN, NEW prepared \in BOOLEAN, OpenCurrent(reuse, prepared)
      PROVE  SinkTraces
  BY <1>6 DEF OpenCurrent
<1>7. ASSUME NEW b \in BOOLEAN, DeviceOpened(b) \/ ClickSinkOpened(b) \/ NoHold(b)
      PROVE  SinkTraces
  BY <1>3, <1>4, <1>7 DEF DeviceOpened, ClickSinkOpened, NoHold, sharedVars
<1>8. ASSUME NEW k \in BOOLEAN, SinkRelease(k) \/ Drained(k)
      PROVE  SinkTraces
  BY <1>3, <1>4, <1>8 DEF SinkRelease, Drained, StreamOver, sharedVars
<1>9. ASSUME NEW k \in BOOLEAN, NEW late \in BOOLEAN, Stopped(k, late)
      PROVE  SinkTraces
  BY <1>3, <1>4, <1>9 DEF Stopped, sharedVars
<1>10. CASE NothingReceived \/ NothingToWrite \/ NotDrained
  BY <1>3, <1>4, <1>10 DEF NothingReceived, NothingToWrite, NotDrained, sharedVars
<1>11. CASE ReceiveBoundary
  BY <1>2, <1>3, <1>4, <1>11 DEF ReceiveBoundary
<1>12. CASE ReceiveEnd
  BY <1>2, <1>3, <1>4, <1>12 DEF ReceiveEnd
<1>13. ASSUME NEW converts \in BOOLEAN, ReceivePcm(converts)
       PROVE  SinkTraces
  BY <1>2, <1>3, <1>4, <1>13 DEF ReceivePcm, Plays
<1>14. ASSUME NEW progress \in BOOLEAN, NEW finished \in BOOLEAN, Write(progress, finished)
       PROVE  SinkTraces
  BY <1>3, <1>4, <1>14 DEF Write, sharedVars
<1>15. CASE WriteFails
  BY <1>3, <1>4, <1>15 DEF WriteFails, sharedVars
<1>16. CASE SinkEmit
  BY <1>3, <1>4, <1>16 DEF SinkEmit, NoOutbox
<1>19. QED
  BY <1>5, <1>6, <1>7, <1>8, <1>9, <1>10, <1>11, <1>12, <1>13, <1>14, <1>15, <1>16, <1>17, <1>18 DEF SinkNext

LEMMA SinkKeepsApart ==
  ASSUME TypeOK, Numbers, Apart, SinkPlaysItsJob, SinkNext
  PROVE  Apart' /\ SinkPlaysItsJob' /\ Work' \subseteq Work
<1>1. SinkTraces
  BY SinkLeavesTraces
<1>2. decodeQ' = decodeQ /\ job' = job /\ pending' = pending /\ txn' = txn /\ gen' = gen
  BY SinkThreadLeaves DEF decodeVars
<1>3. NoJob \in Work /\ outbox.event.job \in Work /\ job \in Work
      /\ JobsIn(decodeQ) \subseteq Work /\ JobsIn(streamQ) \subseteq Work /\ JobsIn(events) \subseteq Work
  BY DEF Work
<1>4. JobsIn(streamQ') \subseteq Work
  BY <1>1, <1>3, JobsTaken DEF SinkTraces, TypeOK, ChannelsTyped
<1>5. JobsIn(events') \subseteq Work
  <2>1. outbox.event \in Event /\ events \in Seq(Event)
    BY DEF TypeOK, SinkTyped, ChannelsTyped
  <2>2. JobsIn(Append(events, outbox.event)) \subseteq Work
    BY <1>3, <2>1, JobsSent
  <2>3. QED
    BY <1>1, <1>3, <2>2 DEF SinkTraces
<1>6. Work' \subseteq Work
  BY <1>1, <1>2, <1>3, <1>4, <1>5, WorkFrame DEF SinkTraces
<1>7. Requests' \subseteq Requests
  <2>1. sinkQ # <<>> => JobsIn(Tail(sinkQ)) \subseteq JobsIn(sinkQ) /\ Head(sinkQ).job \in JobsIn(sinkQ)
    BY JobsTaken DEF TypeOK, ChannelsTyped
  <2>2. JobsIn(sinkQ') \subseteq Requests /\ stream' \in Requests /\ opening' \in Requests /\ NoJob \in Requests
    BY <1>1, <2>1 DEF SinkTraces, Requests
  <2>3. Requests' = JobsIn(sinkQ') \cup {NoJob, stream', opening'}
    BY DEF Requests, JobsIn, NoJob
  <2>4. QED
    BY <2>2, <2>3
<1>8. Base' = Base /\ Base \in Nat
  BY <1>2, WorkTyped DEF Base
<1>9. Apart'
  BY <1>6, <1>7, <1>8, ApartStays
<1>10. SinkPlaysItsJob'
  BY <1>1 DEF SinkTraces, SinkPlaysItsJob, NoJob
<1>11. QED
  BY <1>6, <1>9, <1>10

(* Its other steps touch no request. *)
LEMMA SinkLeavesRequests ==
  ASSUME TypeOK, SinkNext
  PROVE  \/ OpenStale
         \/ \E reuse, prepared \in BOOLEAN : OpenCurrent(reuse, prepared)
         \/ \E ok \in BOOLEAN : DeviceOpened(ok)
         \/ /\ UNCHANGED <<opening, opened, stream>> /\ spc # "opening" /\ spc' # "opening"
            /\ sinkQ' = sinkQ \/ (sinkQ # <<>> /\ Head(sinkQ).op # "Open" /\ sinkQ' = Tail(sinkQ))
<1> DEFINE Other ==
             /\ UNCHANGED <<opening, opened, stream>> /\ spc # "opening" /\ spc' # "opening"
             /\ sinkQ' = sinkQ \/ (sinkQ # <<>> /\ Head(sinkQ).op # "Open" /\ sinkQ' = Tail(sinkQ))
<1> USE DEF GoOn, Emit
<1>1. ASSUME NEW b \in BOOLEAN, ClickSinkOpened(b) \/ NoHold(b) \/ ReceivePcm(b)
      PROVE  Other
  BY <1>1 DEF ClickSinkOpened, NoHold, ReceivePcm, sharedVars, mainVars
<1>2. ASSUME NEW k \in BOOLEAN, SinkRelease(k)
      PROVE  Other
  BY <1>2 DEF SinkRelease
<1>3. ASSUME NEW k \in BOOLEAN, Drained(k)
      PROVE  Other
  BY <1>3 DEF Drained, sharedVars, mainVars
<1>4. ASSUME NEW k \in BOOLEAN, NEW late \in BOOLEAN, Stopped(k, late) \/ Write(k, late)
      PROVE  Other
  BY <1>4 DEF Stopped, Write, sharedVars, mainVars
<1>5. CASE ClickWakes
  BY <1>5 DEF ClickWakes, sinkVars, mainVars
<1>6. CASE CommandsDone \/ Hold
  <2>1. UNCHANGED <<opening, opened, stream, sinkQ>> /\ spc # "opening" /\ spc' # "opening"
    BY <1>6 DEF CommandsDone, Hold, sharedVars, mainVars
  <2>2. QED
    BY <2>1
<1>7. CASE NothingReceived \/ NothingToWrite \/ NotDrained
  BY <1>7 DEF NothingReceived, NothingToWrite, NotDrained, sharedVars, mainVars
<1>8. CASE ReceiveBoundary \/ ReceiveEnd
  BY <1>8 DEF ReceiveBoundary, ReceiveEnd, mainVars
<1>9. CASE WriteFails
  BY <1>9 DEF WriteFails, sharedVars, mainVars
<1>10. CASE SinkEmit
  BY <1>10 DEF SinkEmit, mainVars, TypeOK, SinkTyped
<1>11. QED
  BY <1>1, <1>2, <1>3, <1>4, <1>5, <1>6, <1>7, <1>8, <1>9, <1>10 DEF SinkNext

(* A request it takes is answered, or being opened. *)
LEMMA SinkKeepsRequests ==
  ASSUME TypeOK, OneRequest, Answered, SinkNext
  PROVE  OneRequest' /\ Answered'
<1>1. start' = start
  BY SinkThreadLeaves
<1>2. sinkQ \in Seq(SinkCommand)
  BY DEF TypeOK, ChannelsTyped
<1>3. sinkQ # <<>> =>
        /\ Formed(Tail(sinkQ))
        /\ Head(sinkQ).op = "Open" => OpensIn(Tail(sinkQ)) = {} /\ Head(sinkQ) \in OpensIn(sinkQ)
        /\ Head(sinkQ).op # "Open" => OpensIn(Tail(sinkQ)) = OpensIn(sinkQ)
  BY <1>2, TakenFormed DEF OneRequest
<1>4. Opens = OpensIn(sinkQ) /\ Opens' = OpensIn(sinkQ')
  BY DEF Opens, OpensIn
<1>5. /\ NoOpen(sinkQ) <=> OpensIn(sinkQ) = {}
      /\ NoOpen(sinkQ') <=> OpensIn(sinkQ') = {}
  BY NoOpensIn
<1>6. NoJob' = NoJob /\ Open(start)' = Open(start) /\ Open(start).job = start
  BY <1>1 DEF NoJob, Open
<1>7. CASE /\ UNCHANGED <<opening, opened, stream>> /\ spc # "opening" /\ spc' # "opening"
           /\ sinkQ' = sinkQ \/ (sinkQ # <<>> /\ Head(sinkQ).op # "Open" /\ sinkQ' = Tail(sinkQ))
  <2>1. Formed(sinkQ') /\ OpensIn(sinkQ') = OpensIn(sinkQ)
    BY <1>3, <1>7 DEF OneRequest
  <2>2. OneRequest'
    BY <1>5, <1>6, <1>7, <2>1 DEF OneRequest, Formed, NoOpen
  <2>3. Answered'
    BY <1>1, <1>4, <1>6, <1>7, <2>1 DEF Answered
  <2>4. QED
    BY <2>2, <2>3
<1>8. ASSUME sinkQ # <<>>, Head(sinkQ).op = "Open", sinkQ' = Tail(sinkQ), opening = NoJob
      PROVE  /\ Formed(sinkQ') /\ OpensIn(sinkQ') = {} /\ Head(sinkQ).job # NoJob
             /\ start # NoJob => opened = "none" /\ Head(sinkQ).job = start
             /\ start = NoJob => opened = "none"
  <2>1. Head(sinkQ) = sinkQ[1] /\ 1 \in 1..Len(sinkQ)
    BY <1>2, <1>8, TailCommands
  <2>2. Head(sinkQ).job # NoJob
    BY <1>8, <2>1 DEF OneRequest, Formed
  <2>3. start # NoJob => opened = "none" /\ Head(sinkQ) = Open(start)
    BY <1>3, <1>4, <1>8 DEF Answered
  <2>4. QED
    BY <1>3, <1>6, <1>8, <2>2, <2>3 DEF Answered
<1>9. CASE OpenStale
  <2>1. /\ spc = "commands" /\ spc' = spc /\ opening' = opening /\ stream' = stream
        /\ sinkQ # <<>> /\ Head(sinkQ).op = "Open" /\ sinkQ' = Tail(sinkQ)
        /\ opened' = IF start = Head(sinkQ).job /\ opened = "none" THEN "failed" ELSE opened
    BY <1>9 DEF OpenStale, sinkVars, Reply
  <2>2. opening = NoJob
    BY <2>1 DEF OneRequest
  <2>3. Formed(sinkQ') /\ OpensIn(sinkQ') = {} /\ Head(sinkQ).job # NoJob
        /\ (start # NoJob => opened = "none" /\ Head(sinkQ).job = start)
        /\ (start = NoJob => opened = "none")
    BY <1>8, <2>1, <2>2
  <2>4. OneRequest'
    BY <1>6, <2>1, <2>2, <2>3 DEF OneRequest, Formed
  <2>5. Answered'
    BY <1>1, <1>4, <1>6, <2>1, <2>2, <2>3 DEF Answered
  <2>6. QED
    BY <2>4, <2>5
<1>10. ASSUME NEW reuse \in BOOLEAN, NEW prepared \in BOOLEAN, OpenCurrent(reuse, prepared)
       PROVE  OneRequest' /\ Answered'
  <2> DEFINE j == Head(sinkQ).job
  <2>1. /\ spc = "commands" /\ sinkQ # <<>> /\ Head(sinkQ).op = "Open" /\ sinkQ' = Tail(sinkQ)
        /\ stream' = j
        /\ IF reuse THEN /\ opening' = NoJob /\ spc' = "commands"
                         /\ opened' = IF start = j /\ opened = "none"
                                        THEN (IF prepared THEN "open" ELSE "failed") ELSE opened
                    ELSE opening' = j /\ spc' = "opening" /\ opened' = opened
    BY <1>10 DEF OpenCurrent, GoOn, Reply
  <2>2. opening = NoJob
    BY <2>1 DEF OneRequest
  <2>3. Formed(sinkQ') /\ OpensIn(sinkQ') = {} /\ j # NoJob
        /\ (start # NoJob => opened = "none" /\ j = start) /\ (start = NoJob => opened = "none")
    BY <1>8, <2>1, <2>2
  <2> HIDE DEF j
  <2>4. OneRequest'
    BY <1>5, <1>6, <2>1, <2>3 DEF OneRequest, Formed, NoOpen
  <2>5. Answered'
    BY <1>1, <1>4, <1>6, <2>1, <2>3 DEF Answered
  <2>6. QED
    BY <2>4, <2>5
<1>11. ASSUME NEW ok \in BOOLEAN, DeviceOpened(ok)
       PROVE  OneRequest' /\ Answered'
  <2>1. /\ spc = "opening" /\ spc' = "commands" /\ opening' = NoJob /\ stream' = stream /\ sinkQ' = sinkQ
        /\ opened' = IF start = opening /\ opened = "none"
                       THEN (IF ok THEN "open" ELSE "failed") ELSE opened
    BY <1>11 DEF DeviceOpened, GoOn, Reply, sharedVars
  <2>2. opening # NoJob /\ opening = stream /\ OpensIn(sinkQ) = {}
    BY <1>5, <2>1 DEF OneRequest
  <2>3. OneRequest'
    BY <1>6, <2>1, <2>2 DEF OneRequest, Formed
  <2>4. start # NoJob => opened = "none" /\ opening = start
    BY <1>4, <2>2 DEF Answered
  <2>5. Answered'
    BY <1>1, <1>4, <1>6, <2>1, <2>2, <2>4 DEF Answered
  <2>6. QED
    BY <2>3, <2>5
<1>12. QED
  BY <1>7, <1>9, <1>10, <1>11, SinkLeavesRequests

-----------------------------------------------------------------------------
(* The decode thread only carries work on. *)
LEMMA DecodeKeepsStreams ==
  ASSUME TypeOK, Apart, SinkPlaysItsJob, OneRequest, Answered, DecodeNext
  PROVE  Apart' /\ SinkPlaysItsJob' /\ OneRequest' /\ Answered' /\ Work' \subseteq Work
<1>1. UNCHANGED <<sinkVars, mainVars, epoch, hold, click, sinkQ>>
  BY DecodeThreadLeaves
<1>2. /\ decodeQ' = decodeQ \/ (decodeQ # <<>> /\ decodeQ' = Tail(decodeQ))
      /\ job' \in {job, NoJob} \/ (decodeQ # <<>> /\ job' = Head(decodeQ).job)
      /\ streamQ' = streamQ \/ streamQ' = Append(streamQ, [kind |-> item, job |-> job])
      /\ events' = events \/ events' = Append(events, [kind |-> "PlaybackError", job |-> job])
  BY DEF DecodeNext, SkipCommand, BeginJob, OpenTrack, Decode, DecodeFails, JobReplaced, SendItem,
         DropItem, DecodeError, DecodeReport, JobOver, decodeVars
<1>3. NoJob \in Work /\ outbox.event.job \in Work /\ job \in Work /\ block \in Work
      /\ JobsIn(decodeQ) \subseteq Work /\ JobsIn(streamQ) \subseteq Work /\ JobsIn(events) \subseteq Work
      /\ (eof => stream \in Work)
  BY DEF Work
<1>4. decodeQ # <<>> => JobsIn(Tail(decodeQ)) \subseteq JobsIn(decodeQ) /\ Head(decodeQ).job \in JobsIn(decodeQ)
  BY JobsTaken DEF TypeOK, ChannelsTyped
<1>5. JobsIn(decodeQ') \subseteq Work /\ job' \in Work
  BY <1>2, <1>3, <1>4
<1>6. JobsIn(streamQ') \subseteq Work
  <2> DEFINE m == [kind |-> item, job |-> job]
  <2>1. m \in Stream /\ streamQ \in Seq(Stream) /\ m.job = job
    BY DEF TypeOK, ChannelsTyped, DecodeTyped, Stream
  <2>2. JobsIn(Append(streamQ, m)) = JobsIn(streamQ) \cup {job}
    BY <2>1, JobsSent
  <2>3. QED
    BY <1>2, <1>3, <2>2
<1>7. JobsIn(events') \subseteq Work
  <2> DEFINE m == [kind |-> "PlaybackError", job |-> job]
  <2>1. m \in Event /\ events \in Seq(Event) /\ m.job = job
    BY DEF TypeOK, ChannelsTyped, DecodeTyped, Event
  <2>2. JobsIn(Append(events, m)) = JobsIn(events) \cup {job}
    BY <2>1, JobsSent
  <2>3. QED
    BY <1>2, <1>3, <2>2
<1>8. Work' \subseteq Work
  BY <1>1, <1>3, <1>5, <1>6, <1>7, WorkFrame DEF sinkVars
<1>9. Requests' \subseteq Requests
  BY <1>1 DEF Requests, JobsIn, sinkVars, NoJob
<1>10. Base' = Base /\ Base \in Nat
  BY <1>1, WorkTyped DEF Base, mainVars
<1>11. Apart'
  BY <1>8, <1>9, <1>10, ApartStays
<1>12. SinkPlaysItsJob' /\ OneRequest' /\ Answered'
  BY <1>1 DEF SinkPlaysItsJob, OneRequest, Answered, Opens, Open, Formed, NoOpen, NoJob, sinkVars, mainVars
<1>13. QED
  BY <1>8, <1>11, <1>12

-----------------------------------------------------------------------------
(* The main thread's commands to the decode thread: stops, but for the start  *)
(* whose device opened.                                                       *)
DecodeSends ==
  \/ decodeQ' = decodeQ \/ decodeQ' = Offer(decodeQ, StopDecoder, DecodeCap)
  \/ decodeQ' = OfferTimes(decodeQ, StopDecoder, DecodeCap, 1)
  \/ decodeQ' = OfferTimes(decodeQ, StopDecoder, DecodeCap, 2)

LEMMA MainSendsStops ==
  ASSUME TransportNext
  PROVE  StartOpened \/ DecodeSends
<1>1. NoCall => DecodeSends
  BY DEF NoCall, DecodeSends
<1>2. \A g : (PlaybackStop(g, 1) \/ PlaybackStop(g, 2)) => DecodeSends
  BY DEF PlaybackStop, DecodeSends
<1>3. \A t : Release(t) => DecodeSends
  BY DEF Release, DecodeSends
<1>4. \A b, s : StopSinking(b, s) => DecodeSends
  BY <1>2 DEF StopSinking
<1>5. \A b, w, s : BeginLoad(b, w, s) => DecodeSends
  BY <1>3 DEF BeginLoad
<1>6. \A g, s : PauseInPlace(g, s) \/ PauseReleasing(g, s) => DecodeSends
  BY <1>4 DEF PauseInPlace, PauseReleasing, DecodeSends
<1>7. \A s, k : Pause(s, k) => DecodeSends
  BY <1>6 DEF Pause
<1>8. ReleaseHold => DecodeSends
  BY <1>1, <1>4 DEF ReleaseHold
<1>9. LoadFails => DecodeSends
  BY <1>2 DEF LoadFails
<1>10. CASE AskSink \/ Planned \/ ResumeInPlace \/ StepWhileStarting \/ WheelClick \/ RepairStops
  BY <1>2, <1>10 DEF AskSink, Planned, ResumeInPlace, StepWhileStarting, WheelClick, RepairStops,
                     DecodeSends
<1>11. CASE ReleaseTimesOut
  BY <1>11 DEF ReleaseTimesOut, DecodeSends
<1>12. ASSUME NEW fits \in BOOLEAN, SinkAnswered(fits)
       PROVE  DecodeSends
  BY <1>12 DEF SinkAnswered, DecodeSends
<1>13. CASE BeginStart \/ PlanFails
  BY <1>9, <1>13 DEF BeginStart, PlanFails, StartSent, DecodeSends
<1>14. CASE NextStage \/ HoldLimit \/ TogglePause \/ StopAtEnd \/ StopPlayback
  BY <1>1, <1>4, <1>7, <1>8, <1>14 DEF NextStage, HoldLimit, TogglePause, StopAtEnd, StopPlayback
<1>15. CASE SeekBy
  BY <1>8, <1>15 DEF SeekBy, DecodeSends
<1>16. ASSUME NEW why \in {"refused", "late", "lost"}, StartFails(why)
       PROVE  DecodeSends
  BY <1>2, <1>16 DEF StartFails
<1>17. ASSUME NEW refused \in BOOLEAN, ApplySeek(refused)
       PROVE  DecodeSends
  BY <1>1, <1>5, <1>17 DEF ApplySeek
<1>18. ASSUME NEW steps \in 0..1, NEW song \in BOOLEAN, PlaySong(steps, song)
       PROVE  DecodeSends
  BY <1>5, <1>18 DEF PlaySong
<1>19. CASE SleepRequest \/ PrepareSleep \/ SdRepair
  BY <1>2, <1>3, <1>19 DEF SleepRequest, PrepareSleep, SdRepair
<1>20. CASE StaleEvent \/ TrackStarted \/ PlaybackError \/ TransportMoves \/ TransportFails \/ RestoreSleep
  BY <1>1, <1>4, <1>5, <1>20
     DEF StaleEvent, TrackStarted, PlaybackError, TransportMoves, TransportFails, RestoreSleep
<1>21. ASSUME NEW found \in BOOLEAN, TrackBoundary(found)
       PROVE  DecodeSends
  BY <1>1, <1>21 DEF TrackBoundary
<1>22. ASSUME NEW next \in BOOLEAN, NEW again \in BOOLEAN, TrackEnded(next, again)
       PROVE  DecodeSends
  BY <1>1, <1>5, <1>22 DEF TrackEnded
<1>23. ASSUME NEW b \in BOOLEAN, PeerLost(b) \/ SourceChange(b) \/ CardRemoved(b)
       PROVE  DecodeSends
  BY <1>1, <1>2, <1>4, <1>6, <1>23 DEF PeerLost, SourceChange, CardRemoved
<1>24. QED
  BY <1>10, <1>11, <1>12, <1>13, <1>14, <1>15, <1>16, <1>17, <1>18, <1>19, <1>20, <1>21, <1>22, <1>23
     DEF TransportNext

-----------------------------------------------------------------------------
(* The main thread's numbers.  Between two calls its generation goes on, or   *)
(* back to the one an abandoned start had replaced; a release waits with the  *)
(* numbers it was given.                                                      *)
Moves ==
  /\ pc \in MainStages /\ pc' \in MainStages /\ txn' = txn /\ starts' = starts
  /\ start' = start \/ start' = NoJob
  /\ \/ pending' = pending /\ gen' >= gen
     \/ pending' = NoPending /\ gen' >= Abandoned

GivesBack ==
  /\ pc \in MainStages /\ pc' = "asking" /\ txn'.why # "load" /\ starts' = starts
  /\ start' = NoJob /\ pending' = pending /\ gen' >= gen

Asks ==
  /\ pc \in MainStages /\ pc' = "asking" /\ ~pending.on /\ pending' = pending
  /\ gen' >= gen /\ starts' = starts + 1 /\ start' = NoJob
  /\ txn'.why = "load" /\ txn'.gen = gen' + 1 /\ txn'.was = gen

Waits ==
  /\ pc \in Blocked /\ pending' = pending /\ gen' = gen /\ starts' = starts
  /\ start' = start \/ start' = NoJob
  /\ pc' \in MainStages \cup {"stopping"} => txn'.why # "load"
  /\ pc' \in {"planning", "starting"} => txn.why = "load"
  /\ IF txn.why = "load" THEN txn'.why = "load" /\ txn'.gen = txn.gen /\ txn'.was = txn.was
                         ELSE txn'.why # "load"

Fails ==
  /\ pc \in Blocked /\ pc' \in MainStages /\ txn.why = "load" /\ txn'.why # "load" /\ starts' = starts
  /\ start' = NoJob /\ pending' = pending /\ gen' = txn.gen + 1

LEMMA MainKeepsCount ==
  ASSUME TypeOK, Numbers, TransportNext
  PROVE  StartOpened \/ Moves \/ GivesBack \/ Asks \/ Waits \/ Fails \/ (pc = "starting" /\ StartSent)
<1> DEFINE Goal == StartOpened \/ Moves \/ GivesBack \/ Asks \/ Waits \/ Fails \/ (pc = "starting" /\ StartSent)
<1>0. /\ gen \in Nat /\ Abandoned \in Nat /\ Abandoned <= gen /\ pending.gen \in Nat
      /\ resume \in MainStages /\ NoTxn.why # "load"
      /\ (pc \in MainStages <=> pc \notin Blocked) /\ (resume \notin Blocked)
      /\ pending.on => Abandoned <= pending.gen
      /\ pc \in MainStages \cup Blocked
  BY DEF TypeOK, MainTyped, Abandoned, Pending, Numbers, NoTxn, MainStages, Blocked
<1>00. gen' \in Nat
  BY TransportTyped DEF TypeOK, MainTyped
<1> USE <1>0, <1>00
<1>1. ASSUME NEW b \in Nat, b >= gen, NEW w, NEW s, BeginLoad(b, w, s), pc \in MainStages, ~pending.on,
             pending' = pending
      PROVE  Asks
  BY <1>1 DEF BeginLoad, Release, NextGeneration, Asks
<1>2. ASSUME NEW b \in Nat, NEW s, StopSinking(b, s)
      PROVE  gen' = b + 1 /\ start' = NoJob
  BY <1>2 DEF StopSinking, PlaybackStop
<1>3. ASSUME NEW g \in Nat, NEW s, PauseInPlace(g, s) \/ PauseReleasing(g, s)
      PROVE  gen' >= g /\ (start' = start \/ start' = NoJob)
  BY <1>2, <1>3 DEF PauseInPlace, PauseReleasing
<1>4. ASSUME NEW s, NEW keeps, Pause(s, keeps)
      PROVE  pending' = NoPending /\ gen' >= Abandoned /\ (start' = start \/ start' = NoJob)
  <2>1. pending' = NoPending
    BY <1>4 DEF Pause, Abandon
  <2>2. \/ PauseInPlace(gen, s) \/ PauseReleasing(gen, s) \/ PauseReleasing(Abandoned, s)
    BY <1>4 DEF Pause
  <2>3. gen' >= Abandoned /\ (start' = start \/ start' = NoJob)
    BY <1>3, <2>2
  <2>4. QED
    BY <2>1, <2>3
<1>5. ReleaseHold => gen' >= gen /\ (start' = start \/ start' = NoJob)
  BY <1>2 DEF ReleaseHold, NoCall
<1>6. NoCall => start' = start
  BY DEF NoCall
<1>7. \A stage : Went(stage) => pc' = stage /\ txn' = txn
  BY DEF Went
<1>8. LoadFails /\ pc \in {"planning", "starting"} => Fails
  BY DEF LoadFails, PlaybackStop, Fails, Numbers, Blocked
<1>9. CASE AskSink
  BY <1>9 DEF AskSink, Waits, Blocked, MainStages
<1>10. CASE ReleaseTimesOut
  <2>1. CASE txn.why = "load"
    BY <1>10, <2>1 DEF ReleaseTimesOut, Fails, Blocked
  <2>2. CASE txn.why # "load"
    BY <1>10, <2>2 DEF ReleaseTimesOut, ReleaseOver, Waits, Blocked, MainStages, TypeOK, MainTyped, Txn
  <2>3. QED
    BY <2>1, <2>2
<1>11. CASE RepairStops
  BY <1>11 DEF RepairStops, PlaybackStop, Waits, Blocked, MainStages, Numbers
<1>12. CASE Planned
  BY <1>12 DEF Planned, Waits, Blocked, MainStages, Numbers
<1>13. CASE PlanFails
  BY <1>8, <1>13 DEF PlanFails
<1>14. CASE BeginStart
  BY <1>8, <1>14 DEF BeginStart
<1>15. ASSUME NEW fits \in BOOLEAN, SinkAnswered(fits)
       PROVE  Goal
  <2>1. CASE txn.why = "load"
    BY <1>15, <2>1 DEF SinkAnswered, Waits, Blocked, MainStages, TypeOK, MainTyped, Txn
  <2>2. CASE txn.why # "load"
    BY <1>15, <2>2 DEF SinkAnswered, ReleaseOver, Waits, Blocked, MainStages, TypeOK, MainTyped, Txn
  <2>3. QED
    BY <2>1, <2>2
<1>16. CASE NextStage
  BY <1>6, <1>16 DEF NextStage, Moves, MainStages
<1>17. CASE HoldLimit
  BY <1>5, <1>7, <1>17 DEF HoldLimit, Moves, MainStages
<1>18. ASSUME NEW why \in {"refused", "late", "lost"}, StartFails(why)
       PROVE  Goal
  BY <1>7, <1>18 DEF StartFails, PlaybackStop, Moves, MainStages
<1>19. ASSUME NEW refused \in BOOLEAN, ApplySeek(refused)
       PROVE  Goal
  <2>1. CASE BeginLoad(gen, play, TRUE)
    <3>1. pc = "seek" /\ ~pending.on /\ pending' = pending
      BY <1>19 DEF ApplySeek
    <3>2. QED
      BY <2>1, <3>1 DEF BeginLoad, Release, NextGeneration, Asks, MainStages
  <2>2. CASE NoCall /\ Went("seek") /\ UNCHANGED <<gen, play, asleep, starts>>
    BY <1>6, <1>7, <1>19, <2>2 DEF ApplySeek, Moves, MainStages
  <2>3. QED
    BY <1>19, <2>1, <2>2 DEF ApplySeek
<1>20. CASE TogglePause \/ StopPlayback
  <2>1. \E s, k : Pause(s, k)
    BY <1>20 DEF TogglePause, StopPlayback
  <2>2. QED
    BY <1>4, <1>7, <1>20, <2>1 DEF TogglePause, StopPlayback, Input, Moves, MainStages
<1>21. CASE ResumeInPlace \/ StepWhileStarting \/ WheelClick
  BY <1>7, <1>21 DEF ResumeInPlace, StepWhileStarting, WheelClick, Input, Moves, MainStages
<1>22. CASE StopAtEnd
  BY <1>2, <1>7, <1>22 DEF StopAtEnd, Input, Moves, MainStages
<1>23. CASE SeekBy
  BY <1>5, <1>7, <1>23 DEF SeekBy, Input, Moves, MainStages
<1>24. ASSUME NEW steps \in 0..1, NEW song \in BOOLEAN, PlaySong(steps, song)
       PROVE  Goal
  BY <1>1, <1>24 DEF PlaySong, Input, MainStages
<1>25. CASE SleepRequest \/ PrepareSleep
  <2>1. /\ pc' = "asking" /\ start' = NoJob
        /\ \/ txn' = [NoTxn EXCEPT !.why = IF hold THEN "hold" ELSE "release",
                                  !.gen = IF hold THEN gen + 1 ELSE gen]
           \/ txn' = [NoTxn EXCEPT !.why = "sleep", !.gen = gen]
    BY <1>25 DEF SleepRequest, PrepareSleep, Release
  <2>2. pc' = "asking" /\ start' = NoJob /\ txn'.why # "load"
    BY <2>1 DEF NoTxn
  <2>3. pc \in MainStages /\ pending' = pending /\ starts' = starts /\ gen' >= gen
    BY <1>25 DEF SleepRequest, PrepareSleep, Input, Control, MainStages
  <2>4. QED
    BY <2>2, <2>3 DEF GivesBack
<1>26. CASE SdRepair
  <2>1. pc = "input" /\ starts' = starts
    BY <1>26 DEF SdRepair, Input
  <2>2. CASE InPlace \/ (play # "Playing" /\ hold)
    <3>1. /\ pending' = pending /\ gen' = gen + 1
          /\ Release([NoTxn EXCEPT !.why = "repair", !.gen = gen + 1])
      BY <1>26, <2>2 DEF SdRepair, InPlace
    <3>2. pc' = "asking" /\ start' = NoJob /\ txn'.why # "load"
      BY <3>1 DEF Release, NoTxn
    <3>3. QED
      BY <2>1, <3>1, <3>2 DEF GivesBack, MainStages
  <2>3. CASE play = "Playing" /\ ~InPlace
    <3>1. /\ pending' = NoPending /\ gen' = Abandoned + 1 /\ pc' = "input" /\ txn' = txn
          /\ start' = NoJob
      BY <1>26, <2>3 DEF SdRepair, Abandon, Went, PlaybackStop
    <3>2. QED
      BY <2>1, <3>1 DEF Moves, MainStages
  <2>4. CASE play # "Playing" /\ ~hold
    <3>1. pending' = pending /\ gen' = gen /\ pc' = "input" /\ txn' = txn /\ start' = NoJob
      BY <1>26, <2>4 DEF SdRepair, Went, PlaybackStop, InPlace
    <3>2. QED
      BY <2>1, <3>1 DEF Moves, MainStages
  <2>5. QED
    BY <2>2, <2>3, <2>4
<1>27. CASE StaleEvent
  BY <1>6, <1>27 DEF StaleEvent, Moves, MainStages
<1>28. CASE TrackStarted \/ PlaybackError
  BY <1>2, <1>6, <1>7, <1>28 DEF TrackStarted, PlaybackError, TakesEvent, Moves, MainStages
<1>29. ASSUME NEW found \in BOOLEAN, TrackBoundary(found)
       PROVE  Goal
  BY <1>6, <1>7, <1>29 DEF TrackBoundary, TakesEvent, Moves, MainStages
<1>30. ASSUME NEW next \in BOOLEAN, NEW again \in BOOLEAN, TrackEnded(next, again)
       PROVE  Goal
  <2>1. pc = "events" /\ pending' = pending
    BY <1>30 DEF TrackEnded, TakesEvent
  <2>2. CASE (next \/ again) /\ ~pending.on
    <3>1. BeginLoad(gen, "Stopped", TRUE) \/ BeginLoad(gen + 1, "Stopped", TRUE)
      BY <1>30, <2>2 DEF TrackEnded
    <3>2. QED
      BY <2>1, <2>2, <3>1 DEF BeginLoad, Release, NextGeneration, Asks, MainStages
  <2>3. CASE ~((next \/ again) /\ ~pending.on)
    <3>1. NoCall /\ Went("events") /\ gen' = gen /\ starts' = starts
      BY <1>30, <2>3 DEF TrackEnded
    <3>2. QED
      BY <1>6, <1>7, <2>1, <3>1 DEF Moves, MainStages
  <2>4. QED
    BY <2>2, <2>3
<1>31. CASE TransportMoves
  <2>1. pc = "control" /\ ~pending.on /\ pending' = pending /\ BeginLoad(gen, play, TRUE)
    BY <1>31 DEF TransportMoves, Control
  <2>2. QED
    BY <2>1 DEF BeginLoad, Release, NextGeneration, Asks, MainStages
<1>32. CASE TransportFails
  BY <1>2, <1>7, <1>32 DEF TransportFails, Abandon, Control, Moves, MainStages
<1>33. ASSUME NEW ours \in BOOLEAN, PeerLost(ours)
       PROVE  Goal
  <2>1. \E g \in {Abandoned, Abandoned + 1} : PauseInPlace(g, "Paused") \/ PauseReleasing(g, "Paused")
    BY <1>33 DEF PeerLost
  <2>2. gen' >= Abandoned /\ (start' = start \/ start' = NoJob)
    BY <1>3, <2>1
  <2>3. QED
    BY <1>7, <1>33, <2>2 DEF PeerLost, Abandon, Control, Moves, MainStages
<1>34. ASSUME NEW offline \in BOOLEAN, SourceChange(offline)
       PROVE  Goal
  BY <1>2, <1>6, <1>7, <1>34 DEF SourceChange, Abandon, Control, Moves, MainStages
<1>35. ASSUME NEW offline \in BOOLEAN, CardRemoved(offline)
       PROVE  Goal
  <2>1. \/ \E g \in {gen, Abandoned} : PauseInPlace(g, "Paused") \/ PauseReleasing(g, "Paused")
        \/ StopSinking(gen, "Paused")
        \/ PlaybackStop(Abandoned + 2, 2) /\ gen' = Abandoned + 2
    BY <1>35 DEF CardRemoved
  <2>2. gen' >= Abandoned /\ (start' = start \/ start' = NoJob)
    <3>1. CASE StopSinking(gen, "Paused")
      BY <1>2, <3>1
    <3>2. CASE PlaybackStop(Abandoned + 2, 2) /\ gen' = Abandoned + 2
      BY <3>2 DEF PlaybackStop
    <3>3. ASSUME NEW g \in {gen, Abandoned}, PauseInPlace(g, "Paused") \/ PauseReleasing(g, "Paused")
          PROVE  gen' >= Abandoned /\ (start' = start \/ start' = NoJob)
      <4>1. g \in Nat /\ g >= Abandoned
        BY <3>3
      <4>2. QED
        BY <1>3, <3>3, <4>1
    <3>4. QED
      BY <2>1, <3>1, <3>2, <3>3
  <2>3. QED
    BY <1>7, <1>35, <2>2 DEF CardRemoved, Abandon, Control, Moves, MainStages
<1>36. CASE RestoreSleep
  BY <1>6, <1>7, <1>36 DEF RestoreSleep, Control, Moves, MainStages
<1>37. QED
  BY <1>9, <1>10, <1>11, <1>12, <1>13, <1>14, <1>15, <1>16, <1>17, <1>18, <1>19, <1>20, <1>21, <1>22,
     <1>23, <1>24, <1>25, <1>26, <1>27, <1>28, <1>29, <1>30, <1>31, <1>32, <1>33, <1>34, <1>35, <1>36
     DEF TransportNext

(* From these its numbers stay as they must, and the base never goes back. *)
LEMMA NumbersStay ==
  ASSUME TypeOK, Numbers, TransportNext
  PROVE  Numbers' /\ Base' \in Nat /\ Base <= Base'
<1>1. /\ gen \in Nat /\ gen' \in Nat /\ txn.gen \in Nat /\ txn.was \in Nat /\ starts \in Nat
      /\ pending.gen \in Nat /\ pending.was \in Nat /\ pending.on \in BOOLEAN
      /\ txn'.gen \in Nat /\ txn'.was \in Nat /\ pending'.was \in Nat /\ pending'.gen \in Nat
      /\ resume \in MainStages /\ resume' \in MainStages
  BY TransportTyped DEF TypeOK, MainTyped, Txn, Pending
<1>2. NoPending.on = FALSE /\ NoTxn.why # "load" /\ NoJob' = NoJob /\ NoPending' = NoPending
  BY DEF NoPending, NoTxn, NoJob
<1>3. MainStages \cap Blocked = {} /\ "asking" \notin MainStages
  BY DEF MainStages, Blocked
<1>4. Abandoned \in Nat /\ Abandoned <= gen /\ (pending.on => Abandoned = pending.was)
      /\ (~pending.on => Abandoned = gen)
  BY <1>1 DEF Abandoned, Numbers
<1>5. CASE Moves
  <2>1. txn.why # "load" /\ txn' = txn /\ txn'.why # "load"
    BY <1>5 DEF Moves, Numbers
  <2>2. CASE pending' = pending /\ gen' >= gen
    <3>1. Numbers'
      BY <1>1, <1>2, <1>3, <1>5, <2>1, <2>2 DEF Numbers, Moves, MainStages
    <3>2. QED
      BY <1>1, <2>1, <2>2, <3>1 DEF Base
  <2>3. CASE pending' = NoPending /\ gen' >= Abandoned
    <3>1. Numbers'
      BY <1>1, <1>2, <1>3, <1>5, <2>1, <2>3 DEF Numbers, Moves, MainStages
    <3>2. Base = Abandoned /\ Base' = gen'
      BY <1>2, <1>4, <2>1, <2>3 DEF Base
    <3>3. QED
      BY <1>1, <1>4, <2>3, <3>1, <3>2
  <2>4. QED
    BY <1>5, <2>2, <2>3 DEF Moves
<1>6. CASE GivesBack
  <2>1. txn.why # "load" /\ txn'.why # "load" /\ pending' = pending /\ gen' >= gen /\ start' = NoJob
        /\ pc' = "asking"
    BY <1>6 DEF GivesBack, Numbers
  <2>2. Numbers'
    BY <1>1, <1>2, <1>3, <2>1 DEF Numbers
  <2>3. QED
    BY <1>1, <2>1, <2>2 DEF Base
<1>7. CASE Asks
  <2>1. /\ txn.why # "load" /\ txn'.why = "load" /\ pending' = pending /\ ~pending.on /\ gen' >= gen
        /\ start' = NoJob /\ pc' = "asking" /\ txn'.gen = gen' + 1 /\ txn'.was = gen /\ starts' = starts + 1
    BY <1>7 DEF Asks, Numbers
  <2>2. Numbers'
    BY <1>1, <1>2, <1>3, <2>1 DEF Numbers
  <2>3. Base = gen /\ Base' = gen
    BY <2>1 DEF Base
  <2>4. QED
    BY <1>1, <2>2, <2>3
<1>8. CASE Waits
  <2>1. /\ pending' = pending /\ gen' = gen /\ (start' = start \/ start' = NoJob) /\ starts' = starts
        /\ (pc' \in MainStages \cup {"stopping"} => txn'.why # "load")
        /\ (pc' \in {"planning", "starting"} => txn.why = "load")
    BY <1>8 DEF Waits
  <2>2. CASE txn.why = "load"
    <3>1. txn'.why = "load" /\ txn'.gen = txn.gen /\ txn'.was = txn.was
      BY <1>8, <2>2 DEF Waits
    <3>2. Numbers'
      BY <1>1, <1>2, <2>1, <2>2, <3>1 DEF Numbers
    <3>3. QED
      BY <1>1, <2>1, <2>2, <3>1, <3>2 DEF Base
  <2>3. CASE txn.why # "load"
    <3>1. txn'.why # "load"
      BY <1>8, <2>3 DEF Waits
    <3>2. Numbers'
      BY <1>1, <1>2, <2>1, <2>3, <3>1 DEF Numbers
    <3>3. QED
      BY <1>1, <2>1, <2>3, <3>1, <3>2 DEF Base
  <2>4. QED
    BY <2>2, <2>3
<1>9. CASE Fails
  <2>1. /\ pc' \in MainStages /\ txn.why = "load" /\ txn'.why # "load" /\ pending' = pending
        /\ start' = NoJob /\ gen' = txn.gen + 1 /\ ~pending.on /\ txn.gen = gen + 1 /\ txn.was <= gen
    BY <1>9 DEF Fails, Numbers
  <2>2. Numbers'
    BY <1>1, <1>2, <1>3, <2>1 DEF Numbers, MainStages
  <2>3. Base = txn.was /\ Base' = gen'
    BY <2>1 DEF Base
  <2>4. QED
    BY <1>1, <2>1, <2>2, <2>3
<1>10. CASE pc = "starting" /\ StartSent
  <2>1. /\ txn.why = "load" /\ ~pending.on /\ txn.gen = gen + 1 /\ txn.was <= gen /\ starts > 0
    BY <1>10 DEF Numbers
  <2>2. /\ start' = [id |-> starts, gen |-> txn.gen] /\ gen' = txn.gen /\ pc' = resume /\ txn' = NoTxn
        /\ pending' = [on |-> TRUE, song |-> txn.song, gen |-> txn.gen, was |-> txn.was, play |-> txn.play]
    BY <1>10 DEF StartSent, SendOpen
  <2>3. /\ start'.gen = txn.gen /\ start'.id = starts
        /\ pending'.on /\ pending'.gen = txn.gen /\ pending'.was = txn.was
    BY <2>2
  <2>4. Numbers'
    BY <1>1, <1>2, <1>3, <2>1, <2>2, <2>3 DEF Numbers, MainStages
  <2>5. Base = txn.was /\ Base' = txn.was
    BY <2>1, <2>3 DEF Base
  <2>6. QED
    BY <1>1, <2>4, <2>5
<1>11. CASE StartOpened
  <2>1. /\ pc = "poll" /\ pc' = "seek" /\ pending.on /\ pending' = NoPending /\ gen' = gen
        /\ start' = NoJob /\ txn' = txn
    BY <1>11 DEF StartOpened, Went
  <2>2. txn'.why # "load"
    BY <2>1 DEF Numbers, MainStages
  <2>3. Numbers'
    BY <1>1, <1>2, <2>1, <2>2 DEF Numbers
  <2>4. Base = pending.was /\ Base' = gen /\ pending.was <= gen
    BY <1>1, <1>2, <2>1, <2>2 DEF Base, Numbers
  <2>5. QED
    BY <1>1, <2>3, <2>4
<1>12. QED
  BY <1>5, <1>6, <1>7, <1>8, <1>9, <1>10, <1>11, MainKeepsCount

-----------------------------------------------------------------------------
(* The main thread's start: forgotten, left alone, or the next one.           *)
StartLeft == (start' = NoJob /\ opened' = "none") \/ (start' = start /\ opened' = opened)

LEMMA MainStarts ==
  ASSUME TransportNext
  PROVE  StartLeft \/ (pc = "starting" /\ MayOpen /\ StartSent)
<1>1. NoCall => StartLeft
  BY DEF NoCall, StartLeft
<1>2. \A g, n : PlaybackStop(g, n) => StartLeft
  BY DEF PlaybackStop, StartLeft
<1>3. \A t : Release(t) => StartLeft
  BY DEF Release, StartLeft
<1>4. \A b, s : StopSinking(b, s) => StartLeft
  BY <1>2 DEF StopSinking
<1>5. \A b, w, s : BeginLoad(b, w, s) => StartLeft
  BY <1>3 DEF BeginLoad
<1>6. \A g, s : PauseInPlace(g, s) \/ PauseReleasing(g, s) => StartLeft
  BY <1>4 DEF PauseInPlace, PauseReleasing, StartLeft
<1>7. \A s, k : Pause(s, k) => StartLeft
  BY <1>6 DEF Pause
<1>8. ReleaseHold => StartLeft
  BY <1>1, <1>4 DEF ReleaseHold
<1>9. LoadFails => StartLeft
  BY <1>2 DEF LoadFails
<1>10. CASE AskSink \/ Planned \/ ResumeInPlace \/ StepWhileStarting \/ WheelClick
  BY <1>10 DEF AskSink, Planned, ResumeInPlace, StepWhileStarting, WheelClick, StartLeft
<1>11. CASE ReleaseTimesOut \/ RepairStops
  BY <1>2, <1>11 DEF ReleaseTimesOut, ReleaseOver, RepairStops, StartLeft
<1>12. ASSUME NEW fits \in BOOLEAN, SinkAnswered(fits)
       PROVE  StartLeft
  BY <1>12 DEF SinkAnswered, ReleaseOver, StartLeft
<1>13. CASE BeginStart \/ PlanFails
  BY <1>9, <1>13 DEF BeginStart, PlanFails
<1>14. CASE NextStage \/ HoldLimit \/ TogglePause \/ StopAtEnd \/ StopPlayback
  BY <1>1, <1>4, <1>7, <1>8, <1>14 DEF NextStage, HoldLimit, TogglePause, StopAtEnd, StopPlayback
<1>15. CASE SeekBy
  BY <1>8, <1>15 DEF SeekBy, StartLeft
<1>16. ASSUME NEW why \in {"refused", "late", "lost"}, StartFails(why)
       PROVE  StartLeft
  BY <1>2, <1>16 DEF StartFails
<1>17. ASSUME NEW refused \in BOOLEAN, ApplySeek(refused)
       PROVE  StartLeft
  BY <1>1, <1>5, <1>17 DEF ApplySeek
<1>18. ASSUME NEW steps \in 0..1, NEW song \in BOOLEAN, PlaySong(steps, song)
       PROVE  StartLeft
  BY <1>5, <1>18 DEF PlaySong
<1>19. CASE SleepRequest \/ PrepareSleep \/ SdRepair
  BY <1>2, <1>3, <1>19 DEF SleepRequest, PrepareSleep, SdRepair
<1>20. CASE StaleEvent \/ TrackStarted \/ PlaybackError \/ TransportMoves \/ TransportFails \/ RestoreSleep
            \/ StartOpened
  BY <1>1, <1>4, <1>5, <1>20
     DEF StaleEvent, TrackStarted, PlaybackError, TransportMoves, TransportFails, RestoreSleep,
         StartOpened, StartLeft
<1>21. ASSUME NEW found \in BOOLEAN, TrackBoundary(found)
       PROVE  StartLeft
  BY <1>1, <1>21 DEF TrackBoundary
<1>22. ASSUME NEW next \in BOOLEAN, NEW again \in BOOLEAN, TrackEnded(next, again)
       PROVE  StartLeft
  BY <1>1, <1>5, <1>22 DEF TrackEnded
<1>23. ASSUME NEW b \in BOOLEAN, PeerLost(b) \/ SourceChange(b) \/ CardRemoved(b)
       PROVE  StartLeft
  BY <1>1, <1>2, <1>4, <1>6, <1>23 DEF PeerLost, SourceChange, CardRemoved
<1>24. QED
  BY <1>10, <1>11, <1>12, <1>13, <1>14, <1>15, <1>16, <1>17, <1>18, <1>19, <1>20, <1>21, <1>22, <1>23
     DEF TransportNext

(* Its other commands to the sink thread leave the requests as they are. *)
LEMMA MainLeavesRequests ==
  ASSUME TypeOK, Formed(sinkQ), TransportNext
  PROVE  Same(sinkQ, sinkQ') \/ (pc = "starting" /\ MayOpen /\ StartSent)
<1>1. sinkQ \in Seq(SinkCommand)
  BY DEF TypeOK, ChannelsTyped
<1>2. Same(sinkQ, sinkQ)
  BY <1>1 DEF Same
<1>3. Stop(FALSE) \in SinkCommand /\ Stop(FALSE).op # "Open" /\ Stop(FALSE).job = NoJob
  BY Messages DEF Stop
<1>4. CASE Sends
  <2>1. Click \in SinkCommand /\ Click.op # "Open" /\ Click.job = NoJob
    BY Messages DEF Click
  <2>2. Same(sinkQ, Offer(sinkQ, Click, SinkCap))
    BY <1>1, <2>1, OfferedSame
  <2>3. /\ Same(sinkQ, OfferTimes(sinkQ, Stop(FALSE), SinkCap, 1))
        /\ Same(sinkQ, OfferTimes(sinkQ, Stop(FALSE), SinkCap, 2))
    BY <1>1, <1>3, OfferedTwiceSame, Zenon
  <2>4. \/ sinkQ' = sinkQ
        \/ sinkQ' = OfferTimes(sinkQ, Stop(FALSE), SinkCap, 1)
        \/ sinkQ' = OfferTimes(sinkQ, Stop(FALSE), SinkCap, 2)
        \/ sinkQ' = Offer(sinkQ, Click, SinkCap)
    BY <1>4 DEF Sends
  <2>5. QED
    BY <1>2, <2>2, <2>3, <2>4, Zenon
<1>5. CASE AskSink
  <2> DEFINE c == IF txn.cmd = "Stop" THEN Stop(TRUE) ELSE Switch
  <2>1. c \in SinkCommand /\ c.op # "Open" /\ c.job = NoJob /\ sinkQ' = Append(sinkQ, c)
    BY <1>5, Messages DEF AskSink, Stop, Switch
  <2>2. QED
    BY <1>1, <2>1, SentSame
<1>6. CASE ReleaseTimesOut
  <2>1. sinkQ' = Unasked \/ sinkQ' = Offer(Unasked, Stop(FALSE), SinkCap)
    BY <1>6 DEF ReleaseTimesOut
  <2>2. Same(sinkQ, Unasked) /\ Unasked \in Seq(SinkCommand) /\ Formed(Unasked)
    BY <1>1, UnaskedSame DEF Same
  <2>3. Same(Unasked, Offer(Unasked, Stop(FALSE), SinkCap))
    BY <1>3, <2>2, OfferedSame
  <2>4. Same(sinkQ, Offer(Unasked, Stop(FALSE), SinkCap))
    BY <2>2, <2>3, SameAgain, Zenon
  <2>5. QED
    BY <2>1, <2>2, <2>4, Zenon
<1>7. ASSUME NEW fits \in BOOLEAN, SinkAnswered(fits)
      PROVE  Same(sinkQ, sinkQ')
  BY <1>2, <1>7 DEF SinkAnswered
<1>8. QED
  BY <1>4, <1>5, <1>6, <1>7, MainSends DEF TypeOK

LEMMA StopsAreNoJobs ==
  ASSUME TypeOK, DecodeSends
  PROVE  JobsIn(decodeQ') \subseteq JobsIn(decodeQ) \cup {NoJob}
<1>1. /\ decodeQ \in Seq(DecodeCommand) /\ StopDecoder \in DecodeCommand /\ StopDecoder.job = NoJob
      /\ DecodeCap \in Nat
  BY Messages, CapacityAssumption DEF TypeOK, ChannelsTyped, StopDecoder
<1>2. JobsIn(Offer(decodeQ, StopDecoder, DecodeCap)) \subseteq JobsIn(decodeQ) \cup {NoJob}
  BY <1>1, JobsOffered
<1>3. ASSUME NEW calls
      PROVE  JobsIn(OfferTimes(decodeQ, StopDecoder, DecodeCap, calls)) \subseteq JobsIn(decodeQ) \cup {NoJob}
  BY <1>1, JobsOfferedTwice
<1>4. QED
  BY <1>2, <1>3 DEF DecodeSends

(* The main thread adds no work but what it loads. *)
LEMMA MainWorks ==
  ASSUME TypeOK, TransportNext, NEW S, JobsIn(decodeQ') \subseteq Work \cup S
  PROVE  Work' \subseteq Work \cup S
<1>1. UNCHANGED <<sinkVars, decodeVars, streamQ>>
      /\ (events' = events \/ (events # <<>> /\ events' = Tail(events)))
  BY TransportLeaves
<1>2. events # <<>> => JobsIn(Tail(events)) \subseteq JobsIn(events)
  BY JobsTaken DEF TypeOK, ChannelsTyped
<1>3. JobsIn(events') \subseteq JobsIn(events)
  BY <1>1, <1>2
<1>4. UNCHANGED <<block, eof, stream, outbox, job, streamQ>>
  BY <1>1 DEF sinkVars, decodeVars
<1>5. JobsIn(decodeQ)' = JobsIn(decodeQ') /\ JobsIn(events)' = JobsIn(events')
      /\ JobsIn(streamQ)' = JobsIn(streamQ) /\ NoJob' = NoJob
  BY <1>4 DEF JobsIn, NoJob
<1>6. /\ JobsIn(events) \subseteq Work /\ JobsIn(streamQ) \subseteq Work
      /\ {NoJob, job, block, outbox.event.job} \subseteq Work /\ (eof => stream \in Work)
  BY DEF Work
<1>7. Work' = JobsIn(decodeQ') \cup JobsIn(streamQ) \cup JobsIn(events') \cup {NoJob, job, block, outbox.event.job}
                \cup (IF eof THEN {stream} ELSE {})
  BY <1>4, <1>5 DEF Work
<1>8. QED
  BY <1>3, <1>6, <1>7

LEMMA MainRequests ==
  ASSUME TransportNext, NEW S, JobsIn(sinkQ') \subseteq JobsIn(sinkQ) \cup S
  PROVE  Requests' \subseteq Requests \cup S
<1>1. UNCHANGED <<stream, opening>>
  BY TransportLeaves DEF sinkVars
<1>2. JobsIn(sinkQ)' = JobsIn(sinkQ') /\ NoJob' = NoJob
  BY DEF JobsIn, NoJob
<1>3. QED
  BY <1>1, <1>2 DEF Requests

(* A start becomes work when the device opened for it: all work so far is of  *)
(* earlier generations, and the open stream is its own.                       *)
LEMMA LoadKeepsStreams ==
  ASSUME TypeOK, StreamsInv, StartOpened
  PROVE  StreamsInv' /\ Work' \subseteq Work \cup {start} /\ start \notin Work
<1>0. TransportNext
  BY DEF TransportNext
<1>1. /\ pc = "poll" /\ pending.on /\ opened = "open"
      /\ decodeQ' = Append(decodeQ, Load(start)) /\ start' = NoJob /\ opened' = "none"
      /\ UNCHANGED <<sinkQ, gen>> /\ pending' = NoPending /\ txn' = txn
  BY DEF StartOpened, Went
<1>2. UNCHANGED <<spc, sink, stream, opening, block, eof>>
  BY <1>0, TransportLeaves DEF sinkVars
<1>3. Numbers' /\ Base' \in Nat /\ Base <= Base' /\ Base \in Nat /\ Work \subseteq JobRef
  BY <1>0, NumbersStay, WorkTyped DEF StreamsInv
<1>4. start # NoJob /\ opening = NoJob /\ stream = start /\ start \in JobRef
  BY <1>1 DEF StreamsInv, Answered, TypeOK, MainTyped
<1>5. start.gen > 0 /\ start.gen = pending.gen /\ Base = pending.was /\ pending.was < pending.gen
      /\ pending.gen <= gen
  BY <1>1, <1>4 DEF StreamsInv, Numbers, Base
<1>6. Base' = gen
  <2>1. txn.why # "load"
    BY <1>1 DEF StreamsInv, Numbers, MainStages
  <2>2. QED
    BY <1>1, <2>1 DEF Base, NoPending
<1>7. Base < start.gen /\ start.gen <= Base'
  <2>1. pending.was \in Nat /\ pending.gen \in Nat /\ gen \in Nat
    BY DEF TypeOK, MainTyped, Pending
  <2>2. QED
    BY <1>5, <1>6, <2>1
<1>8. JobsIn(decodeQ') = JobsIn(decodeQ) \cup {start}
  BY <1>1, <1>4, JobsSent, Messages DEF TypeOK, ChannelsTyped, Load
<1>9. Work' \subseteq Work \cup {start}
  BY <1>0, <1>8, MainWorks DEF Work
<1>10. Requests' = Requests /\ start \in Requests
  BY <1>1, <1>2, <1>4 DEF Requests, JobsIn, NoJob
<1>17. Requests \subseteq {NoJob, start}
  <2>1. Opens = {}
    BY <1>1, <1>4 DEF StreamsInv, Answered
  <2>2. ASSUME NEW i \in 1..Len(sinkQ)
        PROVE  sinkQ[i].job = NoJob
    BY <2>1 DEF Opens, StreamsInv, OneRequest, Formed
  <2>3. QED
    BY <1>4, <2>2 DEF Requests, JobsIn
<1>11. \A d \in Work : d # NoJob => d.gen > 0 /\ d.gen <= Base
  BY DEF StreamsInv, Apart
<1>12. start \notin Work
  BY <1>3, <1>4, <1>7, <1>11 DEF JobRef
<1>13. Apart'
  <2>1. \A d \in Work' : d # NoJob => d.gen > 0 /\ d.gen <= Base'
    BY <1>3, <1>5, <1>7, <1>9, <1>11 DEF JobRef
  <2>2. ASSUME NEW d \in Work', NEW o \in Requests, d # NoJob, d.gen = o.gen
        PROVE  d = o
    <3>1. CASE d \in Work
      BY <2>2, <3>1 DEF StreamsInv, Apart
    <3>2. CASE d = start
      BY <1>5, <1>17, <2>2, <3>2 DEF NoJob
    <3>3. QED
      BY <1>9, <3>1, <3>2
  <2>3. QED
    BY <1>10, <2>1, <2>2 DEF StreamsInv, Apart, NoJob
<1>14. SinkPlaysItsJob' /\ OneRequest'
  BY <1>1, <1>2 DEF StreamsInv, SinkPlaysItsJob, OneRequest, Formed, NoOpen, NoJob
<1>15. Answered'
  BY <1>1 DEF Answered, NoJob
<1>16. QED
  BY <1>3, <1>9, <1>12, <1>13, <1>14, <1>15 DEF StreamsInv

(* The next start is asked for when the sink thread was heard to be silent:   *)
(* its request is the only one, and no work is of its generation.             *)
LEMMA StartKeepsStreams ==
  ASSUME TypeOK, Released, StreamsInv, pc = "starting", MayOpen, StartSent
  PROVE  StreamsInv' /\ Work' \subseteq Work
<1> DEFINE j == [id |-> starts, gen |-> txn.gen]
<1>0. TransportNext
  BY DEF TransportNext, BeginStart
<1>1. /\ sinkQ' = Append(sinkQ, Open(j)) /\ start' = j /\ opened' = "none" /\ decodeQ' = decodeQ
      /\ gen' = txn.gen
  BY DEF StartSent, SendOpen
<1>2. UNCHANGED <<spc, sink, stream, opening, block, eof>>
  BY <1>0, TransportLeaves DEF sinkVars
<1>3. Numbers' /\ Base' \in Nat /\ Base <= Base' /\ Base \in Nat /\ Work \subseteq JobRef
  BY <1>0, NumbersStay, WorkTyped DEF StreamsInv
<1>4. /\ txn.gen \in Nat /\ txn.was \in Nat /\ starts \in Nat /\ gen \in Nat
      /\ txn.why = "load" /\ ~pending.on /\ txn.gen = gen + 1 /\ txn.was <= gen /\ starts > 0
  BY DEF TypeOK, MainTyped, Txn, StreamsInv, Numbers
<1>5. Base = txn.was /\ Base < j.gen /\ j.gen > 0 /\ j.id > 0
  BY <1>4 DEF Base
<1>6. j \in JobRef /\ j # NoJob
  BY <1>4 DEF JobRef, NoJob
<1>7. Silent
  BY DEF MayOpen, Released
<1>8. opening = NoJob /\ NoOpen(sinkQ) /\ spc # "opening"
  BY <1>7 DEF Silent, StreamsInv, OneRequest
<1> HIDE DEF j
<1>9. Formed(sinkQ') /\ OpensIn(sinkQ') = {Open(j)} /\ JobsIn(sinkQ') = JobsIn(sinkQ) \cup {j}
  BY <1>1, <1>6, <1>8, RequestSent DEF StreamsInv, OneRequest, TypeOK, ChannelsTyped
<1>10. Work' \subseteq Work
  <2>1. JobsIn(decodeQ') \subseteq Work \cup {}
    BY <1>1 DEF Work
  <2>2. QED
    BY <1>0, <2>1, MainWorks
<1>11. Requests' \subseteq Requests \cup {j}
  BY <1>0, <1>9, MainRequests
<1>12. Apart'
  <2>1. \A d \in Work' : d # NoJob => d.gen > 0 /\ d.gen <= Base'
    BY <1>3, <1>10 DEF JobRef, StreamsInv, Apart
  <2>2. ASSUME NEW d \in Work', NEW o \in Requests', d # NoJob, d.gen = o.gen
        PROVE  d = o
    <3>1. d \in Work /\ d.gen \in Nat /\ d.gen <= Base
      BY <1>3, <1>10, <2>2 DEF JobRef, StreamsInv, Apart
    <3>2. o # j
      BY <1>3, <1>5, <2>2, <3>1
    <3>3. QED
      BY <1>11, <2>2, <3>1, <3>2 DEF StreamsInv, Apart
  <2>3. QED
    BY <1>5, <1>11, <2>1, <2>2 DEF StreamsInv, Apart, NoJob
<1>13. SinkPlaysItsJob'
  BY <1>2 DEF StreamsInv, SinkPlaysItsJob, NoJob
<1>14. OneRequest'
  BY <1>2, <1>8, <1>9 DEF OneRequest, NoJob, Formed
<1>15. Answered'
  <2>1. Opens' = {Open(j)} /\ Open(start)' = Open(j) /\ NoJob' = NoJob
    BY <1>1, <1>9 DEF Opens, OpensIn, Open, NoJob
  <2>2. QED
    BY <1>1, <1>2, <1>6, <1>8, <2>1 DEF Answered
<1>16. QED
  BY <1>3, <1>10, <1>12, <1>13, <1>14, <1>15 DEF StreamsInv

LEMMA MainKeepsStreams ==
  ASSUME TypeOK, Released, StreamsInv, TransportNext
  PROVE  StreamsInv' /\ (StartOpened \/ Work' \subseteq Work)
<1>1. CASE StartOpened
  BY <1>1, LoadKeepsStreams
<1>2. CASE pc = "starting" /\ MayOpen /\ StartSent
  BY <1>2, StartKeepsStreams
<1>3. CASE DecodeSends /\ StartLeft /\ Same(sinkQ, sinkQ')
  <2>1. UNCHANGED <<spc, sink, stream, opening, block, eof>>
    BY TransportLeaves DEF sinkVars
  <2>2. Numbers' /\ Base' \in Nat /\ Base <= Base'
    BY NumbersStay DEF StreamsInv
  <2>3. Work' \subseteq Work
    <3>1. JobsIn(decodeQ') \subseteq Work \cup {}
      BY <1>3, StopsAreNoJobs DEF Work
    <3>2. QED
      BY <3>1, MainWorks
  <2>4. Requests' \subseteq Requests
    <3>1. JobsIn(sinkQ') \subseteq JobsIn(sinkQ) \cup {NoJob}
      BY <1>3 DEF Same
    <3>2. QED
      BY <3>1, MainRequests DEF Requests
  <2>5. Apart'
    BY <2>2, <2>3, <2>4, ApartStays DEF StreamsInv
  <2>6. Formed(sinkQ') /\ OpensIn(sinkQ') = OpensIn(sinkQ)
    BY <1>3 DEF Same
  <2>7. Opens = OpensIn(sinkQ) /\ Opens' = OpensIn(sinkQ')
    BY DEF Opens, OpensIn
  <2>8. /\ NoOpen(sinkQ) <=> OpensIn(sinkQ) = {}
        /\ NoOpen(sinkQ') <=> OpensIn(sinkQ') = {}
    BY NoOpensIn
  <2>9. SinkPlaysItsJob'
    BY <2>1 DEF StreamsInv, SinkPlaysItsJob, NoJob
  <2>10. OneRequest'
    BY <2>1, <2>6, <2>8 DEF StreamsInv, OneRequest, NoJob, Formed, NoOpen
  <2>11. Answered'
    <3>1. NoJob' = NoJob /\ Open(start)' = [op |-> "Open", job |-> start', ask |-> FALSE]
      BY DEF NoJob, Open
    <3>2. CASE start' = NoJob /\ opened' = "none"
      BY <3>1, <3>2 DEF Answered
    <3>3. CASE start' = start /\ opened' = opened
      BY <2>1, <2>6, <2>7, <3>1, <3>3 DEF StreamsInv, Answered, Open
    <3>4. QED
      BY <1>3, <3>2, <3>3 DEF StartLeft
  <2>12. QED
    BY <2>2, <2>3, <2>5, <2>9, <2>10, <2>11 DEF StreamsInv
<1>4. Formed(sinkQ)
  BY DEF StreamsInv, OneRequest
<1>5. QED
  BY <1>1, <1>2, <1>3, <1>4, MainLeavesRequests, MainSendsStops, MainStarts

-----------------------------------------------------------------------------
LEMMA StreamsBegin == Init => Released /\ StreamsInv
<1> SUFFICES ASSUME Init
             PROVE  Released /\ StreamsInv
  OBVIOUS
<1>1. /\ pc = "poll" /\ gen = 0 /\ pending = NoPending /\ start = NoJob /\ opened = "none"
      /\ txn = NoTxn /\ sinkQ = <<>> /\ decodeQ = <<>> /\ streamQ = <<>> /\ events = <<>>
      /\ job = NoJob /\ block = NoJob /\ stream = NoJob /\ opening = NoJob /\ outbox = NoOutbox
      /\ eof = FALSE /\ spc = "commands" /\ ~sink /\ answer = "none"
  BY DEF Init, TransportInit, SinkInit, DecodeInit
<1>2. NoPending.on = FALSE /\ NoTxn.why = "none" /\ NoOutbox.event.job = NoJob
  BY DEF NoPending, NoTxn, NoOutbox
<1>3. Work = {NoJob} /\ Requests = {NoJob}
  BY <1>1, <1>2 DEF Work, Requests, JobsIn
<1>4. Apart
  BY <1>3 DEF Apart
<1>5. Numbers
  BY <1>1, <1>2 DEF Numbers
<1>6. SinkPlaysItsJob /\ OneRequest /\ Answered
  BY <1>1 DEF SinkPlaysItsJob, OneRequest, Formed, NoOpen, Answered
<1>7. Released
  BY <1>1 DEF Released, Silent, NoOpen, AskIsLast
<1>8. QED
  BY <1>4, <1>5, <1>6, <1>7 DEF StreamsInv

LEMMA StreamsStay ==
  ASSUME TypeOK, Released, StreamsInv, [Next]_vars
  PROVE  StreamsInv'
<1>1. CASE SinkNext
  <2>1. Numbers'
    BY <1>1, SinkThreadLeaves DEF StreamsInv, Numbers, NoJob
  <2>2. QED
    BY <1>1, <2>1, SinkKeepsApart, SinkKeepsRequests DEF StreamsInv
<1>2. CASE DecodeNext
  <2>1. Numbers'
    BY <1>2, DecodeThreadLeaves DEF StreamsInv, Numbers, NoJob, mainVars
  <2>2. QED
    BY <1>2, <2>1, DecodeKeepsStreams DEF StreamsInv
<1>3. CASE TransportNext
  BY <1>3, MainKeepsStreams
<1>4. CASE UNCHANGED vars
  BY <1>4 DEF vars, sharedVars, mainVars, sinkVars, decodeVars, StreamsInv, Numbers, Apart, Work,
              Requests, Base, JobsIn, SinkPlaysItsJob, OneRequest, Formed, NoOpen, Answered, Opens,
              Open, NoJob
<1>5. QED
  BY <1>1, <1>2, <1>3, <1>4 DEF Next

(* The invariant of this module, for every disturbance. *)
LEMMA StreamsHold == Spec => [](TypeOK /\ Released /\ StreamsInv)
<1>1. TypeOK /\ Released /\ StreamsInv /\ [Next]_vars => Released' /\ StreamsInv'
  BY StreamsStay, ReleasedStays DEF TypeOK
<1>2. QED
  BY <1>1, StreamsBegin, PipelineTypes, PTL DEF Spec

(* A start that is interrupted, abandoned, late or rolled back still sounds   *)
(* right: no block of another stream is written in its place, although the    *)
(* sink thread compares no more than generations, and the answer of its       *)
(* device stays on its way (its Open is neither lost nor doubled).            *)
THEOREM StartsSoundRight == Spec => []StartsAreSound
<1>1. StreamsInv => StartsAreSound
  BY DEF StreamsInv, Answered, StartsAreSound, AnswerIsComing
<1>2. QED
  BY <1>1, StreamsHold, PTL

-----------------------------------------------------------------------------
(* The end of a stream.  What is behind it: what was given to the decode      *)
(* thread, is decoded, sent or written.  The End of a job is its last item    *)
(* and the decode thread is done with it, so nothing of a stream whose End    *)
(* was taken is behind; nothing comes back, since a load is of a new job.     *)
Behind == JobsIn(decodeQ) \cup JobsIn(streamQ) \cup {NoJob, job, block}

EndsAreLast(q, jobs) ==
  \A i \in 1..Len(q) : q[i].kind = "End" =>
    /\ q[i].job \notin jobs
    /\ \A k \in 1..Len(q) : k > i => q[k].job # q[i].job

(* A load is given once, and is no job's yet. *)
LoadsAreOnce(q, jobs) ==
  \A i \in 1..Len(q) : q[i].job # NoJob =>
    /\ q[i].job \notin jobs
    /\ \A k \in 1..Len(q) : k # i => q[k].job # q[i].job

LoadsAreJobs(q) == \A i \in 1..Len(q) : q[i].op = "Load" => q[i].job # NoJob

EofIsLast == eof => stream \notin Behind

Ended(e) == e.kind = "TrackEnded" => e.job \notin Behind
AllEnded(q) == \A i \in 1..Len(q) : Ended(q[i])

EndsInv ==
  /\ EndsAreLast(streamQ, JobsIn(decodeQ) \cup {NoJob, job})
  /\ LoadsAreOnce(decodeQ, JobsIn(streamQ) \cup {job})
  /\ LoadsAreJobs(decodeQ)
  /\ dpc # "idle" => job # NoJob
  /\ EofIsLast
  /\ Ended(outbox.event) /\ AllEnded(events)

(* Taking an item, or a load, and sending one. *)
LEMMA EndTaken ==
  ASSUME NEW q \in Seq(Stream), q # <<>>, NEW jobs, EndsAreLast(q, jobs)
  PROVE  /\ EndsAreLast(Tail(q), jobs)
         /\ Head(q).kind = "End" => Head(q).job \notin jobs \cup JobsIn(Tail(q))
<1>1. /\ Len(q) \in Nat \ {0} /\ Len(Tail(q)) = Len(q) - 1 /\ Head(q) = q[1] /\ 1 \in 1..Len(q)
      /\ \A i \in 1..Len(Tail(q)) : Tail(q)[i] = q[i + 1] /\ i + 1 \in 1..Len(q)
  BY TailCommands
<1>2. ASSUME NEW i \in 1..Len(Tail(q)), Tail(q)[i].kind = "End"
      PROVE  /\ Tail(q)[i].job \notin jobs
             /\ \A k \in 1..Len(Tail(q)) : k > i => Tail(q)[k].job # Tail(q)[i].job
  <2>1. q[i + 1].kind = "End" /\ i + 1 \in 1..Len(q) /\ Tail(q)[i] = q[i + 1]
    BY <1>1, <1>2
  <2>2. q[i + 1].job \notin jobs /\ \A k \in 1..Len(q) : k > i + 1 => q[k].job # q[i + 1].job
    BY <2>1 DEF EndsAreLast
  <2>3. ASSUME NEW k \in 1..Len(Tail(q)), k > i
        PROVE  Tail(q)[k].job # Tail(q)[i].job
    <3>1. k + 1 \in 1..Len(q) /\ k + 1 > i + 1 /\ Tail(q)[k] = q[k + 1]
      BY <1>1, <2>3
    <3>2. QED
      BY <2>1, <2>2, <3>1
  <2>4. QED
    BY <2>1, <2>2, <2>3
<1>3. ASSUME Head(q).kind = "End"
      PROVE  Head(q).job \notin jobs \cup JobsIn(Tail(q))
  <2>1. q[1].job \notin jobs /\ \A k \in 1..Len(q) : k > 1 => q[k].job # q[1].job
    BY <1>1, <1>3 DEF EndsAreLast
  <2>2. ASSUME NEW i \in 1..Len(Tail(q))
        PROVE  Tail(q)[i].job # q[1].job
    <3>1. i + 1 \in 1..Len(q) /\ i + 1 > 1 /\ Tail(q)[i] = q[i + 1]
      BY <1>1
    <3>2. QED
      BY <2>1, <3>1
  <2>3. QED
    BY <1>1, <2>1, <2>2 DEF JobsIn
<1>4. QED
  BY <1>2, <1>3 DEF EndsAreLast

LEMMA EndSent ==
  ASSUME NEW q \in Seq(Stream), NEW m \in Stream, NEW jobs, NEW less \in SUBSET jobs,
         EndsAreLast(q, jobs), m.job \in jobs, m.kind = "End" => m.job \notin less
  PROVE  EndsAreLast(Append(q, m), less)
<1> DEFINE r == Append(q, m)
<1>1. /\ Len(r) = Len(q) + 1 /\ Len(q) \in Nat /\ r[Len(q) + 1] = m
      /\ \A i \in 1..Len(q) : r[i] = q[i]
  OBVIOUS
<1> HIDE DEF r
<1>2. ASSUME NEW i \in 1..Len(r), r[i].kind = "End"
      PROVE  r[i].job \notin less /\ \A k \in 1..Len(r) : k > i => r[k].job # r[i].job
  <2>1. CASE i \in 1..Len(q)
    <3>1. r[i] = q[i] /\ q[i].job \notin jobs /\ \A k \in 1..Len(q) : k > i => q[k].job # q[i].job
      BY <1>1, <1>2, <2>1 DEF EndsAreLast
    <3>2. ASSUME NEW k \in 1..Len(r), k > i
          PROVE  r[k].job # r[i].job
      <4>1. (k \in 1..Len(q) /\ r[k] = q[k]) \/ r[k] = m
        BY <1>1, <3>2
      <4>2. QED
        BY <3>1, <3>2, <4>1
    <3>3. QED
      BY <3>1, <3>2
  <2>2. CASE i = Len(q) + 1
    <3>1. \A k \in 1..Len(r) : ~(k > i)
      BY <1>1, <2>2
    <3>2. QED
      BY <1>1, <1>2, <2>2, <3>1
  <2>3. i \in 1..Len(q) \/ i = Len(q) + 1
    BY <1>1
  <2>4. QED
    BY <2>1, <2>2, <2>3
<1>3. QED
  BY <1>2 DEF EndsAreLast, r

LEMMA LoadTaken ==
  ASSUME NEW q \in Seq(DecodeCommand), q # <<>>, NEW jobs, LoadsAreOnce(q, jobs), LoadsAreJobs(q)
  PROVE  /\ LoadsAreOnce(Tail(q), jobs \cup {Head(q).job}) /\ LoadsAreJobs(Tail(q))
         /\ Head(q).op = "Load" => Head(q).job \notin jobs \cup JobsIn(Tail(q)) \cup {NoJob}
<1>1. /\ Len(q) \in Nat \ {0} /\ Len(Tail(q)) = Len(q) - 1 /\ Head(q) = q[1] /\ 1 \in 1..Len(q)
      /\ \A i \in 1..Len(Tail(q)) : Tail(q)[i] = q[i + 1] /\ i + 1 \in 1..Len(q)
  BY TailCommands
<1>2. ASSUME NEW i \in 1..Len(Tail(q)), Tail(q)[i].job # NoJob
      PROVE  /\ Tail(q)[i].job \notin jobs \cup {Head(q).job}
             /\ \A k \in 1..Len(Tail(q)) : k # i => Tail(q)[k].job # Tail(q)[i].job
  <2>1. q[i + 1].job # NoJob /\ i + 1 \in 1..Len(q) /\ Tail(q)[i] = q[i + 1] /\ 1 # i + 1
    BY <1>1, <1>2
  <2>2. q[i + 1].job \notin jobs /\ \A k \in 1..Len(q) : k # i + 1 => q[k].job # q[i + 1].job
    BY <2>1 DEF LoadsAreOnce
  <2>3. ASSUME NEW k \in 1..Len(Tail(q)), k # i
        PROVE  Tail(q)[k].job # Tail(q)[i].job
    <3>1. k + 1 \in 1..Len(q) /\ k + 1 # i + 1 /\ Tail(q)[k] = q[k + 1]
      BY <1>1, <2>3
    <3>2. QED
      BY <2>1, <2>2, <3>1
  <2>4. QED
    BY <1>1, <2>1, <2>2, <2>3
<1>3. ASSUME Head(q).op = "Load"
      PROVE  Head(q).job \notin jobs \cup JobsIn(Tail(q)) \cup {NoJob}
  <2>1. q[1].job # NoJob
    BY <1>1, <1>3 DEF LoadsAreJobs
  <2>2. q[1].job \notin jobs /\ \A k \in 1..Len(q) : k # 1 => q[k].job # q[1].job
    BY <1>1, <2>1 DEF LoadsAreOnce
  <2>3. ASSUME NEW i \in 1..Len(Tail(q))
        PROVE  Tail(q)[i].job # q[1].job
    <3>1. i + 1 \in 1..Len(q) /\ i + 1 # 1 /\ Tail(q)[i] = q[i + 1]
      BY <1>1
    <3>2. QED
      BY <2>2, <3>1
  <2>4. QED
    BY <1>1, <2>1, <2>2, <2>3 DEF JobsIn
<1>4. LoadsAreJobs(Tail(q))
  BY <1>1 DEF LoadsAreJobs
<1>5. QED
  BY <1>2, <1>3, <1>4 DEF LoadsAreOnce

LEMMA LoadSent ==
  ASSUME NEW q \in Seq(DecodeCommand), NEW m \in DecodeCommand, NEW jobs,
         LoadsAreOnce(q, jobs), LoadsAreJobs(q),
         m.job = NoJob \/ m.job \notin jobs \cup JobsIn(q),
         m.op = "Load" => m.job # NoJob
  PROVE  LoadsAreOnce(Append(q, m), jobs) /\ LoadsAreJobs(Append(q, m))
<1> DEFINE r == Append(q, m)
<1>1. /\ Len(r) = Len(q) + 1 /\ Len(q) \in Nat /\ r[Len(q) + 1] = m
      /\ \A i \in 1..Len(q) : r[i] = q[i]
  OBVIOUS
<1>2. m.job # NoJob => \A i \in 1..Len(q) : q[i].job # m.job
  BY DEF JobsIn
<1> HIDE DEF r
<1>3. \A i \in 1..Len(r) : i \in 1..Len(q) \/ i = Len(q) + 1
  BY <1>1
<1>4. LoadsAreJobs(r)
  BY <1>1, <1>3 DEF LoadsAreJobs
<1>5. ASSUME NEW i \in 1..Len(r), r[i].job # NoJob
      PROVE  r[i].job \notin jobs /\ \A k \in 1..Len(r) : k # i => r[k].job # r[i].job
  <2>1. CASE i \in 1..Len(q)
    <3>1. r[i] = q[i] /\ q[i].job \notin jobs /\ \A k \in 1..Len(q) : k # i => q[k].job # q[i].job
      BY <1>1, <1>5, <2>1 DEF LoadsAreOnce
    <3>2. m.job # q[i].job
      BY <1>2, <1>5, <2>1, <3>1
    <3>3. \A k \in 1..Len(r) : r[k] = m \/ (k \in 1..Len(q) /\ r[k] = q[k])
      BY <1>1, <1>3
    <3>4. QED
      BY <3>1, <3>2, <3>3
  <2>2. CASE i = Len(q) + 1
    <3>1. r[i] = m /\ m.job \notin jobs
      BY <1>1, <1>5, <2>2
    <3>2. \A k \in 1..Len(r) : k # i => k \in 1..Len(q) /\ r[k] = q[k]
      BY <1>1, <1>3, <2>2
    <3>3. QED
      BY <1>2, <1>5, <3>1, <3>2
  <2>3. QED
    BY <1>3, <2>1, <2>2
<1>6. QED
  BY <1>4, <1>5 DEF LoadsAreOnce, r

(* What the sink thread takes, ends and reports in a step. *)
SinkEnds ==
  /\ block' \in {NoJob, block} \/ (streamQ # <<>> /\ block' = Head(streamQ).job)
  /\ streamQ' = streamQ \/ (streamQ # <<>> /\ streamQ' = Tail(streamQ))
  /\ eof' => /\ stream' = stream
             /\ \/ eof
                \/ /\ streamQ # <<>> /\ Head(streamQ).kind = "End" /\ Head(streamQ).job.gen = stream.gen
                   /\ streamQ' = Tail(streamQ) /\ block' = NoJob
  /\ \/ outbox' = outbox \/ outbox'.event.kind # "TrackEnded"
     \/ eof /\ outbox'.event.job = stream
  /\ events' = events \/ events' = Append(events, outbox.event)

LEMMA SinkLeavesEnds ==
  ASSUME SinkNext
  PROVE  SinkEnds
<1> USE DEF SinkEnds, GoOn, Emit
<1>1. CASE OpenStale \/ ClickWakes
  BY <1>1 DEF OpenStale, ClickWakes, sinkVars
<1>2. CASE CommandsDone \/ Hold
  <2>1. UNCHANGED <<block, eof, outbox, streamQ, events, stream>>
    BY <1>2 DEF CommandsDone, Hold, sharedVars
  <2>2. QED
    BY <2>1
<1>3. ASSUME NEW reuse \in BOOLEAN, NEW prepared \in BOOLEAN, OpenCurrent(reuse, prepared)
      PROVE  SinkEnds
  BY <1>3 DEF OpenCurrent
<1>4. ASSUME NEW b \in BOOLEAN, DeviceOpened(b) \/ ClickSinkOpened(b) \/ NoHold(b)
      PROVE  SinkEnds
  BY <1>4 DEF DeviceOpened, ClickSinkOpened, NoHold, sharedVars
<1>5. ASSUME NEW k \in BOOLEAN, SinkRelease(k) \/ Drained(k)
      PROVE  SinkEnds
  BY <1>5 DEF SinkRelease, Drained, StreamOver, sharedVars
<1>6. ASSUME NEW k \in BOOLEAN, NEW late \in BOOLEAN, Stopped(k, late)
      PROVE  SinkEnds
  BY <1>6 DEF Stopped, sharedVars
<1>7. CASE NothingReceived \/ NothingToWrite \/ NotDrained
  BY <1>7 DEF NothingReceived, NothingToWrite, NotDrained, sharedVars
<1>8. CASE ReceiveBoundary
  BY <1>8 DEF ReceiveBoundary
<1>9. CASE ReceiveEnd
  BY <1>9 DEF ReceiveEnd, OfStream
<1>10. ASSUME NEW converts \in BOOLEAN, ReceivePcm(converts)
       PROVE  SinkEnds
  BY <1>10 DEF ReceivePcm
<1>11. ASSUME NEW progress \in BOOLEAN, NEW finished \in BOOLEAN, Write(progress, finished)
       PROVE  SinkEnds
  BY <1>11 DEF Write, sharedVars
<1>12. CASE WriteFails
  BY <1>12 DEF WriteFails, sharedVars
<1>13. CASE SinkEmit
  BY <1>13 DEF SinkEmit, NoOutbox
<1>14. QED
  BY <1>1, <1>2, <1>3, <1>4, <1>5, <1>6, <1>7, <1>8, <1>9, <1>10, <1>11, <1>12, <1>13 DEF SinkNext

LEMMA SinkKeepsEnds ==
  ASSUME TypeOK, StreamsInv, EndsInv, SinkNext
  PROVE  EndsInv'
<1>1. SinkEnds
  BY SinkLeavesEnds
<1>2. decodeQ' = decodeQ /\ job' = job /\ dpc' = dpc /\ NoJob' = NoJob
  BY SinkThreadLeaves DEF decodeVars, NoJob
<1>3. streamQ \in Seq(Stream) /\ events \in Seq(Event) /\ outbox.event \in Event
  BY DEF TypeOK, ChannelsTyped, SinkTyped
<1>4. streamQ # <<>> => /\ JobsIn(Tail(streamQ)) \subseteq JobsIn(streamQ)
                        /\ Head(streamQ).job \in JobsIn(streamQ)
  BY <1>3, JobsTaken
<1>5. JobsIn(streamQ') \subseteq JobsIn(streamQ) /\ JobsIn(streamQ)' = JobsIn(streamQ')
      /\ JobsIn(decodeQ)' = JobsIn(decodeQ)
  BY <1>1, <1>2, <1>4 DEF SinkEnds, JobsIn
<1>6. Behind' \subseteq Behind
  <2>1. block' \in Behind
    BY <1>1, <1>4 DEF SinkEnds, Behind
  <2>2. Behind' = JobsIn(decodeQ) \cup JobsIn(streamQ') \cup {NoJob, job, block'}
    BY <1>2, <1>5 DEF Behind
  <2>3. QED
    BY <1>5, <2>1, <2>2 DEF Behind
<1>7. EndsAreLast(streamQ', JobsIn(decodeQ) \cup {NoJob, job})
  BY <1>1, <1>3, EndTaken DEF SinkEnds, EndsInv
<1>8. LoadsAreOnce(decodeQ, JobsIn(streamQ') \cup {job})
  BY <1>5 DEF LoadsAreOnce, EndsInv
<1>9. EofIsLast'
  <2>1. CASE eof' /\ eof
    BY <1>1, <1>6, <2>1 DEF SinkEnds, EndsInv, EofIsLast
  <2>2. CASE eof' /\ ~eof
    <3>1. /\ stream' = stream /\ streamQ # <<>> /\ Head(streamQ).kind = "End"
          /\ Head(streamQ).job.gen = stream.gen /\ streamQ' = Tail(streamQ) /\ block' = NoJob
      BY <1>1, <2>2 DEF SinkEnds
    <3>2. Head(streamQ).job \in Work
      BY <1>4, <3>1 DEF Work
    <3>3. Head(streamQ).job = stream
      BY <3>1, <3>2, OfTheStream DEF StreamsInv
    <3>4. stream \notin JobsIn(decodeQ) \cup {NoJob, job} \cup JobsIn(streamQ')
      BY <1>3, <3>1, <3>3, EndTaken DEF EndsInv
    <3>5. QED
      BY <1>2, <1>5, <3>1, <3>4 DEF EofIsLast, Behind
  <2>3. QED
    BY <2>1, <2>2 DEF EofIsLast
<1>11. Ended(outbox.event)'
  <2>1. CASE outbox' = outbox
    BY <1>6, <2>1 DEF Ended, EndsInv
  <2>2. CASE outbox'.event.kind # "TrackEnded"
    BY <2>2 DEF Ended
  <2>3. CASE eof /\ outbox'.event.job = stream
    BY <1>6, <2>3 DEF Ended, EndsInv, EofIsLast
  <2>4. QED
    BY <1>1, <2>1, <2>2, <2>3 DEF SinkEnds
<1>12. AllEnded(events)'
  <2>1. CASE events' = events
    BY <1>6, <2>1 DEF AllEnded, Ended, EndsInv
  <2>2. CASE events' = Append(events, outbox.event)
    <3>1. \A i \in 1..Len(events') : (i \in 1..Len(events) /\ events'[i] = events[i]) \/ events'[i] = outbox.event
      BY <1>3, <2>2
    <3>2. QED
      BY <1>6, <3>1 DEF AllEnded, Ended, EndsInv
  <2>3. QED
    BY <1>1, <2>1, <2>2 DEF SinkEnds
<1>13. QED
  <2>1. EndsAreLast(streamQ, JobsIn(decodeQ) \cup {NoJob, job})'
    BY <1>2, <1>5, <1>7 DEF EndsAreLast
  <2>2. LoadsAreOnce(decodeQ, JobsIn(streamQ) \cup {job})'
    BY <1>2, <1>5, <1>8 DEF LoadsAreOnce
  <2>3. LoadsAreJobs(decodeQ)' /\ (dpc' # "idle" => job' # NoJob')
    BY <1>2 DEF LoadsAreJobs, EndsInv
  <2>4. QED
    BY <1>9, <1>11, <1>12, <2>1, <2>2, <2>3 DEF EndsInv

(* What the main thread loads is new. *)
LEMMA MainKeepsEnds ==
  ASSUME TypeOK, Released, StreamsInv, EndsInv, TransportNext
  PROVE  EndsInv'
<1> DEFINE S == IF StartOpened THEN {start} ELSE {}
<1>1. /\ UNCHANGED <<block, eof, stream, outbox, job, dpc, streamQ>> /\ NoJob' = NoJob
      /\ events' = events \/ (events # <<>> /\ events' = Tail(events))
  BY TransportLeaves DEF sinkVars, decodeVars, NoJob
<1>2. /\ decodeQ \in Seq(DecodeCommand) /\ events \in Seq(Event)
  BY DEF TypeOK, ChannelsTyped
<1>3. /\ StopDecoder \in DecodeCommand /\ StopDecoder.job = NoJob /\ StopDecoder.op # "Load"
      /\ DecodeCap \in Nat
  BY Messages, CapacityAssumption DEF StopDecoder
<1>4. /\ JobsIn(decodeQ') \subseteq JobsIn(decodeQ) \cup {NoJob} \cup S
      /\ S \cap Work = {}
      /\ LoadsAreOnce(decodeQ', JobsIn(streamQ) \cup {job}) /\ LoadsAreJobs(decodeQ')
  <2>1. CASE StartOpened
    <3>1. decodeQ' = Append(decodeQ, Load(start)) /\ start # NoJob /\ start \in JobRef
      BY <2>1 DEF StartOpened, StreamsInv, Answered, TypeOK, MainTyped
    <3>2. Load(start) \in DecodeCommand /\ Load(start).job = start /\ Load(start).op = "Load"
      BY <3>1, Messages DEF Load
    <3>3. start \notin Work
      BY <2>1, LoadKeepsStreams
    <3>4. JobsIn(decodeQ') = JobsIn(decodeQ) \cup {start}
      BY <1>2, <3>1, <3>2, JobsSent
    <3>5. start \notin JobsIn(streamQ) \cup {job} \cup JobsIn(decodeQ)
      BY <3>3 DEF Work
    <3>6. LoadsAreOnce(decodeQ', JobsIn(streamQ) \cup {job}) /\ LoadsAreJobs(decodeQ')
      BY <1>2, <3>1, <3>2, <3>5, LoadSent DEF EndsInv
    <3>7. QED
      BY <2>1, <3>3, <3>4, <3>6
  <2>2. CASE DecodeSends /\ ~StartOpened
    <3> DEFINE jobs == JobsIn(streamQ) \cup {job}
    <3>1. JobsIn(decodeQ') \subseteq JobsIn(decodeQ) \cup {NoJob}
      BY <2>2, StopsAreNoJobs
    <3>2. ASSUME NEW q \in Seq(DecodeCommand), LoadsAreOnce(q, jobs), LoadsAreJobs(q)
          PROVE  LET r == Offer(q, StopDecoder, DecodeCap)
                 IN  r \in Seq(DecodeCommand) /\ LoadsAreOnce(r, jobs) /\ LoadsAreJobs(r)
      <4>1. /\ Append(q, StopDecoder) \in Seq(DecodeCommand)
            /\ LoadsAreOnce(Append(q, StopDecoder), jobs) /\ LoadsAreJobs(Append(q, StopDecoder))
        BY <1>3, <3>2, LoadSent
      <4>2. QED
        BY <3>2, <4>1 DEF Offer
    <3>3. LET o == Offer(decodeQ, StopDecoder, DecodeCap)
          IN  o \in Seq(DecodeCommand) /\ LoadsAreOnce(o, jobs) /\ LoadsAreJobs(o)
      BY <1>2, <3>2 DEF EndsInv
    <3>4. LET o == Offer(Offer(decodeQ, StopDecoder, DecodeCap), StopDecoder, DecodeCap)
          IN  LoadsAreOnce(o, jobs) /\ LoadsAreJobs(o)
      BY <3>2, <3>3
    <3>5. \/ decodeQ' = decodeQ \/ decodeQ' = Offer(decodeQ, StopDecoder, DecodeCap)
          \/ decodeQ' = Offer(Offer(decodeQ, StopDecoder, DecodeCap), StopDecoder, DecodeCap)
      BY <2>2 DEF DecodeSends, OfferTimes
    <3>6. LoadsAreOnce(decodeQ', jobs) /\ LoadsAreJobs(decodeQ')
      BY <3>3, <3>4, <3>5 DEF EndsInv
    <3>7. QED
      BY <2>2, <3>1, <3>6
  <2>3. QED
    BY <2>1, <2>2, MainSendsStops
<1> HIDE DEF S
<1>5. JobsIn(decodeQ)' = JobsIn(decodeQ') /\ JobsIn(streamQ)' = JobsIn(streamQ)
  BY <1>1 DEF JobsIn
<1>6. Behind' \subseteq Behind \cup S
  BY <1>1, <1>4, <1>5 DEF Behind
<1>7. EndsAreLast(streamQ, JobsIn(decodeQ) \cup {NoJob, job})'
  <2>1. \A i \in 1..Len(streamQ) : streamQ[i].job \in Work
    BY DEF Work, JobsIn
  <2>2. QED
    BY <1>1, <1>4, <1>5, <2>1 DEF EndsAreLast, EndsInv
<1>8. LoadsAreOnce(decodeQ, JobsIn(streamQ) \cup {job})' /\ LoadsAreJobs(decodeQ)'
  BY <1>1, <1>4, <1>5 DEF LoadsAreOnce, LoadsAreJobs
<1>9. EofIsLast'
  BY <1>1, <1>4, <1>6 DEF EofIsLast, EndsInv, Work
<1>10. Ended(outbox.event)'
  BY <1>1, <1>4, <1>6 DEF Ended, EndsInv, Work
<1>11. AllEnded(events)'
  <2>1. \A i \in 1..Len(events') : \E k \in 1..Len(events) : events'[i] = events[k]
    BY <1>1, <1>2, TailCommands
  <2>2. \A k \in 1..Len(events) : events[k].job \in Work
    BY DEF Work, JobsIn
  <2>3. QED
    BY <1>4, <1>6, <2>1, <2>2 DEF AllEnded, Ended, EndsInv
<1>12. QED
  BY <1>1, <1>7, <1>8, <1>9, <1>10, <1>11 DEF EndsInv

(* The decode thread begins a job once, and its End is the last of it. *)
DecodeEnds ==
  \/ /\ UNCHANGED <<decodeQ, streamQ>>
     /\ events' = events \/ events' = Append(events, [kind |-> "PlaybackError", job |-> job])
     /\ \/ job' = job /\ (dpc' # "idle" => dpc # "idle")
        \/ job' = NoJob /\ dpc' = "idle"
  \/ /\ dpc = "idle" /\ decodeQ # <<>> /\ decodeQ' = Tail(decodeQ)
     /\ UNCHANGED <<streamQ, events, job, dpc>>
  \/ /\ dpc = "idle" /\ decodeQ # <<>> /\ Head(decodeQ).op = "Load"
     /\ decodeQ' = Tail(decodeQ) /\ job' = Head(decodeQ).job /\ UNCHANGED <<streamQ, events>>
  \/ /\ dpc = "sending" /\ streamQ' = Append(streamQ, [kind |-> item, job |-> job])
     /\ UNCHANGED <<decodeQ, events>>
     /\ IF item = "End" THEN job' = NoJob /\ dpc' = "idle" ELSE job' = job

LEMMA DecodeLeavesEnds ==
  ASSUME DecodeNext
  PROVE  DecodeEnds
<1> USE DEF DecodeEnds, JobOver
<1>1. CASE SkipCommand
  BY <1>1 DEF SkipCommand, decodeVars
<1>2. CASE BeginJob
  BY <1>2 DEF BeginJob
<1>3. ASSUME NEW n \in 0..Blocks, OpenTrack(n)
      PROVE  DecodeEnds
  BY <1>3 DEF OpenTrack
<1>4. ASSUME NEW kind \in {"Pcm", "Boundary", "End"}, NEW n \in 0..Blocks, Decode(kind, n)
      PROVE  DecodeEnds
  BY <1>4 DEF Decode
<1>5. CASE DecodeFails \/ JobReplaced \/ DropItem
  BY <1>5 DEF DecodeFails, JobReplaced, DropItem
<1>6. CASE SendItem
  BY <1>6 DEF SendItem
<1>7. CASE DecodeError \/ DecodeReport
  BY <1>7 DEF DecodeError, DecodeReport
<1>8. QED
  BY <1>1, <1>2, <1>3, <1>4, <1>5, <1>6, <1>7 DEF DecodeNext

LEMMA DecodeKeepsEnds ==
  ASSUME TypeOK, EndsInv, DecodeNext
  PROVE  EndsInv'
<1>1. UNCHANGED <<block, eof, stream, outbox>> /\ NoJob' = NoJob
  BY DecodeThreadLeaves DEF sinkVars, NoJob
<1>2. /\ decodeQ \in Seq(DecodeCommand) /\ streamQ \in Seq(Stream) /\ events \in Seq(Event)
      /\ [kind |-> item, job |-> job] \in Stream /\ [kind |-> "PlaybackError", job |-> job] \in Event
  BY DEF TypeOK, ChannelsTyped, DecodeTyped, Stream, Event
<1>3. JobsIn(decodeQ)' = JobsIn(decodeQ') /\ JobsIn(streamQ)' = JobsIn(streamQ')
  BY DEF JobsIn
<1>4. ASSUME Behind' \subseteq Behind, events' = events \/ events' = Append(events, [kind |-> "PlaybackError", job |-> job])
      PROVE  EofIsLast' /\ Ended(outbox.event)' /\ AllEnded(events)'
  <2>1. EofIsLast' /\ Ended(outbox.event)'
    BY <1>1, <1>4 DEF EofIsLast, Ended, EndsInv
  <2> DEFINE m == [kind |-> "PlaybackError", job |-> job]
  <2>2. m \in Event /\ m.kind # "TrackEnded" /\ (events' = events \/ events' = Append(events, m))
    BY <1>2, <1>4
  <2> HIDE DEF m
  <2>3. \A i \in 1..Len(events') : (i \in 1..Len(events) /\ events'[i] = events[i]) \/ events'[i] = m
    BY <1>2, <2>2
  <2>4. QED
    BY <1>4, <2>1, <2>2, <2>3 DEF AllEnded, Ended, EndsInv
<1>5. CASE /\ UNCHANGED <<decodeQ, streamQ>>
           /\ events' = events \/ events' = Append(events, [kind |-> "PlaybackError", job |-> job])
           /\ \/ job' = job /\ (dpc' # "idle" => dpc # "idle")
              \/ job' = NoJob /\ dpc' = "idle"
  <2>1. EndsAreLast(streamQ, JobsIn(decodeQ) \cup {NoJob, job})'
    BY <1>1, <1>3, <1>5 DEF EndsAreLast, EndsInv
  <2>2. LoadsAreOnce(decodeQ, JobsIn(streamQ) \cup {job})' /\ LoadsAreJobs(decodeQ)'
    BY <1>1, <1>3, <1>5 DEF LoadsAreOnce, LoadsAreJobs, EndsInv
  <2>3. dpc' # "idle" => job' # NoJob'
    BY <1>1, <1>5 DEF EndsInv
  <2>4. Behind' \subseteq Behind
    BY <1>1, <1>3, <1>5 DEF Behind
  <2>5. QED
    BY <1>4, <1>5, <2>1, <2>2, <2>3, <2>4 DEF EndsInv
<1>6. CASE /\ dpc = "idle" /\ decodeQ # <<>> /\ decodeQ' = Tail(decodeQ)
           /\ UNCHANGED <<streamQ, events, job, dpc>>
  <2>1. JobsIn(decodeQ') \subseteq JobsIn(decodeQ)
    BY <1>2, <1>6, JobsTaken
  <2>2. EndsAreLast(streamQ, JobsIn(decodeQ) \cup {NoJob, job})'
    BY <1>1, <1>3, <1>6, <2>1 DEF EndsAreLast, EndsInv
  <2>3. LoadsAreOnce(Tail(decodeQ), JobsIn(streamQ) \cup {job} \cup {Head(decodeQ).job}) /\ LoadsAreJobs(Tail(decodeQ))
    BY <1>2, <1>6, LoadTaken DEF EndsInv
  <2>4. LoadsAreOnce(decodeQ, JobsIn(streamQ) \cup {job})' /\ LoadsAreJobs(decodeQ)'
    BY <1>1, <1>3, <1>6, <2>3 DEF LoadsAreOnce, LoadsAreJobs
  <2>5. Behind' \subseteq Behind
    BY <1>1, <1>3, <1>6, <2>1 DEF Behind
  <2>6. QED
    BY <1>1, <1>4, <1>6, <2>2, <2>4, <2>5 DEF EndsInv
<1>7. CASE /\ dpc = "idle" /\ decodeQ # <<>> /\ Head(decodeQ).op = "Load"
           /\ decodeQ' = Tail(decodeQ) /\ job' = Head(decodeQ).job /\ UNCHANGED <<streamQ, events>>
  <2>1. JobsIn(decodeQ') \subseteq JobsIn(decodeQ) /\ job' \in JobsIn(decodeQ)
    BY <1>2, <1>7, JobsTaken
  <2>2. EndsAreLast(streamQ, JobsIn(decodeQ) \cup {NoJob, job})'
    BY <1>1, <1>3, <1>7, <2>1 DEF EndsAreLast, EndsInv
  <2>3. /\ LoadsAreOnce(Tail(decodeQ), JobsIn(streamQ) \cup {job} \cup {Head(decodeQ).job})
        /\ LoadsAreJobs(Tail(decodeQ))
        /\ Head(decodeQ).job # NoJob
    BY <1>2, <1>7, LoadTaken DEF EndsInv
  <2>4. LoadsAreOnce(decodeQ, JobsIn(streamQ) \cup {job})' /\ LoadsAreJobs(decodeQ)'
    BY <1>1, <1>3, <1>7, <2>3 DEF LoadsAreOnce, LoadsAreJobs
  <2>5. Behind' \subseteq Behind
    BY <1>1, <1>3, <1>7, <2>1 DEF Behind
  <2>6. QED
    BY <1>1, <1>4, <1>7, <2>2, <2>3, <2>4, <2>5 DEF EndsInv
<1>8. CASE /\ dpc = "sending" /\ streamQ' = Append(streamQ, [kind |-> item, job |-> job])
           /\ UNCHANGED <<decodeQ, events>>
           /\ IF item = "End" THEN job' = NoJob /\ dpc' = "idle" ELSE job' = job
  <2> DEFINE m == [kind |-> item, job |-> job]
             old == JobsIn(decodeQ) \cup {NoJob, job}
             new == JobsIn(decodeQ) \cup {NoJob, job'}
  <2>1. m \in Stream /\ m.job = job /\ m.kind = item /\ streamQ' = Append(streamQ, m) /\ job # NoJob
    BY <1>2, <1>8 DEF EndsInv
  <2>2. \A i \in 1..Len(decodeQ) : decodeQ[i].job # job
    BY <2>1 DEF LoadsAreOnce, EndsInv
  <2>3. new \subseteq old /\ m.job \in old /\ (m.kind = "End" => m.job \notin new)
    BY <1>8, <2>1, <2>2 DEF JobsIn
  <2>4. EndsAreLast(streamQ, old)
    BY DEF EndsInv
  <2> HIDE DEF m, old, new
  <2>5. EndsAreLast(streamQ', new)
    BY <1>2, <2>1, <2>3, <2>4, EndSent
  <2>6. EndsAreLast(streamQ, JobsIn(decodeQ) \cup {NoJob, job})'
    BY <1>1, <1>3, <1>8, <2>5 DEF EndsAreLast, new
  <2>7. JobsIn(streamQ') = JobsIn(streamQ) \cup {job}
    BY <1>2, <2>1, JobsSent
  <2>8. LoadsAreOnce(decodeQ, JobsIn(streamQ) \cup {job})' /\ LoadsAreJobs(decodeQ)'
    BY <1>1, <1>3, <1>8, <2>7 DEF LoadsAreOnce, LoadsAreJobs, EndsInv
  <2>9. dpc' # "idle" => job' # NoJob'
    BY <1>1, <1>8, <2>1
  <2>10. Behind' \subseteq Behind
    BY <1>1, <1>3, <1>8, <2>7 DEF Behind
  <2>11. QED
    BY <1>4, <1>8, <2>6, <2>8, <2>9, <2>10 DEF EndsInv
<1>9. QED
  BY <1>5, <1>6, <1>7, <1>8, DecodeLeavesEnds DEF DecodeEnds

(* "TrackEnded" comes after everything of the stream: no block of it is       *)
(* queued, decoded or being written when it is reported, whatever stopped,    *)
(* replaced or restarted streams before: a song is never cut by its own end.  *)
THEOREM EndsAfterAll == Spec => []EndIsLast
<1>1. Init => EndsInv
  BY DEF Init, SinkInit, DecodeInit, NoOutbox, EndsInv, EndsAreLast, LoadsAreOnce, LoadsAreJobs, EofIsLast,
         Ended, AllEnded
<1>2. TypeOK /\ Released /\ StreamsInv /\ EndsInv /\ [Next]_vars => EndsInv'
  <2> SUFFICES ASSUME TypeOK, Released, StreamsInv, EndsInv, [Next]_vars
               PROVE  EndsInv'
    OBVIOUS
  <2>1. CASE UNCHANGED vars
    BY <2>1 DEF vars, sharedVars, mainVars, sinkVars, decodeVars, EndsInv, EndsAreLast, LoadsAreOnce,
                LoadsAreJobs, EofIsLast, Ended, AllEnded, Behind, JobsIn, NoJob
  <2>2. QED
    BY <2>1, SinkKeepsEnds, DecodeKeepsEnds, MainKeepsEnds DEF Next
<1>3. EndsInv => EndIsLast
  BY DEF EndsInv, Ended, AllEnded, Behind, JobsIn, EndIsLast, Reported, InStream
<1>4. QED
  BY <1>1, <1>2, <1>3, StreamsHold, PTL DEF Spec

-----------------------------------------------------------------------------
(* Events of the last start.  A pause, a stop, a repair and a transport that  *)
(* fails give the generation of an abandoned start back and go on past it; a  *)
(* lost peer and a source that changes may leave the model at it (the file    *)
(* may play on), so they are left out here.                                   *)
LEMMA AbandonedIsPassed ==
  ASSUME "SourceChange" \notin Disturbances, "PeerLost" \notin Disturbances, TransportNext
  PROVE  \/ pending' = pending \/ gen' = gen \/ gen' = gen + 1 \/ gen' = Abandoned + 1
         \/ pending.on /\ gen' = pending.gen + 1
         \/ pc = "starting" /\ MayOpen /\ StartSent
<1> DEFINE Goal ==
             \/ pending' = pending \/ gen' = gen \/ gen' = gen + 1 \/ gen' = Abandoned + 1
             \/ pending.on /\ gen' = pending.gen + 1
             \/ pc = "starting" /\ MayOpen /\ StartSent
<1>1. \A b, s : StopSinking(b, s) => gen' = b + 1
  BY DEF StopSinking
<1>2. \A s, k : Pause(s, k) => Goal
  BY <1>1 DEF Pause, PauseInPlace, PauseReleasing
<1>3. CASE AskSink \/ ReleaseTimesOut \/ RepairStops \/ Planned \/ PlanFails \/ NextStage \/ HoldLimit
  BY <1>3 DEF AskSink, ReleaseTimesOut, RepairStops, Planned, PlanFails, LoadFails, NextStage, HoldLimit
<1>4. CASE BeginStart
  BY <1>4 DEF BeginStart, LoadFails
<1>5. ASSUME NEW fits \in BOOLEAN, SinkAnswered(fits)
      PROVE  Goal
  BY <1>5 DEF SinkAnswered
<1>6. CASE StartOpened
  BY <1>6 DEF StartOpened
<1>7. ASSUME NEW why \in {"refused", "late", "lost"}, StartFails(why)
      PROVE  Goal
  BY <1>7 DEF StartFails
<1>8. ASSUME NEW refused \in BOOLEAN, ApplySeek(refused)
      PROVE  Goal
  BY <1>8 DEF ApplySeek
<1>9. CASE TogglePause \/ StopPlayback
  BY <1>2, <1>9 DEF TogglePause, StopPlayback
<1>10. CASE ResumeInPlace \/ StepWhileStarting \/ StopAtEnd \/ SeekBy \/ WheelClick \/ SleepRequest
  BY <1>10 DEF ResumeInPlace, StepWhileStarting, StopAtEnd, SeekBy, WheelClick, SleepRequest
<1>11. ASSUME NEW steps \in 0..1, NEW song \in BOOLEAN, PlaySong(steps, song)
       PROVE  Goal
  BY <1>11 DEF PlaySong
<1>12. CASE SdRepair
  BY <1>12 DEF SdRepair
<1>13. CASE StaleEvent \/ TrackStarted \/ PlaybackError \/ TransportMoves \/ PrepareSleep \/ RestoreSleep
  BY <1>13 DEF StaleEvent, TrackStarted, PlaybackError, TransportMoves, PrepareSleep, RestoreSleep
<1>14. ASSUME NEW found \in BOOLEAN, TrackBoundary(found)
       PROVE  Goal
  BY <1>14 DEF TrackBoundary
<1>15. ASSUME NEW next \in BOOLEAN, NEW again \in BOOLEAN, TrackEnded(next, again)
       PROVE  Goal
  BY <1>15 DEF TrackEnded
<1>16. CASE TransportFails
  BY <1>1, <1>16 DEF TransportFails
<1>17. ASSUME NEW b \in BOOLEAN, PeerLost(b) \/ SourceChange(b) \/ CardRemoved(b)
       PROVE  Goal
  BY <1>17 DEF PeerLost, SourceChange, CardRemoved
<1>18. QED
  BY <1>3, <1>4, <1>5, <1>6, <1>7, <1>8, <1>9, <1>10, <1>11, <1>12, <1>13, <1>14, <1>15, <1>16, <1>17
     DEF TransportNext

(* All work is of starts so far, and the work of the model's generation is of *)
(* the last one, but for the time a load waits with the next number.          *)
Fresh ==
  /\ \A d \in Work : d.id <= starts
  /\ start # NoJob => start.id = starts
  /\ txn.why # "load" => \A d \in Work : d.gen = gen => d.id = starts

(* The model's generation stays, or passes everything there is. *)
LEMMA GenerationPasses ==
  ASSUME "SourceChange" \notin Disturbances, "PeerLost" \notin Disturbances,
         TypeOK, Numbers, TransportNext
  PROVE  /\ (txn.why # "load" /\ gen' = gen) \/ gen' > Base \/ txn'.why = "load"
         /\ starts' >= starts /\ (txn'.why # "load" => starts' = starts)
         /\ start' = NoJob \/ (start' = start /\ starts' = starts) \/ (start'.id = starts /\ starts' = starts)
<1>1. /\ gen \in Nat /\ gen' \in Nat /\ txn.gen \in Nat /\ txn.was \in Nat /\ starts \in Nat
      /\ pending.gen \in Nat /\ pending.was \in Nat /\ pending.on \in BOOLEAN
  BY TransportTyped DEF TypeOK, MainTyped, Txn, Pending
<1>2. Abandoned \in Nat /\ Abandoned <= gen /\ (txn.why # "load" => Base = Abandoned)
      /\ (pending.on => Abandoned < pending.gen)
  BY <1>1 DEF Abandoned, Numbers, Base
<1>3. CASE Moves
  <2>1. txn.why # "load" /\ starts' = starts /\ (start' = start \/ start' = NoJob)
    BY <1>3 DEF Moves, Numbers
  <2>2. gen' = gen \/ gen' > Base
    <3>1. CASE pending' = pending /\ gen' >= gen
      BY <1>1, <1>2, <2>1, <3>1
    <3>2. CASE gen' = gen \/ gen' = gen + 1 \/ gen' = Abandoned + 1 \/ (pending.on /\ gen' = pending.gen + 1)
      BY <1>1, <1>2, <2>1, <3>2
    <3>3. CASE pending' = pending /\ pending' = NoPending /\ gen' >= Abandoned
      <4>1. ~pending.on
        BY <3>3 DEF NoPending
      <4>2. Abandoned = gen
        BY <4>1 DEF Abandoned
      <4>3. QED
        BY <1>1, <1>2, <2>1, <3>3, <4>2
    <3>4. ~(pc = "starting")
      BY <1>3 DEF Moves, MainStages
    <3>5. QED
      BY <1>3, <3>1, <3>2, <3>3, <3>4, AbandonedIsPassed DEF Moves
  <2>3. QED
    BY <1>1, <2>1, <2>2
<1>4. CASE GivesBack
  <2>1. txn.why # "load"
    BY <1>4 DEF GivesBack, Numbers
  <2>2. QED
    BY <1>1, <1>2, <1>4, <2>1 DEF GivesBack
<1>5. CASE Asks
  BY <1>1, <1>5 DEF Asks
<1>6. CASE Waits
  BY <1>1, <1>6 DEF Waits
<1>7. CASE Fails
  <2>1. Base = txn.was /\ gen' = txn.gen + 1 /\ txn.gen = gen + 1 /\ txn.was <= gen
    BY <1>7 DEF Fails, Numbers, Base
  <2>2. QED
    BY <1>1, <1>7, <2>1 DEF Fails
<1>8. CASE pc = "starting" /\ StartSent
  <2>1. Base = txn.was /\ txn.gen = gen + 1 /\ txn.was <= gen
    BY <1>8 DEF Numbers, Base
  <2>2. start' = [id |-> starts, gen |-> txn.gen] /\ gen' = txn.gen /\ starts' = starts
    BY <1>8 DEF StartSent, SendOpen
  <2>3. start'.id = starts
    BY <2>2
  <2>4. QED
    BY <1>1, <2>1, <2>2, <2>3
<1>9. CASE StartOpened
  <2>1. txn' = txn /\ gen' = gen /\ starts' = starts /\ start' = NoJob /\ txn.why # "load"
    BY <1>9 DEF StartOpened, Went, Numbers, MainStages
  <2>2. QED
    BY <1>1, <2>1
<1>10. QED
  BY <1>3, <1>4, <1>5, <1>6, <1>7, <1>8, <1>9, MainKeepsCount

LEMMA FreshStays ==
  ASSUME "SourceChange" \notin Disturbances, "PeerLost" \notin Disturbances,
         TypeOK, Released, StreamsInv, Fresh, [Next]_vars
  PROVE  Fresh'
<1>1. Work \subseteq JobRef /\ Base \in Nat /\ gen \in Nat /\ starts \in Nat /\ start \in JobRef /\ NoJob' = NoJob
  BY WorkTyped DEF TypeOK, MainTyped, NoJob
<1>2. CASE SinkNext
  <2>1. Work' \subseteq Work
    BY <1>2, SinkKeepsApart DEF StreamsInv
  <2>2. UNCHANGED <<starts, start, txn, gen>>
    BY <1>2, SinkThreadLeaves
  <2>3. QED
    BY <1>1, <2>1, <2>2 DEF Fresh
<1>3. CASE DecodeNext
  <2>1. Work' \subseteq Work
    BY <1>3, DecodeKeepsStreams DEF StreamsInv
  <2>2. UNCHANGED <<starts, start, txn, gen>>
    BY <1>3, DecodeThreadLeaves DEF mainVars
  <2>3. QED
    BY <1>1, <2>1, <2>2 DEF Fresh
<1>4. CASE TransportNext
  <2>1. Work' \subseteq Work \cup (IF start = NoJob THEN {} ELSE {start})
    <3>1. StartOpened => start # NoJob
      BY DEF StartOpened, StreamsInv, Answered
    <3>2. QED
      BY <1>4, <3>1, MainKeepsStreams, LoadKeepsStreams
  <2>2. /\ (txn.why # "load" /\ gen' = gen) \/ gen' > Base \/ txn'.why = "load"
        /\ starts' >= starts /\ (txn'.why # "load" => starts' = starts)
        /\ start' = NoJob \/ (start' = start /\ starts' = starts) \/ (start'.id = starts /\ starts' = starts)
    BY <1>4, GenerationPasses DEF StreamsInv
  <2>3. starts' \in Nat /\ gen' \in Nat
    BY <1>4, TransportTyped DEF TypeOK, MainTyped
  <2>4. ASSUME NEW d \in Work'
        PROVE  d.id <= starts'
    <3>1. d.id <= starts /\ d.id \in Nat
      BY <1>1, <2>1 DEF Fresh, JobRef
    <3>2. QED
      BY <1>1, <2>2, <2>3, <3>1
  <2>5. start' # NoJob => start'.id = starts'
    BY <2>2 DEF Fresh
  <2>6. ASSUME NEW d \in Work', txn'.why # "load", d.gen = gen'
        PROVE  d.id = starts'
    <3>1. CASE start # NoJob /\ d = start
      BY <2>2, <2>6, <3>1 DEF Fresh
    <3>2. CASE d \in Work
      <4>1. d.gen \in Nat /\ d.gen <= Base
        BY <1>1, <3>2 DEF JobRef, StreamsInv, Apart, NoJob
      <4>2. ~(gen' > Base)
        BY <1>1, <2>3, <2>6, <4>1
      <4>3. txn.why # "load" /\ gen' = gen /\ starts' = starts
        BY <2>2, <2>6, <4>2
      <4>4. QED
        BY <2>6, <3>2, <4>3 DEF Fresh
    <3>3. QED
      BY <2>1, <3>1, <3>2
  <2>7. QED
    BY <1>1, <2>4, <2>5, <2>6 DEF Fresh
<1>5. CASE UNCHANGED vars
  BY <1>5 DEF vars, sharedVars, mainVars, sinkVars, decodeVars, Fresh, Work, JobsIn, NoJob
<1>6. QED
  BY <1>2, <1>3, <1>4, <1>5 DEF Next

(* Generations alone keep the streams apart: the sink thread writes only      *)
(* blocks of the stream it was opened for, and an event the model accepts is  *)
(* of its last start, although rolled-back starts give generations again.     *)
THEOREM GenerationsSuffice ==
  ASSUME "SourceChange" \notin Disturbances, "PeerLost" \notin Disturbances
  PROVE  Spec => []StreamsApart
<1>1. Init => Fresh
  BY DEF Init, TransportInit, SinkInit, DecodeInit, NoOutbox, NoTxn, Fresh, Work, JobsIn, NoJob
<1>2. TypeOK /\ Released /\ StreamsInv /\ Fresh /\ [Next]_vars => Fresh'
  BY FreshStays
<1>3. StreamsInv /\ Fresh => StreamsApart
  <2> SUFFICES ASSUME StreamsInv, Fresh
               PROVE  SinkPlaysItsJob /\ EventsOfTheStart
    BY DEF StreamsApart
  <2>1. \A e \in Reported : e.job \in Work
    BY DEF Reported, Work, JobsIn
  <2>2. AtRest => txn.why # "load"
    BY DEF AtRest, StreamsInv, Numbers
  <2>3. QED
    BY <2>1, <2>2 DEF EventsOfTheStart, Fresh, StreamsInv
<1>4. QED
  BY <1>1, <1>2, <1>3, StreamsHold, PTL DEF Spec

-----------------------------------------------------------------------------
(* What plays has a stream.  A stream sounds when the sink was opened for it  *)
(* and is asked for nothing else; what will report its end is its load, its   *)
(* job, its End in the channel or taken, or the report itself.                *)
Inside(q)     == {q[i] : i \in 1..Len(q)}
OnlyClicks(q) == \A c \in Inside(q) : c.op = "Click"

(* Whatever else is asked of the sink is behind an Open. *)
Followed(q) ==
  \A i \in 1..Len(q) : q[i].op # "Click" => \E k \in 1..Len(q) : k >= i /\ q[k].op = "Open"

LastReports == {"TrackEnded", "PlaybackError"}

Ending(d) ==
  \/ d \in JobsIn(decodeQ) \cup {job}
  \/ \E s \in InStream : s.kind = "End" /\ s.job = d
  \/ eof /\ stream = d
  \/ \E e \in Reported : e.kind \in LastReports /\ e.job = d

Sounds(d) == stream = d /\ epoch = d.gen /\ OnlyClicks(sinkQ)
Ours(d)   == d # NoJob /\ d.gen = gen
Claims    == (Active /\ ~seek) \/ (play = "Paused" /\ hold)

(* Every item and event is of a job, a stop and an idle decode thread of none. *)
Named ==
  /\ \A c \in Inside(decodeQ) : c.op = "Stop" => c.job = NoJob
  /\ NoJob \notin JobsIn(streamQ) \cup JobsIn(events)
  /\ eof => stream # NoJob
  /\ spc = "emit" <=> outbox.event.job # NoJob
  /\ dpc = "idle" => job = NoJob

(* Nothing of a stream is reported after its end. *)
LastOfAll(q, last) ==
  \A i \in 1..Len(q) : q[i].kind = "TrackEnded" =>
    /\ q[i].job \notin last
    /\ \A k \in 1..Len(q) : k > i => q[k].job # q[i].job

LastJob == IF eof THEN {stream} ELSE {}

EndIsReportedLast ==
  /\ LastOfAll(events, LastJob \cup {outbox.event.job})
  /\ outbox.event.kind = "TrackEnded" => outbox.event.job \notin LastJob

(* A start is the one of a reconfiguration, and the model buffers; who blocks *)
(* the main thread is a load, whose generation may sound already.             *)
StartsPend ==
  /\ pending.on <=> start # NoJob
  /\ pending.on => play = "Buffering"
  /\ ~AtRest => txn.why = "load" /\ epoch = txn.gen

(* What is there of the model's generation sounds, and will report its end;   *)
(* what the model claims to play is there, or is being started.               *)
FlowInv ==
  AtRest =>
    /\ \A d \in Work : Ours(d) => Sounds(d) /\ Ending(d)
    /\ start # NoJob /\ start.gen = gen => epoch = gen /\ Followed(sinkQ)
    /\ Claims => IF start # NoJob THEN start.gen = gen ELSE \E d \in Work : Ours(d)

(* The channels' contents. *)
LEMMA InsideSent ==
  ASSUME NEW S, NEW q \in Seq(S), NEW m \in S
  PROVE  Inside(Append(q, m)) = Inside(q) \cup {m}
<1>1. /\ Len(Append(q, m)) = Len(q) + 1 /\ Len(q) \in Nat
      /\ Append(q, m)[Len(q) + 1] = m
      /\ \A i \in 1..Len(q) : Append(q, m)[i] = q[i] /\ i \in 1..Len(Append(q, m))
      /\ Len(q) + 1 \in 1..Len(Append(q, m))
      /\ \A i \in 1..Len(Append(q, m)) : i \in 1..Len(q) \/ i = Len(q) + 1
  OBVIOUS
<1>2. ASSUME NEW c \in Inside(Append(q, m))
      PROVE  c \in Inside(q) \cup {m}
  BY <1>1 DEF Inside
<1>3. ASSUME NEW c \in Inside(q) \cup {m}
      PROVE  c \in Inside(Append(q, m))
  BY <1>1 DEF Inside
<1>4. QED
  BY <1>2, <1>3

LEMMA InsideTaken ==
  ASSUME NEW S, NEW q \in Seq(S), q # <<>>
  PROVE  Inside(q) = Inside(Tail(q)) \cup {Head(q)}
<1>1. /\ Len(q) \in Nat \ {0} /\ Len(Tail(q)) = Len(q) - 1 /\ Head(q) = q[1] /\ 1 \in 1..Len(q)
      /\ \A i \in 1..Len(Tail(q)) : Tail(q)[i] = q[i + 1] /\ i + 1 \in 1..Len(q)
  BY TailCommands
<1>2. ASSUME NEW i \in 1..Len(q)
      PROVE  q[i] \in Inside(Tail(q)) \cup {Head(q)}
  <2>1. CASE i = 1
    BY <1>1, <2>1
  <2>2. CASE i # 1
    <3>1. i - 1 \in 1..Len(Tail(q)) /\ (i - 1) + 1 = i
      BY <1>1, <2>2
    <3>2. QED
      BY <1>1, <3>1 DEF Inside
  <2>3. QED
    BY <2>1, <2>2
<1>3. ASSUME NEW c \in Inside(Tail(q)) \cup {Head(q)}
      PROVE  c \in Inside(q)
  BY <1>1 DEF Inside
<1>4. QED
  BY <1>2, <1>3 DEF Inside

LEMMA FollowedTaken ==
  ASSUME NEW S, NEW q \in Seq(S), q # <<>>, Followed(q)
  PROVE  Followed(Tail(q))
<1>1. /\ Len(q) \in Nat \ {0} /\ Len(Tail(q)) = Len(q) - 1
      /\ \A i \in 1..Len(Tail(q)) : Tail(q)[i] = q[i + 1] /\ i + 1 \in 1..Len(q)
  BY TailCommands
<1>2. ASSUME NEW i \in 1..Len(Tail(q)), Tail(q)[i].op # "Click"
      PROVE  \E k \in 1..Len(Tail(q)) : k >= i /\ Tail(q)[k].op = "Open"
  <2>1. PICK k \in 1..Len(q) : k >= i + 1 /\ q[k].op = "Open"
    BY <1>1, <1>2 DEF Followed
  <2>2. k - 1 \in 1..Len(Tail(q)) /\ k - 1 >= i /\ (k - 1) + 1 = k
    BY <1>1, <2>1
  <2>3. Tail(q)[k - 1].op = "Open"
    BY <1>1, <2>1, <2>2
  <2>4. QED
    BY <2>2, <2>3
<1>3. QED
  BY <1>2 DEF Followed

LEMMA FollowedSent ==
  ASSUME NEW S, NEW q \in Seq(S), NEW m \in S, m.op = "Open" \/ (m.op = "Click" /\ Followed(q))
  PROVE  Followed(Append(q, m))
<1> DEFINE r == Append(q, m)
<1>1. /\ Len(r) = Len(q) + 1 /\ Len(q) \in Nat /\ r[Len(q) + 1] = m
      /\ \A i \in 1..Len(q) : r[i] = q[i] /\ i \in 1..Len(r)
      /\ Len(q) + 1 \in 1..Len(r)
      /\ \A i \in 1..Len(r) : i <= Len(q) + 1 /\ (i \in 1..Len(q) \/ i = Len(q) + 1)
  OBVIOUS
<1> HIDE DEF r
<1>2. ASSUME NEW i \in 1..Len(r), r[i].op # "Click"
      PROVE  \E k \in 1..Len(r) : k >= i /\ r[k].op = "Open"
  <2>1. CASE m.op = "Open"
    <3>1. Len(q) + 1 \in 1..Len(r) /\ Len(q) + 1 >= i /\ r[Len(q) + 1].op = "Open"
      BY <1>1, <2>1
    <3>2. QED
      BY <3>1
  <2>2. CASE m.op = "Click" /\ Followed(q)
    <3>1. i \in 1..Len(q) /\ q[i].op # "Click"
      BY <1>1, <1>2, <2>2
    <3>2. PICK k \in 1..Len(q) : k >= i /\ q[k].op = "Open"
      BY <2>2, <3>1 DEF Followed
    <3>3. QED
      BY <1>1, <3>2
  <2>3. QED
    BY <2>1, <2>2
<1>3. QED
  BY <1>2 DEF Followed, r

LEMMA FollowedAlone ==
  ASSUME NEW q, Followed(q), OpensIn(q) = {}
  PROVE  OnlyClicks(q)
<1>1. \A k \in 1..Len(q) : q[k].op # "Open"
  BY DEF OpensIn
<1>2. QED
  BY <1>1 DEF Followed, OnlyClicks, Inside

LEMMA ClicksTaken ==
  ASSUME NEW S, NEW q \in Seq(S), q # <<>>, OnlyClicks(q)
  PROVE  OnlyClicks(Tail(q)) /\ Head(q).op = "Click"
BY InsideTaken DEF OnlyClicks

LEMMA LastTaken ==
  ASSUME NEW S, NEW q \in Seq(S), q # <<>>, NEW last, LastOfAll(q, last)
  PROVE  /\ LastOfAll(Tail(q), last)
         /\ Head(q).kind = "TrackEnded" => Head(q).job \notin last \cup JobsIn(Tail(q))
<1>1. /\ Len(q) \in Nat \ {0} /\ Len(Tail(q)) = Len(q) - 1 /\ Head(q) = q[1] /\ 1 \in 1..Len(q)
      /\ \A i \in 1..Len(Tail(q)) : Tail(q)[i] = q[i + 1] /\ i + 1 \in 1..Len(q)
  BY TailCommands
<1>2. ASSUME NEW i \in 1..Len(Tail(q)), Tail(q)[i].kind = "TrackEnded"
      PROVE  /\ Tail(q)[i].job \notin last
             /\ \A k \in 1..Len(Tail(q)) : k > i => Tail(q)[k].job # Tail(q)[i].job
  <2>1. q[i + 1].kind = "TrackEnded" /\ i + 1 \in 1..Len(q) /\ Tail(q)[i] = q[i + 1]
    BY <1>1, <1>2
  <2>2. q[i + 1].job \notin last /\ \A k \in 1..Len(q) : k > i + 1 => q[k].job # q[i + 1].job
    BY <2>1 DEF LastOfAll
  <2>3. ASSUME NEW k \in 1..Len(Tail(q)), k > i
        PROVE  Tail(q)[k].job # Tail(q)[i].job
    <3>1. k + 1 \in 1..Len(q) /\ k + 1 > i + 1 /\ Tail(q)[k] = q[k + 1]
      BY <1>1, <2>3
    <3>2. QED
      BY <2>1, <2>2, <3>1
  <2>4. QED
    BY <2>1, <2>2, <2>3
<1>3. ASSUME Head(q).kind = "TrackEnded"
      PROVE  Head(q).job \notin last \cup JobsIn(Tail(q))
  <2>1. q[1].job \notin last /\ \A k \in 1..Len(q) : k > 1 => q[k].job # q[1].job
    BY <1>1, <1>3 DEF LastOfAll
  <2>2. ASSUME NEW i \in 1..Len(Tail(q))
        PROVE  Tail(q)[i].job # q[1].job
    <3>1. i + 1 \in 1..Len(q) /\ i + 1 > 1 /\ Tail(q)[i] = q[i + 1]
      BY <1>1
    <3>2. QED
      BY <2>1, <3>1
  <2>3. QED
    BY <1>1, <2>1, <2>2 DEF JobsIn
<1>4. QED
  BY <1>2, <1>3 DEF LastOfAll

LEMMA LastSent ==
  ASSUME NEW S, NEW q \in Seq(S), NEW m \in S, NEW last, NEW less \in SUBSET last,
         LastOfAll(q, last), m.job \in last, m.kind = "TrackEnded" => m.job \notin less
  PROVE  LastOfAll(Append(q, m), less)
<1> DEFINE r == Append(q, m)
<1>1. /\ Len(r) = Len(q) + 1 /\ Len(q) \in Nat /\ r[Len(q) + 1] = m
      /\ \A i \in 1..Len(q) : r[i] = q[i]
      /\ \A i \in 1..Len(r) : i \in 1..Len(q) \/ i = Len(q) + 1
  OBVIOUS
<1> HIDE DEF r
<1>2. ASSUME NEW i \in 1..Len(r), r[i].kind = "TrackEnded"
      PROVE  r[i].job \notin less /\ \A k \in 1..Len(r) : k > i => r[k].job # r[i].job
  <2>1. CASE i \in 1..Len(q)
    <3>1. r[i] = q[i] /\ q[i].job \notin last /\ \A k \in 1..Len(q) : k > i => q[k].job # q[i].job
      BY <1>1, <1>2, <2>1 DEF LastOfAll
    <3>2. \A k \in 1..Len(r) : r[k] = m \/ (k \in 1..Len(q) /\ r[k] = q[k])
      BY <1>1
    <3>3. QED
      BY <3>1, <3>2
  <2>2. CASE i = Len(q) + 1
    <3>1. \A k \in 1..Len(r) : ~(k > i)
      BY <1>1, <2>2
    <3>2. QED
      BY <1>1, <1>2, <2>2, <3>1
  <2>3. QED
    BY <1>1, <2>1, <2>2
<1>3. QED
  BY <1>2 DEF LastOfAll, r

-----------------------------------------------------------------------------
(* The sink thread's reports: one is being sent, sent, or prepared, of the    *)
(* open stream; the end is reported once nothing of it is behind.             *)
SinkReports ==
  \/ outbox' = outbox /\ events' = events /\ (spc' = "emit" <=> spc = "emit")
  \/ /\ spc = "emit" /\ spc' # "emit" /\ events' = Append(events, outbox.event) /\ outbox' = NoOutbox
     /\ UNCHANGED <<eof, stream>>
  \/ /\ spc # "emit" /\ spc' = "emit" /\ events' = events /\ outbox'.event.job = stream
     /\ stream' = stream /\ stream # NoJob
     /\ IF outbox'.event.kind = "TrackEnded" THEN eof /\ ~eof' ELSE stream \in Behind

LEMMA SinkReportsStream ==
  ASSUME TypeOK, StreamsInv, Named, SinkNext
  PROVE  SinkReports
<1>1. /\ streamQ # <<>> => Head(streamQ).job \in JobsIn(streamQ)
      /\ streamQ # <<>> => Head(streamQ).job \in Work
  BY JobsTaken DEF Work, TypeOK, ChannelsTyped
<1>2. streamQ # <<>> /\ OfStream(Head(streamQ).job) => stream # NoJob /\ stream \in Behind
  BY <1>1, OfTheStream DEF OfStream, Named, Behind, StreamsInv
<1>3. block # NoJob => stream # NoJob /\ stream \in Behind
  BY DEF StreamsInv, SinkPlaysItsJob, Behind
<1>4. eof => stream # NoJob
  BY DEF Named
<1> USE DEF SinkReports, GoOn, Emit
<1>5. CASE OpenStale \/ ClickWakes
  BY <1>5 DEF OpenStale, ClickWakes, sinkVars
<1>6. CASE CommandsDone \/ Hold
  <2>1. outbox' = outbox /\ events' = events /\ (spc' = "emit" <=> spc = "emit")
    BY <1>6 DEF CommandsDone, Hold, sharedVars
  <2>2. QED
    BY <2>1
<1>7. ASSUME NEW reuse \in BOOLEAN, NEW prepared \in BOOLEAN, OpenCurrent(reuse, prepared)
      PROVE  SinkReports
  BY <1>7 DEF OpenCurrent
<1>8. ASSUME NEW b \in BOOLEAN, DeviceOpened(b) \/ ClickSinkOpened(b) \/ NoHold(b)
      PROVE  SinkReports
  BY <1>8 DEF DeviceOpened, ClickSinkOpened, NoHold, sharedVars
<1>9. ASSUME NEW k \in BOOLEAN, SinkRelease(k)
      PROVE  SinkReports
  BY <1>9 DEF SinkRelease
<1>10. ASSUME NEW k \in BOOLEAN, Drained(k)
       PROVE  SinkReports
  BY <1>4, <1>10 DEF Drained, StreamOver, sharedVars
<1>11. ASSUME NEW k \in BOOLEAN, NEW late \in BOOLEAN, Stopped(k, late)
       PROVE  SinkReports
  BY <1>11 DEF Stopped, sharedVars
<1>12. CASE NothingReceived \/ NothingToWrite \/ NotDrained
  BY <1>12 DEF NothingReceived, NothingToWrite, NotDrained, sharedVars
<1>13. CASE ReceiveBoundary
  BY <1>2, <1>13 DEF ReceiveBoundary
<1>14. CASE ReceiveEnd
  BY <1>14 DEF ReceiveEnd
<1>15. ASSUME NEW converts \in BOOLEAN, ReceivePcm(converts)
       PROVE  SinkReports
  BY <1>2, <1>15 DEF ReceivePcm, Plays
<1>16. ASSUME NEW progress \in BOOLEAN, NEW finished \in BOOLEAN, Write(progress, finished)
       PROVE  SinkReports
  BY <1>3, <1>16 DEF Write, sharedVars
<1>17. CASE WriteFails
  BY <1>3, <1>17 DEF WriteFails, sharedVars
<1>18. CASE SinkEmit
  BY <1>18 DEF SinkEmit, TypeOK, SinkTyped
<1>19. QED
  BY <1>5, <1>6, <1>7, <1>8, <1>9, <1>10, <1>11, <1>12, <1>13, <1>14, <1>15, <1>16, <1>17, <1>18 DEF SinkNext

LEMMA SinkKeepsReports ==
  ASSUME TypeOK, StreamsInv, EndsInv, Named, EndIsReportedLast, SinkNext
  PROVE  Named' /\ EndIsReportedLast'
<1>1. SinkReports /\ SinkEnds
  BY SinkReportsStream, SinkLeavesEnds
<1>2. /\ job' = job /\ dpc' = dpc /\ decodeQ' = decodeQ
      /\ NoJob' = NoJob /\ NoOutbox.event.job = NoJob /\ NoOutbox.event.kind # "TrackEnded"
  BY SinkThreadLeaves DEF decodeVars, NoJob, NoOutbox
<1>3. streamQ \in Seq(Stream) /\ events \in Seq(Event) /\ outbox.event \in Event
  BY DEF TypeOK, ChannelsTyped, SinkTyped
<1>4. /\ JobsIn(streamQ') \subseteq JobsIn(streamQ)
      /\ streamQ # <<>> => Head(streamQ).job \in JobsIn(streamQ)
  BY <1>1, <1>3, JobsTaken DEF SinkEnds
<1>5. JobsIn(streamQ)' = JobsIn(streamQ') /\ JobsIn(events)' = JobsIn(events')
  BY DEF JobsIn
<1>6. JobsIn(Append(events, outbox.event)) = JobsIn(events) \cup {outbox.event.job}
  BY <1>3, JobsSent
<1>7. eof' => /\ stream' = stream
              /\ eof \/ (stream \in Behind /\ stream # NoJob)
  <2>1. CASE eof' /\ ~eof
    <3>1. /\ stream' = stream /\ streamQ # <<>> /\ Head(streamQ).job.gen = stream.gen
          /\ Head(streamQ).job \in Work
      BY <1>1, <1>4, <2>1 DEF SinkEnds, Work
    <3>2. Head(streamQ).job = stream
      BY <3>1, OfTheStream DEF StreamsInv
    <3>3. QED
      BY <1>4, <3>1, <3>2 DEF Behind, Named
  <2>2. QED
    BY <1>1, <2>1 DEF SinkEnds
<1>8. Named'
  <2>1. NoJob \notin JobsIn(events')
    BY <1>1, <1>6 DEF SinkReports, Named
  <2>2. spc' = "emit" <=> outbox'.event.job # NoJob
    BY <1>1, <1>2 DEF SinkReports, Named
  <2>3. QED
    BY <1>2, <1>4, <1>5, <1>7, <2>1, <2>2 DEF Named, Inside
<1>9. \A e \in Inside(events) \cup {outbox.event} : e.kind = "TrackEnded" => e.job \notin Behind
  BY DEF EndsInv, Ended, AllEnded, Inside
<1>10. LastJob' \subseteq LastJob \cup (Behind \cap {stream})
  BY <1>7 DEF LastJob
<1>11. ASSUME NEW last, last \subseteq LastJob \cup {outbox.event.job} \cup Behind
       PROVE  LastOfAll(events, last)
  BY <1>9, <1>11 DEF LastOfAll, EndIsReportedLast, Inside
<1>12. EndIsReportedLast'
  <2>1. CASE outbox' = outbox /\ events' = events
    <3>1. LastOfAll(events, LastJob' \cup {outbox.event.job})
      BY <1>10, <1>11
    <3>2. outbox.event.kind = "TrackEnded" => outbox.event.job \notin LastJob'
      BY <1>9, <1>10 DEF EndIsReportedLast
    <3>3. QED
      BY <2>1, <3>1, <3>2 DEF EndIsReportedLast, LastOfAll
  <2>2. CASE events' = Append(events, outbox.event) /\ outbox' = NoOutbox /\ eof' = eof /\ stream' = stream /\ spc = "emit"
    <3>1. LastJob' = LastJob
      BY <2>2 DEF LastJob
    <3> DEFINE old == LastJob \cup {outbox.event.job, NoJob}
               new == LastJob \cup {NoJob}
    <3>2. LastOfAll(events, old)
      BY <1>11 DEF Behind
    <3>3. new \in SUBSET old /\ outbox.event.job \in old
          /\ (outbox.event.kind = "TrackEnded" => outbox.event.job \notin new)
      BY <2>2 DEF EndIsReportedLast, Named
    <3> HIDE DEF old, new
    <3>4. LastOfAll(Append(events, outbox.event), new)
      BY <1>3, <3>2, <3>3, LastSent
    <3>5. LastJob' \cup {outbox'.event.job} = new /\ outbox'.event.kind # "TrackEnded"
      BY <1>2, <2>2, <3>1 DEF new
    <3>6. LastOfAll(events, LastJob \cup {outbox.event.job})'
      BY <2>2, <3>4, <3>5 DEF LastOfAll
    <3>7. QED
      BY <3>5, <3>6 DEF EndIsReportedLast
  <2>3. CASE /\ events' = events /\ outbox'.event.job = stream /\ stream' = stream
             /\ IF outbox'.event.kind = "TrackEnded" THEN eof /\ ~eof' ELSE stream \in Behind
    <3>1. stream \in LastJob \cup Behind
      BY <2>3 DEF LastJob
    <3>2. LastJob' \cup {outbox'.event.job} \subseteq LastJob \cup Behind
      BY <1>10, <2>3, <3>1
    <3>3. LastOfAll(events, LastJob' \cup {outbox'.event.job})
      BY <1>11, <3>2
    <3>4. outbox'.event.kind = "TrackEnded" => outbox'.event.job \notin LastJob'
      BY <2>3 DEF LastJob
    <3>5. QED
      BY <2>3, <3>3, <3>4 DEF EndIsReportedLast, LastOfAll
  <2>4. QED
    BY <1>1, <2>1, <2>2, <2>3 DEF SinkReports
<1>13. QED
  BY <1>8, <1>12

LEMMA DecodeKeepsReports ==
  ASSUME TypeOK, StreamsInv, EndsInv, Named, EndIsReportedLast, DecodeNext
  PROVE  Named' /\ EndIsReportedLast'
<1>1. UNCHANGED <<spc, eof, stream, outbox>> /\ NoJob' = NoJob /\ LastJob' = LastJob
  BY DecodeThreadLeaves DEF sinkVars, NoJob, LastJob
<1>2. /\ streamQ' = streamQ \/ (streamQ' = Append(streamQ, [kind |-> item, job |-> job]) /\ job # NoJob)
      /\ events' = events \/ (events' = Append(events, [kind |-> "PlaybackError", job |-> job]) /\ job # NoJob)
      /\ dpc' = "idle" => job' = NoJob
  BY DEF DecodeNext, SkipCommand, BeginJob, OpenTrack, Decode, DecodeFails, JobReplaced, SendItem,
         DropItem, DecodeError, DecodeReport, JobOver, decodeVars, Named, EndsInv
<1>3. /\ streamQ \in Seq(Stream) /\ events \in Seq(Event)
      /\ [kind |-> item, job |-> job] \in Stream /\ [kind |-> "PlaybackError", job |-> job] \in Event
  BY DEF TypeOK, ChannelsTyped, DecodeTyped, Stream, Event
<1>4. JobsIn(streamQ)' = JobsIn(streamQ') /\ JobsIn(events)' = JobsIn(events')
  BY DEF JobsIn
<1>5. NoJob \notin JobsIn(streamQ')
  <2> DEFINE m == [kind |-> item, job |-> job]
  <2>1. JobsIn(Append(streamQ, m)) = JobsIn(streamQ) \cup {m.job} /\ m.job = job
    BY <1>3, JobsSent
  <2>2. QED
    BY <1>2, <2>1 DEF Named
<1> DEFINE m == [kind |-> "PlaybackError", job |-> job]
<1>6. m \in Event /\ m.job = job /\ m.kind # "TrackEnded" /\ (events' = events \/ (events' = Append(events, m) /\ job # NoJob))
  BY <1>2, <1>3
<1> HIDE DEF m
<1>7. NoJob \notin JobsIn(events')
  <2>1. JobsIn(Append(events, m)) = JobsIn(events) \cup {m.job}
    BY <1>3, <1>6, JobsSent
  <2>2. QED
    BY <1>6, <2>1 DEF Named
<1>11. Inside(decodeQ') \subseteq Inside(decodeQ)
  <2>1. decodeQ' = decodeQ \/ (decodeQ # <<>> /\ decodeQ' = Tail(decodeQ))
    BY DEF DecodeNext, SkipCommand, BeginJob, OpenTrack, Decode, DecodeFails, JobReplaced, SendItem,
           DropItem, DecodeError, DecodeReport
  <2>2. decodeQ \in Seq(DecodeCommand)
    BY DEF TypeOK, ChannelsTyped
  <2>3. QED
    BY <2>1, <2>2, InsideTaken
<1>8. Named'
  BY <1>1, <1>2, <1>4, <1>5, <1>7, <1>11 DEF Named, Inside
<1>9. EndIsReportedLast'
  <2> DEFINE new == LastJob \cup {outbox.event.job}
             old == new \cup {job}
  <2>1. LastOfAll(events, old)
    BY DEF EndIsReportedLast, LastOfAll, EndsInv, AllEnded, Ended, Behind
  <2>2. new \in SUBSET old /\ job \in old /\ LastOfAll(events, new)
    BY DEF EndIsReportedLast
  <2> HIDE DEF new, old
  <2>3. LastOfAll(Append(events, m), new)
    BY <1>3, <1>6, <2>1, <2>2, LastSent
  <2>4. LastOfAll(events', new)
    BY <1>6, <2>2, <2>3
  <2>5. QED
    BY <1>1, <2>4 DEF EndIsReportedLast, LastOfAll, new
<1>10. QED
  BY <1>8, <1>9

LEMMA MainKeepsReports ==
  ASSUME TypeOK, Named, EndIsReportedLast, TransportNext
  PROVE  Named' /\ EndIsReportedLast'
<1>1. /\ UNCHANGED <<spc, eof, stream, outbox, job, dpc, streamQ>> /\ NoJob' = NoJob
      /\ events' = events \/ (events # <<>> /\ events' = Tail(events))
  BY TransportLeaves DEF sinkVars, decodeVars, NoJob
<1>2. events \in Seq(Event)
  BY DEF TypeOK, ChannelsTyped
<1>3. JobsIn(events') \subseteq JobsIn(events)
  BY <1>1, <1>2, JobsTaken
<1>9. \A c \in Inside(decodeQ') : c \in Inside(decodeQ) \/ c = StopDecoder \/ c = Load(start)
  <2>1. /\ decodeQ \in Seq(DecodeCommand) /\ StopDecoder \in DecodeCommand /\ Load(start) \in DecodeCommand
    BY Messages DEF TypeOK, ChannelsTyped, MainTyped
  <2>2. ASSUME NEW q \in Seq(DecodeCommand)
        PROVE  /\ Offer(q, StopDecoder, DecodeCap) \in Seq(DecodeCommand)
               /\ Inside(Offer(q, StopDecoder, DecodeCap)) \subseteq Inside(q) \cup {StopDecoder}
    BY <2>1, InsideSent DEF Offer
  <2>3. LET o == Offer(decodeQ, StopDecoder, DecodeCap)
        IN  /\ Inside(o) \subseteq Inside(decodeQ) \cup {StopDecoder}
            /\ Inside(Offer(o, StopDecoder, DecodeCap)) \subseteq Inside(o) \cup {StopDecoder}
    BY <2>1, <2>2
  <2>4. Inside(Append(decodeQ, Load(start))) = Inside(decodeQ) \cup {Load(start)}
    BY <2>1, InsideSent
  <2>5. StartOpened => decodeQ' = Append(decodeQ, Load(start))
    BY DEF StartOpened
  <2>6. QED
    BY <2>3, <2>4, <2>5, MainSendsStops DEF DecodeSends, OfferTimes
<1>4. Named'
  BY <1>1, <1>3, <1>9 DEF Named, JobsIn, StopDecoder, Load
<1>5. LastJob' = LastJob
  BY <1>1 DEF LastJob
<1>6. LastOfAll(events', LastJob \cup {outbox.event.job})
  BY <1>1, <1>2, LastTaken DEF EndIsReportedLast
<1>7. EndIsReportedLast'
  BY <1>1, <1>5, <1>6 DEF EndIsReportedLast, LastOfAll
<1>8. QED
  BY <1>4, <1>7

-----------------------------------------------------------------------------
(* What sounds goes on until its end is reported. *)
LEMMA EndingIsWork ==
  ASSUME NEW d, Ending(d)
  PROVE  d \in Work
BY DEF Ending, Work, JobsIn, InStream, Reported

(* A step of the sink thread while it is asked for nothing but clicks. *)
SinkGoesOn(d) ==
  /\ stream' = stream
  /\ sinkQ' = sinkQ \/ (sinkQ # <<>> /\ sinkQ' = Tail(sinkQ))
  /\ \/ streamQ' = streamQ
     \/ /\ streamQ # <<>> /\ streamQ' = Tail(streamQ)
        /\ Head(streamQ).kind = "End" /\ Head(streamQ).job.gen = stream.gen => eof'
  /\ \/ eof => eof'
     \/ spc' = "emit" /\ outbox'.event = [kind |-> "TrackEnded", job |-> stream]

LEMMA SinkGoesOnPlaying ==
  ASSUME NEW d, Sounds(d), sinkQ \in Seq(SinkCommand), SinkNext
  PROVE  SinkGoesOn(d)
<1>1. sinkQ # <<>> => Head(sinkQ).op = "Click"
  BY ClicksTaken DEF Sounds
<1>2. stream.gen = epoch
  BY DEF Sounds
<1> USE DEF SinkGoesOn, GoOn, Emit
<1>3. CASE OpenStale
  BY <1>1, <1>3 DEF OpenStale
<1>4. CASE ClickWakes
  BY <1>4 DEF ClickWakes, sinkVars
<1>5. CASE CommandsDone \/ Hold
  <2>1. UNCHANGED <<stream, sinkQ, streamQ, eof>>
    BY <1>5 DEF CommandsDone, Hold, sharedVars
  <2>2. QED
    BY <2>1
<1>6. ASSUME NEW reuse \in BOOLEAN, NEW prepared \in BOOLEAN, OpenCurrent(reuse, prepared)
      PROVE  SinkGoesOn(d)
  BY <1>1, <1>6 DEF OpenCurrent
<1>7. ASSUME NEW b \in BOOLEAN, DeviceOpened(b) \/ ClickSinkOpened(b) \/ NoHold(b)
      PROVE  SinkGoesOn(d)
  BY <1>7 DEF DeviceOpened, ClickSinkOpened, NoHold, sharedVars
<1>8. ASSUME NEW k \in BOOLEAN, SinkRelease(k)
      PROVE  SinkGoesOn(d)
  BY <1>1, <1>8 DEF SinkRelease
<1>9. ASSUME NEW k \in BOOLEAN, Drained(k)
      PROVE  SinkGoesOn(d)
  BY <1>9 DEF Drained, sharedVars
<1>10. ASSUME NEW k \in BOOLEAN, NEW late \in BOOLEAN, Stopped(k, late)
       PROVE  SinkGoesOn(d)
  BY <1>2, <1>10 DEF Stopped, sharedVars
<1>11. CASE NothingReceived \/ NothingToWrite \/ NotDrained
  BY <1>11 DEF NothingReceived, NothingToWrite, NotDrained, sharedVars
<1>12. CASE ReceiveBoundary
  BY <1>12 DEF ReceiveBoundary
<1>13. CASE ReceiveEnd
  BY <1>13 DEF ReceiveEnd, OfStream
<1>14. ASSUME NEW converts \in BOOLEAN, ReceivePcm(converts)
       PROVE  SinkGoesOn(d)
  BY <1>14 DEF ReceivePcm
<1>15. ASSUME NEW progress \in BOOLEAN, NEW finished \in BOOLEAN, Write(progress, finished)
       PROVE  SinkGoesOn(d)
  BY <1>15 DEF Write, sharedVars
<1>16. CASE WriteFails
  BY <1>16 DEF WriteFails, sharedVars
<1>17. CASE SinkEmit
  BY <1>17 DEF SinkEmit
<1>18. QED
  BY <1>3, <1>4, <1>5, <1>6, <1>7, <1>8, <1>9, <1>10, <1>11, <1>12, <1>13, <1>14, <1>15, <1>16, <1>17 DEF SinkNext

LEMMA SinkKeepsEnding ==
  ASSUME TypeOK, StreamsInv, Named, SinkNext, NEW d, Sounds(d), Ending(d)
  PROVE  Sounds(d)' /\ Ending(d)'
<1>0. /\ sinkQ \in Seq(SinkCommand) /\ streamQ \in Seq(Stream) /\ events \in Seq(Event)
      /\ outbox.event \in Event
  BY DEF TypeOK, ChannelsTyped, SinkTyped
<1>1. SinkGoesOn(d) /\ SinkReports
  BY <1>0, SinkGoesOnPlaying, SinkReportsStream
<1>2. UNCHANGED <<decodeQ, job, epoch>>
  BY SinkThreadLeaves DEF decodeVars
<1>3. stream = d
  BY DEF Sounds
<1>4. Sounds(d)'
  <2>1. OnlyClicks(sinkQ')
    BY <1>0, <1>1, ClicksTaken DEF SinkGoesOn, Sounds
  <2>2. QED
    BY <1>1, <1>2, <2>1 DEF Sounds, SinkGoesOn, OnlyClicks, Inside
<1>5. /\ Reported = Inside(events) \cup (IF spc = "emit" THEN {outbox.event} ELSE {})
      /\ Reported' = Inside(events') \cup (IF spc' = "emit" THEN {outbox'.event} ELSE {})
      /\ InStream = Inside(streamQ) /\ InStream' = Inside(streamQ')
  BY DEF Reported, InStream, Inside
<1>6. Reported \subseteq Reported'
  <2>1. Inside(Append(events, outbox.event)) = Inside(events) \cup {outbox.event}
    BY <1>0, InsideSent
  <2>2. QED
    BY <1>1, <1>5, <2>1 DEF SinkReports
<1>7. CASE d \in JobsIn(decodeQ) \cup {job}
  BY <1>2, <1>4, <1>7 DEF Ending, JobsIn
<1>8. ASSUME NEW e \in Reported, e.kind \in LastReports, e.job = d
      PROVE  Ending(d)'
  BY <1>6, <1>8 DEF Ending, LastReports
<1>9. CASE eof /\ stream = d
  <2>1. CASE eof'
    BY <1>1, <1>4, <1>9, <2>1 DEF Ending, SinkGoesOn
  <2>2. CASE spc' = "emit" /\ outbox'.event = [kind |-> "TrackEnded", job |-> stream]
    BY <1>3, <1>4, <1>5, <2>2 DEF Ending, LastReports
  <2>3. QED
    BY <1>1, <1>9, <2>1, <2>2 DEF SinkGoesOn
<1>10. ASSUME NEW s \in InStream, s.kind = "End", s.job = d
       PROVE  Ending(d)'
  <2>1. CASE s \in Inside(streamQ')
    BY <1>5, <1>10, <2>1 DEF Ending
  <2>2. CASE streamQ # <<>> /\ s = Head(streamQ) /\ streamQ' = Tail(streamQ)
    <3>1. Head(streamQ).job.gen = stream.gen /\ streamQ' # streamQ
      <4>1. Head(streamQ).job.gen = stream.gen
        BY <1>3, <1>10, <2>2
      <4>2. Tail(streamQ) # streamQ
        BY <1>0, <2>2
      <4>3. QED
        BY <2>2, <4>1, <4>2
    <3>2. eof' /\ stream' = d
      BY <1>1, <1>3, <1>10, <2>2, <3>1 DEF SinkGoesOn
    <3>3. QED
      BY <3>2 DEF Ending
  <2>3. streamQ # <<>> => Inside(streamQ) = Inside(Tail(streamQ)) \cup {Head(streamQ)}
    BY <1>0, InsideTaken
  <2>4. QED
    BY <1>1, <1>5, <2>1, <2>2, <2>3 DEF SinkGoesOn
<1>11. QED
  BY <1>4, <1>7, <1>8, <1>9, <1>10 DEF Ending

(* A step of the decode thread, whose generation may sound. *)
DecodeGoesOn(d) ==
  /\ \/ decodeQ' = decodeQ
     \/ decodeQ # <<>> /\ decodeQ' = Tail(decodeQ) /\ (Head(decodeQ).job = d => job' = d)
  /\ streamQ' = streamQ \/ streamQ' = Append(streamQ, [kind |-> item, job |-> job])
  /\ events' = events \/ events' = Append(events, [kind |-> "PlaybackError", job |-> job])
  /\ \/ job = d => job' = d
     \/ streamQ' = Append(streamQ, [kind |-> "End", job |-> job])
     \/ events' = Append(events, [kind |-> "PlaybackError", job |-> job])

LEMMA DecodeGoesOnDecoding ==
  ASSUME TypeOK, Named, NEW d, d # NoJob, d.gen = epoch, DecodeNext
  PROVE  DecodeGoesOn(d)
<1>1. decodeQ # <<>> => Head(decodeQ).op = "Load" \/ Head(decodeQ).job = NoJob
  <2>1. decodeQ \in Seq(DecodeCommand)
    BY DEF TypeOK, ChannelsTyped
  <2>2. decodeQ # <<>> => Head(decodeQ) \in Inside(decodeQ) /\ Head(decodeQ) \in DecodeCommand
    BY <2>1, InsideTaken
  <2>3. QED
    BY <2>2 DEF Named, DecodeCommand
<1> USE DEF DecodeGoesOn, JobOver
<1>2. CASE SkipCommand
  BY <1>1, <1>2 DEF SkipCommand, decodeVars
<1>3. CASE BeginJob
  BY <1>3 DEF BeginJob, Named
<1>4. ASSUME NEW n \in 0..Blocks, OpenTrack(n)
      PROVE  DecodeGoesOn(d)
  BY <1>4 DEF OpenTrack
<1>5. ASSUME NEW kind \in {"Pcm", "Boundary", "End"}, NEW n \in 0..Blocks, Decode(kind, n)
      PROVE  DecodeGoesOn(d)
  BY <1>5 DEF Decode
<1>6. CASE DecodeFails \/ JobReplaced \/ DropItem
  BY <1>6 DEF DecodeFails, JobReplaced, DropItem
<1>7. CASE SendItem
  BY <1>7 DEF SendItem
<1>8. CASE DecodeError \/ DecodeReport
  BY <1>8 DEF DecodeError, DecodeReport
<1>9. QED
  BY <1>2, <1>3, <1>4, <1>5, <1>6, <1>7, <1>8 DEF DecodeNext

LEMMA DecodeKeepsEnding ==
  ASSUME TypeOK, Named, DecodeNext, NEW d, d # NoJob, Sounds(d), Ending(d)
  PROVE  Sounds(d)' /\ Ending(d)'
<1>0. /\ decodeQ \in Seq(DecodeCommand) /\ streamQ \in Seq(Stream) /\ events \in Seq(Event)
      /\ [kind |-> item, job |-> job] \in Stream /\ [kind |-> "PlaybackError", job |-> job] \in Event
      /\ [kind |-> "End", job |-> job] \in Stream
  BY DEF TypeOK, ChannelsTyped, DecodeTyped, Stream, Event
<1>1. DecodeGoesOn(d)
  BY DecodeGoesOnDecoding DEF Sounds
<1>2. UNCHANGED <<stream, eof, outbox, spc, epoch, sinkQ>>
  BY DecodeThreadLeaves DEF sinkVars
<1>3. Sounds(d)'
  BY <1>2 DEF Sounds, OnlyClicks, Inside
<1>4. /\ Reported = Inside(events) \cup (IF spc = "emit" THEN {outbox.event} ELSE {})
      /\ Reported' = Inside(events') \cup (IF spc = "emit" THEN {outbox.event} ELSE {})
      /\ InStream = Inside(streamQ) /\ InStream' = Inside(streamQ')
  BY <1>2 DEF Reported, InStream, Inside
<1>5. /\ Inside(streamQ) \subseteq Inside(streamQ') /\ Inside(events) \subseteq Inside(events')
      /\ \/ job = d => job' = d
         \/ [kind |-> "End", job |-> job] \in Inside(streamQ')
         \/ [kind |-> "PlaybackError", job |-> job] \in Inside(events')
  <2>1. \A m \in Stream : Inside(Append(streamQ, m)) = Inside(streamQ) \cup {m}
    BY <1>0, InsideSent
  <2>2. \A m \in Event : Inside(Append(events, m)) = Inside(events) \cup {m}
    BY <1>0, InsideSent
  <2>3. Inside(streamQ) \subseteq Inside(streamQ')
    BY <1>0, <1>1, <2>1 DEF DecodeGoesOn
  <2>4. Inside(events) \subseteq Inside(events')
    BY <1>0, <1>1, <2>2 DEF DecodeGoesOn
  <2>5. QED
    BY <1>0, <1>1, <2>1, <2>2, <2>3, <2>4 DEF DecodeGoesOn
<1>6. CASE d = job
  <2>1. CASE job' = d
    BY <1>3, <2>1 DEF Ending
  <2>2. CASE [kind |-> "End", job |-> job] \in Inside(streamQ')
    BY <1>3, <1>4, <1>6, <2>2 DEF Ending
  <2>3. CASE [kind |-> "PlaybackError", job |-> job] \in Inside(events')
    BY <1>3, <1>4, <1>6, <2>3 DEF Ending, LastReports
  <2>4. QED
    BY <1>5, <1>6, <2>1, <2>2, <2>3
<1>7. CASE d \in JobsIn(decodeQ)
  <2>1. \A c \in Inside(decodeQ) : c \in Inside(decodeQ') \/ (c.job = d => job' = d)
    BY <1>0, <1>1, InsideTaken DEF DecodeGoesOn
  <2>2. PICK c \in Inside(decodeQ) : c.job = d
    BY <1>7 DEF JobsIn, Inside
  <2>3. d \in JobsIn(decodeQ') \/ job' = d
    BY <2>1, <2>2 DEF JobsIn, Inside
  <2>4. QED
    BY <1>3, <2>3 DEF Ending, JobsIn
<1>8. CASE eof /\ stream = d
  BY <1>2, <1>3, <1>8 DEF Ending
<1>9. ASSUME NEW s \in InStream, s.kind = "End", s.job = d
      PROVE  Ending(d)'
  BY <1>4, <1>5, <1>9 DEF Ending
<1>10. ASSUME NEW e \in Reported, e.kind \in LastReports, e.job = d
       PROVE  Ending(d)'
  BY <1>4, <1>5, <1>10 DEF Ending, LastReports
<1>11. QED
  BY <1>3, <1>6, <1>7, <1>8, <1>9, <1>10 DEF Ending

(* So neither thread takes the stream from under what the model plays. *)
LEMMA ThreadKeepsFlow ==
  ASSUME TypeOK, FlowInv, UNCHANGED <<pc, gen, play, seek, hold, start, epoch>>, Work' \subseteq Work,
         sinkQ' = sinkQ \/ (sinkQ # <<>> /\ sinkQ' = Tail(sinkQ)),
         \A d \in Work : Ours(d) /\ Sounds(d) /\ Ending(d) => Sounds(d)' /\ Ending(d)'
  PROVE  FlowInv'
<1> SUFFICES ASSUME AtRest'
             PROVE  /\ \A d \in Work' : Ours(d)' => Sounds(d)' /\ Ending(d)'
                    /\ start' # NoJob' /\ start'.gen = gen' => epoch' = gen' /\ Followed(sinkQ')
                    /\ Claims' => IF start' # NoJob' THEN start'.gen = gen' ELSE \E d \in Work' : Ours(d)'
  BY DEF FlowInv, Followed
<1>1. AtRest /\ NoJob' = NoJob /\ Claims' = Claims
  BY DEF AtRest, NoJob, Claims, Active
<1>2. \A d : Ours(d)' <=> Ours(d)
  BY DEF Ours, NoJob
<1>3. ASSUME NEW d \in Work', Ours(d)'
      PROVE  Sounds(d)' /\ Ending(d)'
  <2>1. d \in Work /\ Ours(d)
    BY <1>2, <1>3
  <2>2. Sounds(d) /\ Ending(d)
    BY <1>1, <2>1 DEF FlowInv
  <2>3. QED
    BY <2>1, <2>2
<1>4. Followed(sinkQ) => Followed(sinkQ')
  <2>1. sinkQ \in Seq(SinkCommand)
    BY DEF TypeOK, ChannelsTyped
  <2>2. QED
    BY <2>1, FollowedTaken
<1>5. ASSUME NEW d \in Work, Ours(d)
      PROVE  d \in Work' /\ Ours(d)'
  <2>1. Sounds(d) /\ Ending(d)
    BY <1>1, <1>5 DEF FlowInv
  <2>2. Ending(d)'
    BY <1>5, <2>1
  <2>3. d \in Work'
    BY <2>2 DEF Ending, Work, JobsIn, InStream, Reported
  <2>4. QED
    BY <1>2, <1>5, <2>3
<1>6. QED
  <2>1. start' # NoJob' /\ start'.gen = gen' => epoch' = gen' /\ Followed(sinkQ')
    BY <1>1, <1>4 DEF FlowInv
  <2>2. Claims' => IF start' # NoJob' THEN start'.gen = gen' ELSE \E d \in Work' : Ours(d)'
    BY <1>1, <1>5 DEF FlowInv
  <2>3. QED
    BY <1>3, <2>1, <2>2

LEMMA SinkKeepsFlow ==
  ASSUME TypeOK, StreamsInv, Named, FlowInv, SinkNext
  PROVE  FlowInv'
<1>1. UNCHANGED <<pc, gen, play, seek, hold, start, epoch>>
  BY SinkThreadLeaves
<1>2. Work' \subseteq Work
  BY SinkKeepsApart DEF StreamsInv
<1>3. sinkQ' = sinkQ \/ (sinkQ # <<>> /\ sinkQ' = Tail(sinkQ))
  BY SinkLeavesTraces DEF StreamsInv, SinkTraces
<1>4. \A d \in Work : Ours(d) /\ Sounds(d) /\ Ending(d) => Sounds(d)' /\ Ending(d)'
  BY SinkKeepsEnding
<1>5. QED
  BY <1>1, <1>2, <1>3, <1>4, ThreadKeepsFlow

LEMMA DecodeKeepsFlow ==
  ASSUME TypeOK, StreamsInv, Named, FlowInv, DecodeNext
  PROVE  FlowInv'
<1>1. UNCHANGED <<pc, gen, play, seek, hold, start, epoch>> /\ sinkQ' = sinkQ
  BY DecodeThreadLeaves DEF mainVars
<1>2. Work' \subseteq Work
  BY DecodeKeepsStreams DEF StreamsInv
<1>3. \A d \in Work : Ours(d) /\ Sounds(d) /\ Ending(d) => Sounds(d)' /\ Ending(d)'
  BY DecodeKeepsEnding DEF Ours
<1>4. QED
  BY <1>1, <1>2, <1>3, ThreadKeepsFlow

-----------------------------------------------------------------------------
(* The main thread.  It goes on with the stream it has, it steps on while a   *)
(* start is in progress, it gives the stream up, it takes its end, it loads.  *)
GoesOn ==
  /\ AtRest /\ AtRest' /\ UNCHANGED <<gen, epoch, start, decodeQ>>
  /\ sinkQ' = sinkQ \/ sinkQ' = Offer(sinkQ, Click, SinkCap)
  /\ pending'.on = pending.on /\ (pending.on => play' = play)
  /\ \/ events' = events
     \/ /\ events # <<>> /\ events' = Tail(events)
        /\ Head(events).job.gen = gen => Head(events).kind \notin LastReports
  /\ Claims' => Claims \/ (events # <<>> /\ Head(events).job.gen = gen)

StepsOn ==
  /\ AtRest /\ AtRest' /\ pending.on /\ gen' = gen + 1 /\ seek'
  /\ UNCHANGED <<pending, play, epoch, start, decodeQ, sinkQ, events>>

GivesUp ==
  /\ AtRest' /\ gen' > Base /\ start' = NoJob /\ ~pending'.on
  /\ ~Active' /\ ~hold'

TakesEnd ==
  /\ AtRest /\ AtRest' /\ UNCHANGED <<gen, start, pending, decodeQ>> /\ play' = "Stopped"
  /\ events # <<>> /\ events' = Tail(events)
  /\ Head(events).kind = "TrackEnded" /\ Head(events).job.gen = gen

Loads == ~AtRest' /\ start' = NoJob /\ ~pending'.on /\ txn'.why = "load" /\ epoch' = txn'.gen

Undisturbing == {"Click", "Transport"}

(* No event is accepted while a start is in progress: work of its generation  *)
(* there is not yet.                                                          *)
LEMMA NoEventWhileStarting ==
  ASSUME TypeOK, StreamsInv, Named, pending.on, events # <<>>
  PROVE  Head(events).job.gen # gen
<1>1. pending.was \in Nat /\ pending.gen \in Nat /\ gen \in Nat
  BY DEF TypeOK, MainTyped, Pending
<1>2. Base < gen /\ Base \in Nat
  BY <1>1 DEF StreamsInv, Numbers, Base
<1>3. Head(events).job \in JobsIn(events)
  BY JobsTaken DEF TypeOK, ChannelsTyped
<1>4. Head(events).job \in Work /\ Head(events).job # NoJob
  BY <1>3 DEF Work, Named
<1>5. Head(events).job \in JobRef
  BY <1>4, WorkTyped
<1>6. Head(events).job.gen <= Base /\ Head(events).job.gen \in Nat
  BY <1>4, <1>5 DEF StreamsInv, Apart, JobRef
<1>7. QED
  BY <1>1, <1>2, <1>6

LEMMA MainMoves ==
  ASSUME Disturbances \subseteq Undisturbing, TypeOK, StreamsInv, Named, StartsPend, TransportNext
  PROVE  StartOpened \/ (pc = "starting" /\ MayOpen /\ StartSent)
         \/ GoesOn \/ StepsOn \/ GivesUp \/ TakesEnd \/ Loads
<1> DEFINE Goal == StartOpened \/ (pc = "starting" /\ MayOpen /\ StartSent)
                   \/ GoesOn \/ StepsOn \/ GivesUp \/ TakesEnd \/ Loads
<1>1. /\ gen \in Nat /\ Abandoned \in Nat /\ Abandoned <= gen /\ pending.gen \in Nat
      /\ txn.gen \in Nat /\ txn.was \in Nat /\ pending.on \in BOOLEAN /\ seek \in BOOLEAN /\ hold \in BOOLEAN
      /\ NoPending.on = FALSE
  BY DEF TypeOK, MainTyped, ChannelsTyped, Abandoned, Pending, Txn, StreamsInv, Numbers, NoPending
<1>2. /\ resume \in MainStages /\ (AtRest <=> pc \in MainStages)
      /\ \A s \in Blocked : s \notin MainStages
      /\ {"poll", "seek", "input", "events", "control"} = MainStages
  BY DEF TypeOK, MainTyped, AtRest, MainStages, Blocked
<1>3. AtRest => Base = Abandoned /\ (pending.on => Base < pending.gen)
  BY <1>1, <1>2 DEF StreamsInv, Numbers, Base, Abandoned
<1>4. ~AtRest => /\ txn.why = "load" /\ epoch = txn.gen /\ ~pending.on /\ start = NoJob
                 /\ Base < txn.gen /\ pc # "stopping"
  BY <1>1, <1>2 DEF StreamsInv, Numbers, Base, StartsPend
<1>5. pending.on /\ events # <<>> => Head(events).job.gen # gen
  BY NoEventWhileStarting
<1>6. \A s \in PlayStates : FailedPlay(s) \notin {"Playing", "Buffering"}
  BY DEF FailedPlay
<1>7. play # "Buffering" => ~pending.on
  BY DEF StartsPend
<1>8. \A b, w, s : BeginLoad(b, w, s) /\ ~pending.on /\ pending' = pending => Loads
  BY <1>2 DEF BeginLoad, Release, Loads, AtRest, Blocked
<1>9. ASSUME NEW b \in Nat, b >= Abandoned, NEW s, s \notin {"Playing", "Buffering"}, StopSinking(b, s),
             AtRest, AtRest', ~pending'.on
      PROVE  GivesUp
  <2>1. gen' = b + 1 /\ start' = NoJob /\ play' = s /\ hold' = FALSE
    BY <1>9 DEF StopSinking, PlaybackStop
  <2>2. gen' > Base
    BY <1>1, <1>3, <1>9, <2>1
  <2>3. QED
    BY <1>9, <2>1, <2>2 DEF GivesUp, Active
<1>10. ASSUME LoadFails, ~AtRest
       PROVE  GivesUp
  <2>1. /\ gen' = txn.gen + 1 /\ play' = FailedPlay(txn.play) /\ start' = NoJob /\ hold' = FALSE
        /\ pending' = pending /\ pc' = resume
    BY <1>10 DEF LoadFails, PlaybackStop
  <2>2. gen' > Base
    BY <1>1, <1>4, <1>10, <2>1, WorkTyped
  <2>3. AtRest' /\ txn.play \in PlayStates
    BY <1>2, <2>1 DEF AtRest, MainStages, TypeOK, MainTyped, Txn
  <2>4. QED
    BY <1>4, <1>6, <1>10, <2>1, <2>2, <2>3 DEF GivesUp, Active
<1>11. NoCall => UNCHANGED <<epoch, hold, sinkQ, decodeQ, start>>
  BY DEF NoCall
<1>12. \A stage : Went(stage) => pc' = stage
  BY DEF Went
<1> USE DEF AtRest
<1>13. CASE AskSink \/ Planned
  BY <1>2, <1>4, <1>13 DEF AskSink, Planned, Loads, Blocked, MainStages
<1>14. CASE ReleaseTimesOut
  <2>1. ~AtRest
    BY <1>2, <1>14 DEF ReleaseTimesOut, Blocked
  <2>2. /\ gen' = txn.gen + 1 /\ play' = FailedPlay(txn.play) /\ start' = NoJob /\ hold' = FALSE
        /\ pending' = pending /\ pc' = resume
    BY <1>4, <1>14, <2>1 DEF ReleaseTimesOut
  <2>3. gen' > Base
    BY <1>1, <1>4, <2>1, <2>2, WorkTyped
  <2>4. AtRest' /\ txn.play \in PlayStates
    BY <1>2, <2>2 DEF MainStages, TypeOK, MainTyped, Txn
  <2>5. QED
    BY <1>4, <1>6, <2>1, <2>2, <2>3, <2>4 DEF GivesUp, Active
<1>15. CASE RepairStops
  BY <1>2, <1>4, <1>15 DEF RepairStops, Blocked
<1>16. CASE PlanFails \/ BeginStart
  <2>1. ~AtRest
    BY <1>2, <1>16 DEF PlanFails, BeginStart, Blocked
  <2>2. QED
    BY <1>10, <1>16, <2>1 DEF PlanFails, BeginStart
<1>17. ASSUME NEW fits \in BOOLEAN, SinkAnswered(fits)
       PROVE  Goal
  <2>1. ~AtRest
    BY <1>2, <1>17 DEF SinkAnswered, Blocked
  <2>2. /\ pc' \in {"asking", "starting", "planning"} /\ start' = start /\ pending' = pending /\ epoch' = epoch
        /\ txn' = txn \/ txn' = [txn EXCEPT !.cmd = "Stop"]
    BY <1>4, <1>17, <2>1 DEF SinkAnswered
  <2>3. txn'.why = txn.why /\ txn'.gen = txn.gen
    BY <2>2 DEF TypeOK, MainTyped, Txn
  <2>4. ~AtRest'
    BY <2>2 DEF MainStages
  <2>5. Loads
    BY <1>4, <2>1, <2>2, <2>3, <2>4 DEF Loads
  <2>6. QED
    BY <2>5
<1>18. CASE NextStage
  <2>1. /\ pc \in MainStages /\ pc' \in MainStages /\ UNCHANGED <<gen, play, seek, pending, events>>
    BY <1>18 DEF NextStage, MainStages, elsewhere
  <2>2. NoCall
    BY <1>18 DEF NextStage
  <2>3. QED
    BY <1>11, <2>1, <2>2 DEF GoesOn, Claims, Active
<1>19. ASSUME NEW why \in {"refused", "late", "lost"}, StartFails(why)
       PROVE  Goal
  <2>1. /\ pc = "poll" /\ pc' = "seek" /\ pending.on /\ gen' = pending.gen + 1 /\ pending' = NoPending
        /\ play' = FailedPlay(pending.play) /\ start' = NoJob /\ hold' = FALSE
    BY <1>19 DEF StartFails, PlaybackStop, Went
  <2>2. AtRest /\ AtRest' /\ pending.play \in PlayStates
    BY <1>2, <2>1 DEF TypeOK, MainTyped, Pending
  <2>3. gen' > Base
    BY <1>1, <1>3, <2>1, <2>2, WorkTyped
  <2>4. GivesUp
    BY <1>1, <1>6, <2>1, <2>2, <2>3 DEF GivesUp, Active
  <2>5. QED
    BY <2>4
<1>20. ASSUME NEW refused \in BOOLEAN, ApplySeek(refused)
       PROVE  Goal
  <2>1. "TrackGone" \notin Disturbances
    BY DEF Undisturbing
  <2>2. pc = "seek" /\ ~pending.on /\ pending' = pending /\ events' = events
    BY <1>20 DEF ApplySeek, elsewhere
  <2>3. CASE Active
    <3>1. BeginLoad(gen, play, TRUE)
      BY <1>20, <2>1, <2>3 DEF ApplySeek
    <3>2. QED
      BY <1>8, <2>2, <3>1
  <2>4. CASE ~Active
    <3>1. NoCall /\ pc' = "seek" /\ gen' = gen /\ play' = play
      BY <1>12, <1>20, <2>4 DEF ApplySeek
    <3>2. QED
      BY <1>2, <1>11, <2>2, <2>4, <3>1 DEF GoesOn, Claims, Active
  <2>5. QED
    BY <2>3, <2>4
<1>21. ASSUME NEW s \in {"Paused", "Stopped"}, NEW keeps \in BOOLEAN, Pause(s, keeps), AtRest, AtRest', events' = events
       PROVE  Goal
  <2>1. pending' = NoPending
    BY <1>21 DEF Pause, Abandon
  <2>2. CASE play = "Playing" /\ ~seek /\ PauseInPlace(gen, s)
    <3>1. /\ UNCHANGED <<gen, epoch, start, decodeQ, sinkQ>> /\ ~pending.on /\ Claims
      BY <1>7, <2>2 DEF PauseInPlace, Claims, Active
    <3>2. QED
      BY <1>1, <1>21, <2>1, <3>1 DEF GoesOn
  <2>3. CASE PauseReleasing(gen, s) \/ PauseReleasing(Abandoned, s)
    <3>1. StopSinking(gen, s) \/ StopSinking(Abandoned, s)
      BY <2>3 DEF PauseReleasing
    <3>2. GivesUp
      BY <1>1, <1>9, <1>21, <2>1, <3>1
    <3>3. QED
      BY <3>2
  <2>4. QED
    BY <1>21, <2>2, <2>3 DEF Pause
<1>22. CASE TogglePause \/ StopPlayback
  <2>1. pc = "input" /\ pc' = "input" /\ events' = events
    BY <1>12, <1>22 DEF TogglePause, StopPlayback, Input, InputRest, elsewhere
  <2>2. Pause("Paused", pending.song) \/ Pause("Stopped", FALSE)
    BY <1>22 DEF TogglePause, StopPlayback
  <2>3. pending.song \in BOOLEAN
    BY DEF TypeOK, MainTyped, Pending
  <2>4. QED
    BY <1>2, <1>21, <2>1, <2>2, <2>3
<1>23. CASE ResumeInPlace
  <2>1. /\ pc = "input" /\ pc' = "input" /\ events' = events /\ ~pending.on /\ pending' = pending
        /\ play = "Paused" /\ hold /\ UNCHANGED <<gen, epoch, start, decodeQ, sinkQ>>
    BY <1>12, <1>23 DEF ResumeInPlace, Input, InputRest, elsewhere
  <2>2. Claims
    BY <2>1 DEF Claims
  <2>3. QED
    BY <1>2, <2>1, <2>2 DEF GoesOn
<1>24. CASE StepWhileStarting
  BY <1>2, <1>12, <1>24 DEF StepWhileStarting, Input, InputRest, elsewhere, StepsOn
<1>25. CASE StopAtEnd
  <2>1. /\ pc = "input" /\ pc' = "input" /\ ~pending.on /\ pending' = pending /\ StopSinking(gen, "Stopped")
    BY <1>12, <1>25 DEF StopAtEnd, Input
  <2>2. GivesUp
    BY <1>1, <1>2, <1>9, <2>1
  <2>3. QED
    BY <2>2
<1>26. CASE SeekBy
  <2>1. /\ pc = "input" /\ pc' = "input" /\ events' = events /\ pending' = pending
    BY <1>12, <1>26 DEF SeekBy, Input, InputRest, elsewhere
  <2>2. CASE Active
    <3>1. /\ UNCHANGED <<gen, epoch, start, decodeQ, sinkQ, play>> /\ seek'
      BY <1>26, <2>2 DEF SeekBy
    <3>2. ~Claims'
      BY <2>2, <3>1 DEF Claims, Active
    <3>3. QED
      BY <1>2, <2>1, <3>1, <3>2 DEF GoesOn
  <2>3. CASE ~Active
    <3>1. StopSinking(gen, play) /\ ~pending.on
      BY <1>7, <1>26, <2>3 DEF SeekBy, ReleaseHold, Active
    <3>2. GivesUp
      BY <1>1, <1>2, <1>9, <2>1, <2>3, <3>1 DEF Active
    <3>3. QED
      BY <3>2
  <2>4. QED
    BY <2>2, <2>3
<1>27. CASE WheelClick
  <2>1. /\ pc = "input" /\ pc' = "input" /\ events' = events /\ pending' = pending
        /\ UNCHANGED <<gen, epoch, start, decodeQ, play, seek, hold>>
        /\ sinkQ' = sinkQ \/ sinkQ' = Offer(sinkQ, Click, SinkCap)
    BY <1>12, <1>27 DEF WheelClick, Input, InputRest, elsewhere
  <2>2. QED
    BY <1>2, <2>1 DEF GoesOn, Claims, Active
<1>28. ASSUME NEW steps \in 0..1, NEW song \in BOOLEAN, PlaySong(steps, song)
       PROVE  Goal
  BY <1>8, <1>28 DEF PlaySong
<1>29. CASE SleepRequest \/ SdRepair \/ HoldLimit \/ PrepareSleep
  BY <1>29 DEF SleepRequest, SdRepair, HoldLimit, PrepareSleep, Undisturbing
<1>30. ASSUME NEW b \in BOOLEAN, PeerLost(b) \/ SourceChange(b) \/ CardRemoved(b)
       PROVE  Goal
  BY <1>30 DEF PeerLost, SourceChange, CardRemoved, Undisturbing
<1>31. CASE StaleEvent
  <2>1. /\ pc = "events" /\ pc' = pc /\ events # <<>> /\ Head(events).job.gen # gen /\ events' = Tail(events)
        /\ NoCall /\ UNCHANGED <<gen, play, seek, pending>>
    BY <1>31 DEF StaleEvent
  <2>2. QED
    BY <1>2, <1>11, <2>1 DEF GoesOn, Claims, Active
<1>32. ASSUME NEW found \in BOOLEAN, TrackStarted \/ TrackBoundary(found)
       PROVE  Goal
  <2>1. /\ pc = "events" /\ pc' = "events" /\ events # <<>> /\ Head(events).job.gen = gen
        /\ events' = Tail(events) /\ Head(events).kind \notin LastReports
        /\ NoCall /\ UNCHANGED <<gen, seek, pending>>
    BY <1>12, <1>32 DEF TrackStarted, TrackBoundary, TakesEvent, LastReports
  <2>2. QED
    BY <1>2, <1>5, <1>11, <2>1 DEF GoesOn
<1>33. CASE PlaybackError
  <2>1. /\ pc = "events" /\ pc' = "events" /\ ~pending.on /\ pending' = pending /\ StopSinking(gen, "Error")
    BY <1>5, <1>12, <1>33 DEF PlaybackError, TakesEvent
  <2>2. GivesUp
    BY <1>1, <1>2, <1>9, <2>1
  <2>3. QED
    BY <2>2
<1>34. ASSUME NEW next \in BOOLEAN, NEW again \in BOOLEAN, TrackEnded(next, again)
       PROVE  Goal
  <2>1. /\ pc = "events" /\ ~pending.on /\ pending' = pending /\ events # <<>> /\ events' = Tail(events)
        /\ Head(events).kind = "TrackEnded" /\ Head(events).job.gen = gen /\ play' = "Stopped"
    BY <1>5, <1>34 DEF TrackEnded, TakesEvent
  <2>2. CASE next \/ again
    <3>1. BeginLoad(IF again THEN gen ELSE gen + 1, "Stopped", TRUE)
      BY <1>34, <2>1, <2>2 DEF TrackEnded
    <3>2. QED
      BY <1>8, <2>1, <3>1
  <2>3. CASE ~(next \/ again)
    <3>1. NoCall /\ pc' = "events" /\ gen' = gen
      BY <1>12, <1>34, <2>3 DEF TrackEnded
    <3>2. QED
      BY <1>2, <1>11, <2>1, <3>1 DEF TakesEnd
  <2>4. QED
    BY <2>2, <2>3
<1>35. CASE TransportMoves
  BY <1>8, <1>35 DEF TransportMoves
<1>36. CASE TransportFails
  <2>1. /\ pc = "control" /\ pc' = "control" /\ pending' = NoPending /\ StopSinking(Abandoned, "Error")
    BY <1>12, <1>36 DEF TransportFails, Control, Abandon
  <2>2. GivesUp
    BY <1>1, <1>2, <1>9, <2>1
  <2>3. QED
    BY <2>2
<1>37. CASE RestoreSleep
  <2>1. /\ pc = "control" /\ pc' = "control" /\ NoCall /\ UNCHANGED <<gen, play, seek, pending, events>>
    BY <1>12, <1>37 DEF RestoreSleep, Control, elsewhere
  <2>2. QED
    BY <1>2, <1>11, <2>1 DEF GoesOn, Claims, Active
<1>38. CASE StartOpened
  BY <1>38
<1>39. QED
  BY <1>13, <1>14, <1>15, <1>16, <1>17, <1>18, <1>19, <1>20, <1>22, <1>23, <1>24, <1>25, <1>26, <1>27,
     <1>28, <1>29, <1>30, <1>31, <1>32, <1>33, <1>34, <1>35, <1>36, <1>37, <1>38 DEF TransportNext

(* What the main thread leaves alone. *)
LEMMA MainLeaves ==
  ASSUME TransportNext
  PROVE  /\ UNCHANGED <<stream, eof, spc, outbox, job, streamQ>> /\ NoJob' = NoJob
         /\ events' = events \/ (events # <<>> /\ events' = Tail(events))
BY TransportLeaves DEF sinkVars, decodeVars, NoJob

(* No work is of a generation past the base. *)
LEMMA NothingPastBase ==
  ASSUME TypeOK, StreamsInv, NEW d \in Work, d # NoJob, NEW g \in Nat, g > Base
  PROVE  d.gen # g
<1>1. d \in JobRef /\ Base \in Nat /\ d.gen <= Base
  BY WorkTyped DEF StreamsInv, Apart
<1>2. d.gen \in Nat
  BY <1>1 DEF JobRef
<1>3. QED
  BY <1>1, <1>2

(* With no work of its generation and nothing claimed, or a start of it that  *)
(* is on its way, the flow is right.                                          *)
LEMMA FlowStartsOver ==
  ASSUME \A d \in Work' : ~Ours(d)', ~Claims' \/ (start' # NoJob' /\ start'.gen = gen'),
         start' # NoJob' /\ start'.gen = gen' => epoch' = gen' /\ Followed(sinkQ')
  PROVE  FlowInv'
<1>1. Followed(sinkQ)' = Followed(sinkQ')
  BY DEF Followed
<1>2. QED
  BY <1>1 DEF FlowInv

LEMMA GoingOnKeepsEnding ==
  ASSUME TypeOK, TransportNext, GoesOn, NEW d, Ours(d), Ending(d)
  PROVE  Ending(d)'
<1>1. /\ UNCHANGED <<stream, eof, spc, outbox, job, streamQ, decodeQ>> /\ d.gen = gen
      /\ \/ events' = events
         \/ /\ events # <<>> /\ events' = Tail(events)
            /\ Head(events).job.gen = gen => Head(events).kind \notin LastReports
  BY MainLeaves DEF GoesOn, Ours
<1>2. CASE d \in JobsIn(decodeQ) \cup {job} \/ (\E s \in InStream : s.kind = "End" /\ s.job = d) \/ (eof /\ stream = d)
  BY <1>1, <1>2 DEF Ending, JobsIn, InStream
<1>3. ASSUME NEW e \in Reported, e.kind \in LastReports, e.job = d
      PROVE  Ending(d)'
  <2>1. e \in Reported'
    <3>1. CASE e \in Inside(events)
      <4>1. e \in Inside(events')
        <5>1. events \in Seq(Event)
          BY DEF TypeOK, ChannelsTyped
        <5>2. CASE events # <<>> /\ events' = Tail(events)
          <6>1. e # Head(events)
            BY <1>1, <1>3, <5>2
          <6>2. QED
            BY <3>1, <5>1, <5>2, <6>1, InsideTaken
        <5>3. QED
          BY <1>1, <3>1, <5>2
      <4>2. QED
        BY <4>1 DEF Reported, Inside
    <3>2. CASE spc = "emit" /\ e = outbox.event
      BY <1>1, <3>2 DEF Reported
    <3>3. QED
      BY <3>1, <3>2 DEF Reported, Inside
  <2>2. QED
    BY <1>3, <2>1 DEF Ending, LastReports
<1>4. QED
  BY <1>2, <1>3 DEF Ending

LEMMA GoingOnKeepsFlow ==
  ASSUME TypeOK, StreamsInv, Named, StartsPend, FlowInv, TransportNext, GoesOn, Work' \subseteq Work
  PROVE  StartsPend' /\ FlowInv'
<1>1. /\ AtRest /\ AtRest' /\ UNCHANGED <<gen, epoch, start, decodeQ, stream>> /\ NoJob' = NoJob
      /\ sinkQ' = sinkQ \/ sinkQ' = Offer(sinkQ, Click, SinkCap)
      /\ pending'.on = pending.on /\ (pending.on => play' = play)
      /\ Claims' => Claims \/ (events # <<>> /\ Head(events).job.gen = gen)
  BY MainLeaves DEF GoesOn
<1>2. StartsPend'
  BY <1>1 DEF StartsPend
<1>3. /\ Followed(sinkQ) => Followed(sinkQ')
      /\ OnlyClicks(sinkQ) => OnlyClicks(sinkQ')
  <2>1. sinkQ \in Seq(SinkCommand) /\ Click \in SinkCommand /\ Click.op = "Click"
    BY Messages DEF TypeOK, ChannelsTyped, Click
  <2>2. /\ Followed(sinkQ) => Followed(Append(sinkQ, Click))
        /\ OnlyClicks(sinkQ) => OnlyClicks(Append(sinkQ, Click))
    BY <2>1, FollowedSent, InsideSent DEF OnlyClicks
  <2>3. QED
    BY <1>1, <2>2 DEF Offer
<1>4. \A d : Ours(d)' <=> Ours(d)
  BY <1>1 DEF Ours
<1>5. ASSUME NEW d \in Work, Ours(d)
      PROVE  d \in Work' /\ Sounds(d)' /\ Ending(d)'
  <2>1. Sounds(d) /\ Ending(d)
    BY <1>1, <1>5 DEF FlowInv
  <2>2. Ending(d)'
    BY <1>5, <2>1, GoingOnKeepsEnding
  <2>3. d \in Work'
    BY <2>2 DEF Ending, Work, JobsIn, InStream, Reported
  <2>4. Sounds(d)'
    BY <1>1, <1>3, <2>1 DEF Sounds, OnlyClicks, Inside
  <2>5. QED
    BY <2>2, <2>3, <2>4
<1>6. ASSUME Claims'
      PROVE  IF start' # NoJob' THEN start'.gen = gen' ELSE \E d \in Work' : Ours(d)'
  <2>1. CASE Claims
    BY <1>1, <1>4, <1>5, <2>1 DEF FlowInv
  <2>2. CASE ~Claims
    <3>1. events # <<>> /\ Head(events).job.gen = gen
      BY <1>1, <1>6, <2>2
    <3>2. ~pending.on
      BY <3>1, NoEventWhileStarting
    <3>3. start' = NoJob'
      BY <1>1, <3>2 DEF StartsPend
    <3>4. Head(events).job \in JobsIn(events)
      BY <3>1, JobsTaken DEF TypeOK, ChannelsTyped
    <3>5. Head(events).job \in Work /\ Ours(Head(events).job)
      BY <3>1, <3>4 DEF Work, Named, Ours
    <3>6. QED
      BY <1>4, <1>5, <3>3, <3>5
  <2>3. QED
    BY <2>1, <2>2
<1>7. start' # NoJob' /\ start'.gen = gen' => epoch' = gen' /\ Followed(sinkQ)'
  BY <1>1, <1>3 DEF FlowInv, Followed
<1>8. \A d \in Work' : Ours(d)' => Sounds(d)' /\ Ending(d)'
  BY <1>4, <1>5
<1>9. FlowInv'
  BY <1>6, <1>7, <1>8 DEF FlowInv
<1>10. QED
  BY <1>2, <1>9

LEMMA SteppingOnKeepsFlow ==
  ASSUME TypeOK, StreamsInv, StartsPend, TransportNext, StepsOn, Work' \subseteq Work
  PROVE  StartsPend' /\ FlowInv'
<1>1. /\ AtRest /\ AtRest' /\ pending.on /\ gen' = gen + 1 /\ seek'
      /\ UNCHANGED <<pending, play, epoch, start, decodeQ, sinkQ, events>> /\ NoJob' = NoJob
  BY MainLeaves DEF StepsOn
<1>2. pending.was \in Nat /\ pending.gen \in Nat /\ gen \in Nat
  BY DEF TypeOK, MainTyped, Pending
<1>3. StartsPend'
  BY <1>1 DEF StartsPend
<1>4. gen' \in Nat /\ gen' > Base
  BY <1>1, <1>2 DEF StreamsInv, Numbers, Base
<1>5. \A d \in Work' : ~Ours(d)'
  BY <1>1, <1>4, NothingPastBase DEF Ours
<1>6. ~Claims'
  BY <1>1 DEF Claims, StartsPend
<1>7. start' # NoJob' => start'.gen # gen'
  BY <1>1, <1>2 DEF StreamsInv, Numbers
<1>8. QED
  BY <1>3, <1>5, <1>6, <1>7, FlowStartsOver

LEMMA GivingUpKeepsFlow ==
  ASSUME TypeOK, StreamsInv, TransportNext, GivesUp, Work' \subseteq Work
  PROVE  StartsPend' /\ FlowInv'
<1>1. AtRest' /\ gen' > Base /\ start' = NoJob /\ ~pending'.on /\ ~Active' /\ ~hold' /\ NoJob' = NoJob
  BY MainLeaves DEF GivesUp
<1>2. StartsPend'
  BY <1>1 DEF StartsPend
<1>3. gen' \in Nat
  BY TransportTyped DEF TypeOK, MainTyped
<1>4. \A d \in Work' : ~Ours(d)'
  BY <1>1, <1>3, NothingPastBase DEF Ours
<1>5. ~Claims'
  BY <1>1 DEF Claims
<1>6. QED
  BY <1>1, <1>2, <1>4, <1>5, FlowStartsOver

LEMMA LoadingKeepsFlow ==
  ASSUME TransportNext, Loads
  PROVE  StartsPend' /\ FlowInv'
BY MainLeaves DEF Loads, StartsPend, FlowInv

(* The end taken was the last of its stream, and of the model's generation    *)
(* there was no other.                                                        *)
LEMMA TakingTheEndKeepsFlow ==
  ASSUME TypeOK, StreamsInv, EndsInv, Fresh, Named, EndIsReportedLast, StartsPend, TransportNext, TakesEnd,
         Work' \subseteq Work
  PROVE  StartsPend' /\ FlowInv'
<1> DEFINE h == Head(events).job
<1>1. /\ AtRest /\ AtRest' /\ UNCHANGED <<gen, start, pending, decodeQ, stream, eof, outbox, job, streamQ, block>>
      /\ play' = "Stopped" /\ events # <<>> /\ events' = Tail(events) /\ NoJob' = NoJob
      /\ Head(events).kind = "TrackEnded" /\ h.gen = gen
  BY MainLeaves, TransportLeaves DEF TakesEnd, sinkVars
<1>2. ~pending.on /\ start = NoJob
  BY <1>1, NoEventWhileStarting DEF StartsPend
<1>3. StartsPend'
  BY <1>1, <1>2 DEF StartsPend
<1>4. events \in Seq(Event)
  BY DEF TypeOK, ChannelsTyped
<1>5. h \in JobsIn(events) /\ h \in Work /\ h # NoJob
  BY <1>1, <1>4, JobsTaken DEF Work, Named
<1>6. h \notin LastJob \cup {outbox.event.job} \cup JobsIn(Tail(events))
  BY <1>1, <1>4, LastTaken DEF EndIsReportedLast
<1>7. h \notin Behind
  <2>1. Head(events) = events[1] /\ 1 \in 1..Len(events)
    BY <1>1, <1>4
  <2>2. QED
    BY <1>1, <2>1 DEF EndsInv, AllEnded, Ended
<1>8. h \notin Work'
  BY <1>1, <1>5, <1>6, <1>7 DEF Work, Behind, LastJob, JobsIn
<1>9. txn.why # "load"
  BY <1>1 DEF AtRest, StreamsInv, Numbers
<1>10. ASSUME NEW d \in Work', Ours(d)'
       PROVE  FALSE
  <2>1. d \in Work /\ d.gen = gen
    BY <1>1, <1>10 DEF Ours
  <2>2. d.id = starts /\ h.id = starts
    BY <1>1, <1>5, <1>9, <2>1 DEF Fresh
  <2>3. d \in JobRef /\ h \in JobRef
    BY <1>5, <2>1, WorkTyped
  <2>4. d = h
    BY <1>1, <2>1, <2>2, <2>3 DEF JobRef
  <2>5. QED
    BY <1>8, <1>10, <2>4
<1>11. ~Claims'
  BY <1>1 DEF Claims, Active
<1>12. QED
  BY <1>1, <1>2, <1>3, <1>10, <1>11, FlowStartsOver

LEMMA StartingKeepsFlow ==
  ASSUME TypeOK, StreamsInv, StartsPend, TransportNext, pc = "starting", MayOpen, StartSent, Work' \subseteq Work
  PROVE  StartsPend' /\ FlowInv'
<1> DEFINE j == [id |-> starts, gen |-> txn.gen]
<1>1. /\ sinkQ' = Append(sinkQ, Open(j)) /\ start' = j /\ gen' = txn.gen /\ play' = "Buffering" /\ pc' = resume
      /\ epoch' = epoch /\ NoJob' = NoJob /\ pending'.on /\ j.gen = txn.gen
  BY MainLeaves DEF StartSent, SendOpen
<1>2. /\ gen \in Nat /\ txn.gen \in Nat /\ txn.was \in Nat /\ starts \in Nat /\ resume \in MainStages
      /\ sinkQ \in Seq(SinkCommand) /\ j \in JobRef
  BY DEF TypeOK, MainTyped, ChannelsTyped, Txn, JobRef
<1>3. /\ txn.why = "load" /\ ~pending.on /\ starts > 0 /\ txn.gen = gen + 1 /\ txn.was <= gen
  BY DEF StreamsInv, Numbers
<1>4. j # NoJob
  BY <1>2, <1>3 DEF NoJob
<1>5. epoch = txn.gen
  BY DEF StartsPend, AtRest, MainStages
<1>6. StartsPend'
  BY <1>1, <1>2, <1>4 DEF StartsPend, AtRest
<1>7. gen' \in Nat /\ gen' > Base
  BY <1>1, <1>2, <1>3 DEF Base
<1>8. \A d \in Work' : ~Ours(d)'
  BY <1>1, <1>7, NothingPastBase DEF Ours
<1>9. Followed(sinkQ')
  <2>1. Open(j) \in SinkCommand /\ Open(j).op = "Open"
    BY <1>2 DEF Open, SinkCommand
  <2>2. QED
    BY <1>1, <1>2, <2>1, FollowedSent
<1>10. QED
  BY <1>1, <1>4, <1>5, <1>6, <1>8, <1>9, FlowStartsOver

(* The load: its device is the open stream, and nothing follows it.  Either   *)
(* it is of the model's generation and is all there is of it, or the model    *)
(* went on and claims nothing.                                                *)
LEMMA OpeningKeepsFlow ==
  ASSUME TypeOK, StreamsInv, StartsPend, FlowInv, StartOpened
  PROVE  StartsPend' /\ FlowInv'
<1>0. TransportNext
  BY DEF TransportNext
<1>1. /\ pc = "poll" /\ pc' = "seek" /\ pending.on /\ opened = "open" /\ decodeQ' = Append(decodeQ, Load(start))
      /\ start' = NoJob /\ pending' = NoPending /\ UNCHANGED <<epoch, sinkQ, gen, play, seek, hold, stream>>
      /\ NoJob' = NoJob
  BY <1>0, MainLeaves DEF StartOpened, Went
<1>2. AtRest /\ AtRest' /\ Claims' = Claims /\ ~pending'.on
  BY <1>1 DEF AtRest, MainStages, Claims, Active, NoPending
<1>3. start # NoJob /\ Opens = {} /\ stream = start
  BY <1>1 DEF StreamsInv, Answered
<1>4. StartsPend'
  BY <1>1, <1>2 DEF StartsPend
<1>5. gen \in Nat /\ pending.gen \in Nat /\ pending.was \in Nat
  BY DEF TypeOK, MainTyped, Pending
<1>6. gen > Base
  BY <1>1, <1>5 DEF StreamsInv, Numbers, Base
<1>7. ASSUME NEW d \in Work', Ours(d)'
      PROVE  d = start
  <2>1. d \in Work \cup {start} /\ d # NoJob /\ d.gen = gen
    BY <1>1, <1>7, LoadKeepsStreams DEF Ours
  <2>2. QED
    BY <1>5, <1>6, <2>1, NothingPastBase
<1>8. start \in JobsIn(decodeQ')
  <2>1. decodeQ \in Seq(DecodeCommand) /\ Load(start) \in DecodeCommand /\ Load(start).job = start
    BY DEF TypeOK, ChannelsTyped, MainTyped, Load, DecodeCommand
  <2>2. QED
    BY <1>1, <2>1, JobsSent
<1>9. ASSUME NEW d, d = start
      PROVE  d \in Work' /\ Ending(d)'
  BY <1>8, <1>9 DEF Work, Ending, JobsIn
<1>10. ASSUME start.gen = gen, NEW d, d = start
       PROVE  Sounds(d)' /\ Ours(d)'
  <2>1. epoch = gen /\ Followed(sinkQ)
    BY <1>2, <1>3, <1>10 DEF FlowInv
  <2>2. OnlyClicks(sinkQ)
    BY <1>3, <2>1, FollowedAlone DEF Opens, OpensIn
  <2>3. QED
    BY <1>1, <1>3, <1>10, <2>1, <2>2 DEF Sounds, Ours, OnlyClicks, Inside
<1>11. \A d \in Work' : Ours(d)' => Sounds(d)' /\ Ending(d)'
  <2>1. ASSUME NEW d \in Work', Ours(d)'
        PROVE  Sounds(d)' /\ Ending(d)'
    <3>1. d = start /\ start.gen = gen
      BY <1>1, <1>7, <2>1 DEF Ours
    <3>2. QED
      BY <1>9, <1>10, <3>1
  <2>2. QED
    BY <2>1
<1>12. Claims' => \E d \in Work' : Ours(d)'
  <2>1. ASSUME NEW d, d = start, start.gen = gen
        PROVE  d \in Work' /\ Ours(d)'
    BY <1>9, <1>10, <2>1
  <2>2. Claims' => start.gen = gen
    BY <1>2, <1>3 DEF FlowInv
  <2>3. QED
    BY <2>1, <2>2
<1>13. FlowInv'
  BY <1>1, <1>11, <1>12 DEF FlowInv
<1>14. QED
  BY <1>4, <1>13

LEMMA MainKeepsFlow ==
  ASSUME Disturbances \subseteq Undisturbing, TypeOK, Released, StreamsInv, EndsInv, Fresh, Named,
         EndIsReportedLast, StartsPend, FlowInv, TransportNext
  PROVE  StartsPend' /\ FlowInv'
<1>1. CASE StartOpened
  BY <1>1, OpeningKeepsFlow
<1>2. CASE ~StartOpened
  <2>1. Work' \subseteq Work
    BY <1>2, MainKeepsStreams
  <2>2. QED
    BY <1>2, <2>1, MainMoves, StartingKeepsFlow, GoingOnKeepsFlow, SteppingOnKeepsFlow, GivingUpKeepsFlow,
       TakingTheEndKeepsFlow, LoadingKeepsFlow
<1>3. QED
  BY <1>1, <1>2

(* What the main thread believes is under way, is: a start has its answer on  *)
(* the way and a pass that will take it; a song that plays, buffers or is     *)
(* held in place has a stream that is opened, decoded, sounds or is about to  *)
(* report its end.  This is of a player which nothing but the wheel's clicks  *)
(* and changes of the transport disturb.  A card repair, a hold that is given *)
(* up, a track, a source or a peer that goes, and a sleep each break it       *)
(* alone: README, section 8.                                                  *)
LEMMA WaitsBackedUndisturbed ==
  ASSUME Disturbances \subseteq {"Click", "Transport"}
  PROVE  Spec => []WaitsAreBacked
<1> DEFINE Inv == TypeOK /\ Released /\ StreamsInv /\ EndsInv /\ Fresh /\ Named /\ EndIsReportedLast
                  /\ StartsPend /\ FlowInv
<1>1. Disturbances \subseteq Undisturbing /\ "SourceChange" \notin Disturbances /\ "PeerLost" \notin Disturbances
  BY DEF Undisturbing
<1>2. Init => EndsInv /\ Fresh /\ Named /\ EndIsReportedLast /\ StartsPend /\ FlowInv
  <2> SUFFICES ASSUME Init
               PROVE  EndsInv /\ Fresh /\ Named /\ EndIsReportedLast /\ StartsPend /\ FlowInv
    OBVIOUS
  <2>1. /\ pc = "poll" /\ gen = 0 /\ play = "Stopped" /\ ~hold /\ pending = NoPending /\ start = NoJob
        /\ txn = NoTxn /\ sinkQ = <<>> /\ decodeQ = <<>> /\ streamQ = <<>> /\ events = <<>> /\ starts = 0
        /\ job = NoJob /\ dpc = "idle" /\ block = NoJob /\ outbox = NoOutbox /\ eof = FALSE /\ spc = "commands"
    BY DEF Init, TransportInit, SinkInit, DecodeInit
  <2>2. NoPending.on = FALSE /\ NoOutbox.event.job = NoJob /\ NoOutbox.event.kind # "TrackEnded"
        /\ NoJob.id = 0
    BY DEF NoPending, NoOutbox, NoJob
  <2>3. Work = {NoJob}
    BY <2>1, <2>2 DEF Work, JobsIn
  <2>4. EndsInv
    BY <2>1, <2>2 DEF EndsInv, EndsAreLast, LoadsAreOnce, LoadsAreJobs, EofIsLast, Ended, AllEnded
  <2>5. Fresh
    BY <2>1, <2>2, <2>3 DEF Fresh
  <2>6. Named /\ EndIsReportedLast
    BY <2>1, <2>2 DEF Named, EndIsReportedLast, LastOfAll, LastJob, Inside, JobsIn
  <2>7. StartsPend
    BY <2>1, <2>2 DEF StartsPend, AtRest, MainStages
  <2>8. FlowInv
    BY <2>1, <2>3 DEF FlowInv, Ours, Claims, Active
  <2>9. QED
    BY <2>4, <2>5, <2>6, <2>7, <2>8
<1>3. Inv /\ [Next]_vars => EndsInv' /\ Fresh' /\ Named' /\ EndIsReportedLast' /\ StartsPend' /\ FlowInv'
  <2> SUFFICES ASSUME Inv, [Next]_vars
               PROVE  EndsInv' /\ Fresh' /\ Named' /\ EndIsReportedLast' /\ StartsPend' /\ FlowInv'
    OBVIOUS
  <2>1. Fresh'
    BY <1>1, FreshStays
  <2>2. CASE SinkNext
    <3>1. UNCHANGED <<pc, play, pending, start, txn, epoch>> /\ NoJob' = NoJob
      BY <2>2, SinkThreadLeaves DEF NoJob
    <3>2. StartsPend'
      BY <3>1 DEF StartsPend, AtRest
    <3>3. QED
      BY <2>1, <2>2, <3>2, SinkKeepsEnds, SinkKeepsReports, SinkKeepsFlow
  <2>3. CASE DecodeNext
    <3>1. UNCHANGED <<pc, play, pending, start, txn, epoch>> /\ NoJob' = NoJob
      BY <2>3, DecodeThreadLeaves DEF NoJob, mainVars
    <3>2. StartsPend'
      BY <3>1 DEF StartsPend, AtRest
    <3>3. QED
      BY <2>1, <2>3, <3>2, DecodeKeepsEnds, DecodeKeepsReports, DecodeKeepsFlow
  <2>4. CASE TransportNext
    BY <1>1, <2>1, <2>4, MainKeepsEnds, MainKeepsReports, MainKeepsFlow
  <2>5. CASE UNCHANGED vars
    BY <2>1, <2>5 DEF vars, sharedVars, mainVars, sinkVars, decodeVars, EndsInv, EndsAreLast, LoadsAreOnce,
                LoadsAreJobs, EofIsLast, Ended, AllEnded, Behind, JobsIn, NoJob, Named, Inside, EndIsReportedLast,
                LastOfAll, LastJob, StartsPend, AtRest, FlowInv, Ours, Sounds, OnlyClicks, Ending, Claims, Active,
                InStream, Reported, Work, Followed
  <2>6. QED
    BY <2>2, <2>3, <2>4, <2>5 DEF Next
<1>4. Inv => WaitsAreBacked
  <2> SUFFICES ASSUME Inv
               PROVE  AnswerIsComing /\ PendingIsPolled /\ PlayingHasAStream
    BY DEF WaitsAreBacked, StartsAnswered
  <2>1. AnswerIsComing
    BY DEF StreamsInv, Answered, AnswerIsComing
  <2>2. PendingIsPolled
    BY DEF StartsPend, PendingIsPolled
  <2>3. ASSUME AtRest, Claims
        PROVE  InProgress(gen)
    <3>1. CASE start # NoJob
      BY <2>3, <3>1 DEF FlowInv, InProgress
    <3>2. CASE start = NoJob
      <4>1. PICK d \in Work : Ours(d)
        BY <2>3, <3>2 DEF FlowInv
      <4>2. Ending(d) /\ d.gen = gen
        BY <2>3, <4>1 DEF FlowInv, Ours
      <4>3. QED
        BY <4>2 DEF Ending, InProgress, JobsIn, LastReports
    <3>3. QED
      BY <3>1, <3>2
  <2>4. PlayingHasAStream
    BY <2>3 DEF PlayingHasAStream, Claims
  <2>5. QED
    BY <2>1, <2>2, <2>4
<1>5. QED
  BY <1>2, <1>3, <1>4, StreamsHold, PTL DEF Spec
=============================================================================
