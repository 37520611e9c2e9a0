------------------------ MODULE BackgroundGateProofs ------------------------
(***************************************************************************)
(* Proofs about the observation gate, for any number of source changes and *)
(* generations.  The strengthening says how the parts of the state agree:  *)
(* what `prepared` makes old, where `active` is set, and how a history     *)
(* count goes with a generation.                                           *)
(***************************************************************************)
EXTENDS BackgroundGate, TLAPS

(* The stages of the main loop: prepared from quiesce on, and where the gate *)
(* has just followed the model.                                              *)
StagesAgree ==
  /\ mpc \in {"quiescing", "quiesced"} => prepared /\ ~asleep
  /\ quiet => asleep \/ mpc = "quiesced"
  /\ asleep => prepared
  /\ mpc = "receive" => gateSources = sources

(* No request is of a generation to come, and of those a sleep finds none is *)
(* of the generation it began.                                               *)
RequestsAreOld ==
  /\ request <= generation
  /\ requests # <<>> => requests[1] <= generation
  /\ observations # <<>> => observations[1].gen <= generation
  /\ prepared => request < generation
  /\ prepared /\ requests # <<>> => requests[1] < generation

ActiveCoversRead == wpc \in {"recheck", "working", "final", "leave", "leaveOld"} => active

(* What was read for the present generation, while the gate is open and knows *)
(* the sources, was read in the present era.                                  *)
Fresh(g, e) == Accepts(g) /\ gateSources = sources => e = era

ReadsAreFresh ==
  /\ wpc \in {"working", "final", "leave", "publish"} => Fresh(request, readEra)
  /\ observations # <<>> => Fresh(observations[1].gen, observations[1].era)

IInv ==
  /\ GateTypeOK /\ StagesAgree /\ RequestsAreOld /\ ActiveCoversRead /\ ReadsAreFresh

-----------------------------------------------------------------------------
(* What a channel of at most one holds. *)
LEMMA FirstTyped ==
  ASSUME NEW S, NEW q \in Seq(S), q # <<>>
  PROVE  q[1] \in S
OBVIOUS

(* What a send into an empty channel leaves there. *)
LEMMA OneTyped ==
  ASSUME NEW S, NEW m \in S
  PROVE  <<m>> \in Seq(S) /\ Len(<<m>>) = 1 /\ <<m>>[1] = m /\ <<m>> # <<>>
OBVIOUS

(* An update that changes something starts a generation, another one does nothing. *)
LEMMA UpdateMoves ==
  ASSUME GateTypeOK, NEW s \in Nat, NEW p \in BOOLEAN, Update(s, p)
  PROVE  /\ gateSources' = s /\ gateSources' \in Nat
         /\ (prepared' <=> p) /\ prepared' \in BOOLEAN
         /\ generation' \in Nat \ {0} /\ generation' >= generation
         /\ gateSources # s \/ ~(prepared <=> p) => generation' > generation
         /\ gateSources = s /\ (prepared <=> p) => generation' = generation
BY DEF GateTypeOK, Update

(* A request is sent or not. *)
LEMMA RequestSent ==
  ASSUME GateTypeOK, NEW q \in Nat, RequestObservation(q)
  PROVE  /\ pending' \in Nat /\ requests' \in Seq(Nat) /\ Len(requests') <= 1
         /\ requests' = requests \/ (~prepared /\ requests' = <<generation>>)
<1>1. CASE q = 0 /\ ~prepared /\ requests = <<>>
  <2>1. generation \in Nat /\ requests' = <<generation>> /\ pending' = generation
    BY <1>1 DEF GateTypeOK, RequestObservation
  <2>2. QED
    BY <1>1, <2>1, OneTyped
<1>2. CASE ~(q = 0 /\ ~prepared /\ requests = <<>>)
  BY <1>2 DEF GateTypeOK, RequestObservation
<1>3. QED
  BY <1>1, <1>2

(* What is read first from a channel has its type. *)
LEMMA HeadsTyped ==
  ASSUME GateTypeOK
  PROVE  /\ requests # <<>> => requests[1] \in Nat
         /\ observations # <<>> => observations[1] \in Observation
BY FirstTyped DEF GateTypeOK

(* A posted answer is the only one, or lost. *)
LEMMA AnswerPosted ==
  ASSUME GateTypeOK, NEW o \in Observation, observations' = Post(observations, o)
  PROVE  /\ observations' \in Seq(Observation) /\ Len(observations') <= 1
         /\ observations' = observations \/ observations' = <<o>>
<1>1. <<o>> \in Seq(Observation) /\ Len(<<o>>) = 1
  BY OneTyped
<1>2. QED
  BY <1>1 DEF GateTypeOK, Post

(* Every step keeps the types. *)
LEMMA TypeStep == GateTypeOK /\ [Next]_vars => GateTypeOK'
<1> SUFFICES ASSUME GateTypeOK, [Next]_vars
             PROVE  GateTypeOK'
  OBVIOUS
<1> USE DEF GateTypeOK, MainStages, WatchStages, Observation, Accepts, shared, gate, model, main, watchdog
<1>1. CASE MediaChange
  BY <1>1 DEF MediaChange
<1>2. CASE Follows("workers", "control")
  BY <1>2, UpdateMoves DEF Follows
<1>3. CASE Follows("observe", "receive")
  BY <1>3, UpdateMoves DEF Follows
<1>4. CASE Follows("periodic", "due")
  BY <1>4, UpdateMoves DEF Follows
<1>5. CASE NoControl
  BY <1>5 DEF NoControl
<1>6. CASE Receive
  BY <1>6, HeadsTyped DEF Receive
<1>7. CASE NothingReceived
  BY <1>7 DEF NothingReceived
<1>8. CASE NotDue
  BY <1>8 DEF NotDue
<1>9. ASSUME NEW b \in BOOLEAN, Woke(b)
      PROVE  GateTypeOK'
  BY <1>9, RequestSent DEF Woke
<1>10. ASSUME NEW b \in BOOLEAN, Due(b)
      PROVE  GateTypeOK'
  BY <1>10, RequestSent DEF Due, RefreshPending
<1>11. CASE Quiesce
  BY <1>11 DEF Quiesce
<1>12. CASE Quiesced
  BY <1>12 DEF Quiesced
<1>13. CASE SleepGivenUp
  BY <1>13, UpdateMoves DEF SleepGivenUp
<1>14. CASE SleepReady
  BY <1>14 DEF SleepReady
<1>15. CASE RestoreSleep
  BY <1>15, UpdateMoves DEF RestoreSleep
<1>16. CASE TakeRequest
  BY <1>16 DEF TakeRequest, Watch
<1>17. CASE Check
  BY <1>17 DEF Check, Watch
<1>18. CASE Enter
  BY <1>18 DEF Enter, Watch
<1>19. CASE BeginRead
  BY <1>19 DEF BeginRead, Watch, MayRead
<1>20. CASE Read
  BY <1>20 DEF Read, Watch
<1>21. CASE Final
  BY <1>21 DEF Final, Watch
<1>22. CASE Leave
  BY <1>22 DEF Leave, Watch
<1>23. CASE Publish
  BY <1>23, AnswerPosted DEF Publish, Watch, Post
<1>24. CASE UNCHANGED vars
  BY <1>24 DEF vars
<1>25. QED
  BY <1>1, <1>2, <1>3, <1>4, <1>5, <1>6, <1>7, <1>8, <1>9, <1>10, <1>11, <1>12, <1>13, <1>14, <1>15, <1>16, <1>17, <1>18, <1>19, <1>20, <1>21, <1>22, <1>23, <1>24
  DEF Next, Pass, Control, Watchdog

(* Every step keeps the stages and the flags in agreement. *)
LEMMA StagesStep == GateTypeOK /\ StagesAgree /\ [Next]_vars => StagesAgree'
<1> SUFFICES ASSUME GateTypeOK /\ StagesAgree, [Next]_vars
             PROVE  StagesAgree'
  OBVIOUS
<1> USE DEF GateTypeOK, StagesAgree, Accepts, shared, gate, model, main, watchdog
<1>1. CASE MediaChange
  BY <1>1 DEF MediaChange
<1>2. CASE Follows("workers", "control")
  BY <1>2, UpdateMoves DEF Follows
<1>3. CASE Follows("observe", "receive")
  BY <1>3, UpdateMoves DEF Follows
<1>4. CASE Follows("periodic", "due")
  BY <1>4, UpdateMoves DEF Follows
<1>5. CASE NoControl
  BY <1>5 DEF NoControl
<1>6. CASE Receive
  BY <1>6 DEF Receive
<1>7. CASE NothingReceived
  BY <1>7 DEF NothingReceived
<1>8. CASE NotDue
  BY <1>8 DEF NotDue
<1>9. ASSUME NEW b \in BOOLEAN, Woke(b)
      PROVE  StagesAgree'
  BY <1>9 DEF Woke
<1>10. ASSUME NEW b \in BOOLEAN, Due(b)
      PROVE  StagesAgree'
  BY <1>10 DEF Due, RefreshPending
<1>11. CASE Quiesce
  BY <1>11 DEF Quiesce
<1>12. CASE Quiesced
  BY <1>12 DEF Quiesced
<1>13. CASE SleepGivenUp
  BY <1>13, UpdateMoves DEF SleepGivenUp
<1>14. CASE SleepReady
  BY <1>14 DEF SleepReady
<1>15. CASE RestoreSleep
  BY <1>15, UpdateMoves DEF RestoreSleep
<1>16. CASE TakeRequest
  BY <1>16 DEF TakeRequest, Watch
<1>17. CASE Check
  BY <1>17 DEF Check, Watch
<1>18. CASE Enter
  BY <1>18 DEF Enter, Watch
<1>19. CASE BeginRead
  BY <1>19 DEF BeginRead, Watch, MayRead
<1>20. CASE Read
  BY <1>20 DEF Read, Watch
<1>21. CASE Final
  BY <1>21 DEF Final, Watch
<1>22. CASE Leave
  BY <1>22 DEF Leave, Watch
<1>23. CASE Publish
  BY <1>23 DEF Publish, Watch, Post
<1>24. CASE UNCHANGED vars
  BY <1>24 DEF vars
<1>25. QED
  BY <1>1, <1>2, <1>3, <1>4, <1>5, <1>6, <1>7, <1>8, <1>9, <1>10, <1>11, <1>12, <1>13, <1>14, <1>15, <1>16, <1>17, <1>18, <1>19, <1>20, <1>21, <1>22, <1>23, <1>24
  DEF Next, Pass, Control, Watchdog

(* A prepared gate sends no request, and preparing makes those sent old. *)
LEMMA RequestsStep == GateTypeOK /\ StagesAgree /\ RequestsAreOld /\ [Next]_vars => RequestsAreOld'
<1> SUFFICES ASSUME GateTypeOK /\ StagesAgree /\ RequestsAreOld, [Next]_vars
             PROVE  RequestsAreOld'
  OBVIOUS
<1> USE DEF GateTypeOK, Observation, StagesAgree, RequestsAreOld, Accepts, shared, gate, model, main, watchdog
<1>1. CASE MediaChange
  BY <1>1 DEF MediaChange
<1>2. CASE Follows("workers", "control")
  BY <1>2, UpdateMoves, HeadsTyped DEF Follows
<1>3. CASE Follows("observe", "receive")
  BY <1>3, UpdateMoves, HeadsTyped DEF Follows
<1>4. CASE Follows("periodic", "due")
  BY <1>4, UpdateMoves, HeadsTyped DEF Follows
<1>5. CASE NoControl
  BY <1>5 DEF NoControl
<1>6. CASE Receive
  BY <1>6 DEF Receive
<1>7. CASE NothingReceived
  BY <1>7 DEF NothingReceived
<1>8. CASE NotDue
  BY <1>8 DEF NotDue
<1>9. ASSUME NEW b \in BOOLEAN, Woke(b)
      PROVE  RequestsAreOld'
  BY <1>9, RequestSent DEF Woke
<1>10. ASSUME NEW b \in BOOLEAN, Due(b)
      PROVE  RequestsAreOld'
  BY <1>10, RequestSent DEF Due, RefreshPending
<1>11. CASE Quiesce
  BY <1>11, HeadsTyped DEF Quiesce
<1>12. CASE Quiesced
  BY <1>12 DEF Quiesced
<1>13. CASE SleepGivenUp
  <2>1. Update(sources, FALSE) /\ sources \in Nat /\ FALSE \in BOOLEAN
    BY <1>13 DEF SleepGivenUp
  <2>2. /\ ~prepared' /\ gateSources' = sources
        /\ generation' \in Nat /\ generation' >= generation
        /\ prepared \/ gateSources # sources => generation' > generation
    BY <2>1, UpdateMoves
  <2>3. QED
    BY <1>13, <2>2, HeadsTyped DEF SleepGivenUp
<1>14. CASE SleepReady
  BY <1>14 DEF SleepReady
<1>15. CASE RestoreSleep
  <2>1. Update(sources, FALSE) /\ sources \in Nat /\ FALSE \in BOOLEAN
    BY <1>15 DEF RestoreSleep
  <2>2. /\ ~prepared' /\ gateSources' = sources
        /\ generation' \in Nat /\ generation' >= generation
        /\ prepared \/ gateSources # sources => generation' > generation
    BY <2>1, UpdateMoves
  <2>3. QED
    BY <1>15, <2>2, HeadsTyped DEF RestoreSleep
<1>16. CASE TakeRequest
  BY <1>16 DEF TakeRequest, Watch
<1>17. CASE Check
  BY <1>17 DEF Check, Watch
<1>18. CASE Enter
  BY <1>18 DEF Enter, Watch
<1>19. CASE BeginRead
  BY <1>19 DEF BeginRead, Watch, MayRead
<1>20. CASE Read
  BY <1>20 DEF Read, Watch
<1>21. CASE Final
  BY <1>21 DEF Final, Watch
<1>22. CASE Leave
  BY <1>22 DEF Leave, Watch
<1>23. CASE Publish
  BY <1>23 DEF Publish, Watch, Post
<1>24. CASE UNCHANGED vars
  BY <1>24 DEF vars
<1>25. QED
  BY <1>1, <1>2, <1>3, <1>4, <1>5, <1>6, <1>7, <1>8, <1>9, <1>10, <1>11, <1>12, <1>13, <1>14, <1>15, <1>16, <1>17, <1>18, <1>19, <1>20, <1>21, <1>22, <1>23, <1>24
  DEF Next, Pass, Control, Watchdog

(* `active` is set before the second check and cleared after the last. *)
LEMMA ActiveStep == GateTypeOK /\ ActiveCoversRead /\ [Next]_vars => ActiveCoversRead'
<1> SUFFICES ASSUME GateTypeOK /\ ActiveCoversRead, [Next]_vars
             PROVE  ActiveCoversRead'
  OBVIOUS
<1> USE DEF GateTypeOK, ActiveCoversRead, Accepts, shared, gate, model, main, watchdog
<1>1. CASE MediaChange
  BY <1>1 DEF MediaChange
<1>2. CASE Follows("workers", "control")
  BY <1>2 DEF Follows
<1>3. CASE Follows("observe", "receive")
  BY <1>3 DEF Follows
<1>4. CASE Follows("periodic", "due")
  BY <1>4 DEF Follows
<1>5. CASE NoControl
  BY <1>5 DEF NoControl
<1>6. CASE Receive
  BY <1>6 DEF Receive
<1>7. CASE NothingReceived
  BY <1>7 DEF NothingReceived
<1>8. CASE NotDue
  BY <1>8 DEF NotDue
<1>9. ASSUME NEW b \in BOOLEAN, Woke(b)
      PROVE  ActiveCoversRead'
  BY <1>9 DEF Woke
<1>10. ASSUME NEW b \in BOOLEAN, Due(b)
      PROVE  ActiveCoversRead'
  BY <1>10 DEF Due, RefreshPending
<1>11. CASE Quiesce
  BY <1>11 DEF Quiesce
<1>12. CASE Quiesced
  BY <1>12 DEF Quiesced
<1>13. CASE SleepGivenUp
  BY <1>13 DEF SleepGivenUp
<1>14. CASE SleepReady
  BY <1>14 DEF SleepReady
<1>15. CASE RestoreSleep
  BY <1>15 DEF RestoreSleep
<1>16. CASE TakeRequest
  BY <1>16 DEF TakeRequest, Watch
<1>17. CASE Check
  BY <1>17 DEF Check, Watch
<1>18. CASE Enter
  BY <1>18 DEF Enter, Watch
<1>19. CASE BeginRead
  BY <1>19 DEF BeginRead, Watch, MayRead
<1>20. CASE Read
  BY <1>20 DEF Read, Watch
<1>21. CASE Final
  BY <1>21 DEF Final, Watch
<1>22. CASE Leave
  BY <1>22 DEF Leave, Watch
<1>23. CASE Publish
  BY <1>23 DEF Publish, Watch, Post
<1>24. CASE UNCHANGED vars
  BY <1>24 DEF vars
<1>25. QED
  BY <1>1, <1>2, <1>3, <1>4, <1>5, <1>6, <1>7, <1>8, <1>9, <1>10, <1>11, <1>12, <1>13, <1>14, <1>15, <1>16, <1>17, <1>18, <1>19, <1>20, <1>21, <1>22, <1>23, <1>24
  DEF Next, Pass, Control, Watchdog

(* A new era closes the gate or makes its sources old; opening it again starts a generation. *)
LEMMA FreshStep == GateTypeOK /\ StagesAgree /\ RequestsAreOld /\ ReadsAreFresh /\ [Next]_vars => ReadsAreFresh'
<1> SUFFICES ASSUME GateTypeOK /\ StagesAgree /\ RequestsAreOld /\ ReadsAreFresh, [Next]_vars
             PROVE  ReadsAreFresh'
  OBVIOUS
<1> USE DEF GateTypeOK, Observation, StagesAgree, RequestsAreOld, ReadsAreFresh, Fresh, Accepts, shared, gate, model, main, watchdog
<1>1. CASE MediaChange
  BY <1>1 DEF MediaChange
<1>2. CASE Follows("workers", "control")
  BY <1>2, UpdateMoves, HeadsTyped DEF Follows
<1>3. CASE Follows("observe", "receive")
  BY <1>3, UpdateMoves, HeadsTyped DEF Follows
<1>4. CASE Follows("periodic", "due")
  BY <1>4, UpdateMoves, HeadsTyped DEF Follows
<1>5. CASE NoControl
  BY <1>5 DEF NoControl
<1>6. CASE Receive
  BY <1>6 DEF Receive
<1>7. CASE NothingReceived
  BY <1>7 DEF NothingReceived
<1>8. CASE NotDue
  BY <1>8 DEF NotDue
<1>9. ASSUME NEW b \in BOOLEAN, Woke(b)
      PROVE  ReadsAreFresh'
  BY <1>9 DEF Woke
<1>10. ASSUME NEW b \in BOOLEAN, Due(b)
      PROVE  ReadsAreFresh'
  BY <1>10 DEF Due, RefreshPending
<1>11. CASE Quiesce
  BY <1>11 DEF Quiesce
<1>12. CASE Quiesced
  BY <1>12 DEF Quiesced
<1>13. CASE SleepGivenUp
  <2>1. Update(sources, FALSE) /\ sources \in Nat /\ FALSE \in BOOLEAN
    BY <1>13 DEF SleepGivenUp
  <2>2. /\ ~prepared' /\ gateSources' = sources
        /\ generation' \in Nat /\ generation' >= generation
        /\ prepared \/ gateSources # sources => generation' > generation
    BY <2>1, UpdateMoves
  <2>3. QED
    BY <1>13, <2>2, HeadsTyped DEF SleepGivenUp
<1>14. CASE SleepReady
  BY <1>14 DEF SleepReady
<1>15. CASE RestoreSleep
  <2>1. Update(sources, FALSE) /\ sources \in Nat /\ FALSE \in BOOLEAN
    BY <1>15 DEF RestoreSleep
  <2>2. /\ ~prepared' /\ gateSources' = sources
        /\ generation' \in Nat /\ generation' >= generation
        /\ prepared \/ gateSources # sources => generation' > generation
    BY <2>1, UpdateMoves
  <2>3. QED
    BY <1>15, <2>2, HeadsTyped DEF RestoreSleep
<1>16. CASE TakeRequest
  BY <1>16 DEF TakeRequest, Watch
<1>17. CASE Check
  BY <1>17 DEF Check, Watch
<1>18. CASE Enter
  BY <1>18 DEF Enter, Watch
<1>19. CASE BeginRead
  BY <1>19 DEF BeginRead, Watch, MayRead
<1>20. CASE Read
  BY <1>20 DEF Read, Watch
<1>21. CASE Final
  BY <1>21 DEF Final, Watch
<1>22. CASE Leave
  BY <1>22 DEF Leave, Watch
<1>23. CASE Publish
  BY <1>23 DEF Publish, Watch, Post
<1>24. CASE UNCHANGED vars
  BY <1>24 DEF vars
<1>25. QED
  BY <1>1, <1>2, <1>3, <1>4, <1>5, <1>6, <1>7, <1>8, <1>9, <1>10, <1>11, <1>12, <1>13, <1>14, <1>15, <1>16, <1>17, <1>18, <1>19, <1>20, <1>21, <1>22, <1>23, <1>24
  DEF Next, Pass, Control, Watchdog

-----------------------------------------------------------------------------
(* The strengthening holds at first and in every step. *)
LEMMA Inductive == Spec => []IInv
<1>1. Init => IInv
  <2> SUFFICES ASSUME Init
               PROVE  IInv
    OBVIOUS
  <2>1. GateTypeOK
    <3>1. requests \in Seq(Nat) /\ Len(requests) <= 1
      BY DEF Init
    <3>2. observations \in Seq(Observation) /\ Len(observations) <= 1
      BY DEF Init
    <3>3. /\ active \in BOOLEAN /\ prepared \in BOOLEAN
          /\ asleep \in BOOLEAN /\ quiet \in BOOLEAN
      BY DEF Init
    <3>4. mpc \in MainStages /\ wpc \in WatchStages /\ generation \in Nat \ {0}
      BY DEF Init, MainStages, WatchStages
    <3>5. QED
      BY <3>1, <3>2, <3>3, <3>4 DEF Init, GateTypeOK
  <2>2. StagesAgree /\ RequestsAreOld /\ ActiveCoversRead /\ ReadsAreFresh
    BY DEF Init, StagesAgree, RequestsAreOld, ActiveCoversRead, ReadsAreFresh
  <2>3. QED
    BY <2>1, <2>2 DEF IInv
<1>2. IInv /\ [Next]_vars => IInv'
  BY TypeStep, StagesStep, RequestsStep, ActiveStep, FreshStep DEF IInv
<1>3. QED
  BY <1>1, <1>2, PTL DEF Spec

(* Types hold in every behaviour of the two threads. *)
THEOREM GateTypes == Spec => []GateTypeOK
<1>1. IInv => GateTypeOK
  BY DEF IInv
<1>2. QED
  BY <1>1, Inductive, PTL

(* From the acknowledgement of sleep until it is over no read begins, and    *)
(* none is in flight when it is given (Gate::quiesce, Authority::run), for   *)
(* any number of requests, sleeps and changes of the sources.                *)
THEOREM SleepIsSilent == Spec => []QuiesceIsSilent
<1>1. IInv /\ [Next]_vars /\ QuiesceIsSilent => QuiesceIsSilent'
  <2> SUFFICES ASSUME IInv, [Next]_vars, QuiesceIsSilent
               PROVE  QuiesceIsSilent'
    OBVIOUS
  <2> USE DEF IInv, QuiesceIsSilent
  <2>1. CASE BeginRead
    <3>1. quiet => request < generation /\ request \in Nat /\ generation \in Nat
      BY DEF StagesAgree, RequestsAreOld, GateTypeOK
    <3>2. QED
      BY <2>1, <3>1 DEF BeginRead, MayRead, Watch, model
  <2>2. CASE Quiesced
    BY <2>2 DEF Quiesced, ActiveCoversRead, watchdog
  <2>3. CASE MediaChange \/ Pass \/ (Control /\ ~Quiesced) \/ (Watchdog /\ ~BeginRead)
    BY <2>3 DEF MediaChange, Pass, Follows, NoControl, Receive, NothingReceived, NotDue, Woke, Due,
                Control, Quiesce, SleepGivenUp, SleepReady, RestoreSleep, Watchdog, Watch,
                TakeRequest, Check, Enter, Read, Final, Leave, Publish, model, watchdog
  <2>4. CASE UNCHANGED vars
    BY <2>4 DEF vars, model, watchdog
  <2>5. QED
    BY <2>1, <2>2, <2>3, <2>4 DEF Next
<1>2. Init => QuiesceIsSilent
  BY DEF Init, QuiesceIsSilent
<1>3. QED
  BY <1>1, <1>2, Inductive, PTL DEF Spec

(* The main loop never takes for current what was read before the last sleep *)
(* or the last change of the sources (Gate::accepts).                        *)
THEOREM AnswersAreFresh == Spec => []AcceptedIsFresh
<1>1. IInv => AcceptedIsFresh
  BY DEF IInv, StagesAgree, ReadsAreFresh, Fresh, AcceptedIsFresh
<1>2. QED
  BY <1>1, Inductive, PTL
=============================================================================
