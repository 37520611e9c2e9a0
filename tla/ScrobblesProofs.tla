--------------------------- MODULE ScrobblesProofs ---------------------------
(***************************************************************************)
(* Proofs about plays on their way to Last.fm (Scrobbles), for any cap,    *)
(* batch and number of plays, accounts, sign-ins and crashes.  Each play's *)
(* id is in one place of the file and of those that wait for a date; a     *)
(* batch is the front of the file or nothing of it; what of it was         *)
(* answered is settled.  And the file, while no forgetting was cut, is of  *)
(* one account, the sender's as long as what it sends is in it.            *)
(***************************************************************************)
EXTENDS Scrobbles, TLAPS

-----------------------------------------------------------------------------
Senders ==
  [pc : {"idle", "load", "send", "each", "drop", "expire"}, account : Accounts \cup {NoAccount},
   batch : Seq(Play), at : Nat, then : {"more", "error", "invalid"}]
Places ==
  /\ file \in Seq(Play) /\ Len(file) <= QueueMax /\ undated \in Seq(Play) /\ sender \in Senders
  /\ waiting \in Nat /\ plays \in Nat /\ signIns \in Nat /\ crashes \in Nat
  /\ accepted \subseteq [play : Play, account : Accounts] /\ gone \subseteq Nat
Names ==
  /\ owner \in Accounts \cup {NoAccount}
  /\ session \in Accounts \cup {NoAccount} /\ login \in Accounts \cup {NoAccount}
  /\ mainPc \in {"run", "date", "save", "forget"} /\ flushed \in {"none", "sent", "error", "invalid"}
Flags ==
  /\ torn \in BOOLEAN /\ key \in BOOLEAN /\ flushing \in BOOLEAN /\ failed \in BOOLEAN /\ due \in BOOLEAN
  /\ clock \in BOOLEAN /\ doubled \in BOOLEAN /\ doubt \in BOOLEAN /\ cut \in BOOLEAN

Loading == sender.pc = "load"
Sending == sender.pc \in {"send", "each", "drop", "expire"}
SenderStages ==
  /\ sender.pc # "idle" => flushing /\ flushed = "none" /\ sender.account \in Accounts
  /\ flushed # "none" => flushing
  /\ sender.pc = "each" => sender.at \in 1..(Len(sender.batch) + 1)
  /\ Sending /\ sender.then = "more" => sender.batch # <<>>
  /\ sender.pc \in {"load", "send", "each", "expire"} => sender.then = "more"
Counted == ~cut /\ file # <<>> => waiting > 0
ScrobbleTyped == Places /\ Names /\ Flags /\ SenderStages /\ Counted

Distinct(s) == \A i, j \in DOMAIN s : s[i].id = s[j].id => i = j
TakenIds == {r.play.id : r \in accepted}
IdsAreOwn ==
  /\ Distinct(file) /\ Distinct(undated) /\ Distinct(sender.batch)
  /\ PlayIds(file) \cup PlayIds(undated) \cup PlayIds(sender.batch) \cup TakenIds \subseteq 1..plays
  /\ PlayIds(undated) \cap (PlayIds(file) \cup PlayIds(sender.batch) \cup TakenIds) = {}
KeptIds == PlayIds(file) \cup PlayIds(undated) \cup gone \cup TakenIds
AllKept == 1..plays \subseteq KeptIds

(* How much of the batch was answered. *)
Done == IF sender.pc = "drop" THEN Len(sender.batch) ELSE IF sender.pc = "each" THEN sender.at - 1 ELSE 0
DoneIsSettled == Sending => \A i \in 1..Done : sender.batch[i].id \in gone \cup TakenIds
InStep == IsFront(sender.batch) \/ PlayIds(sender.batch) \cap PlayIds(file) = {}
SentFresh ==
  ~doubt =>
    /\ ~doubled
    /\ Sending => InStep /\ \A i \in DOMAIN sender.batch : i > Done => sender.batch[i].id \notin TakenIds
    /\ \A i \in DOMAIN file : file[i].id \in TakenIds =>
         Sending /\ \E j \in 1..Done : sender.batch[j].id = file[i].id
IdsInv == IdsAreOwn /\ AllKept /\ DoneIsSettled /\ SentFresh

OwnedBy(s, a) == \A i \in DOMAIN s : s[i].owner \in {a, NoAccount}
FileAccount == IF mainPc = "forget" THEN session ELSE owner
Serving == IF Loading THEN file # <<>> ELSE Sending /\ PlayIds(sender.batch) \cap PlayIds(file) # {}
AccountsInv ==
  /\ mainPc # "forget" => session \in {NoAccount, owner}
  /\ mainPc = "forget" => session # NoAccount
  /\ mainPc = "save" => login # NoAccount
  /\ login # NoAccount => session = NoAccount /\ OwnedBy(undated, NoAccount)
  /\ session # NoAccount => OwnedBy(undated, session)
  /\ clock /\ mainPc # "date" => undated = <<>>
OneOwner ==
  ~cut =>
    /\ OwnAccount
    /\ OwnedBy(file, FileAccount) /\ (mainPc = "save" => OwnedBy(file, login))
    /\ Serving => session = sender.account
    /\ Loading /\ (login # NoAccount \/ session \notin {NoAccount, sender.account}) => undated = <<>>
    /\ Sending => OwnedBy(sender.batch, sender.account)
OwnersInv == AccountsInv /\ OneOwner

ScrobbleInv == ScrobbleTyped /\ IdsInv /\ OwnersInv

-----------------------------------------------------------------------------
(* Sequences of plays. *)
(* One more, some of the middle, all but the first, two in a row. *)
LEMMA Appended ==
  ASSUME NEW s \in Seq(Play), NEW p \in Play
  PROVE  /\ Append(s, p) \in Seq(Play) /\ Len(Append(s, p)) = Len(s) + 1
         /\ PlayIds(Append(s, p)) = PlayIds(s) \cup {p.id}
         /\ \A i \in 1..Len(s) : Append(s, p)[i] = s[i]
         /\ Append(s, p)[Len(s) + 1] = p
<1>1. /\ Append(s, p) \in Seq(Play) /\ Len(Append(s, p)) = Len(s) + 1
      /\ \A i \in 1..Len(s) : Append(s, p)[i] = s[i]
      /\ Append(s, p)[Len(s) + 1] = p
  OBVIOUS
<1>2. /\ DOMAIN s = 1..Len(s) /\ DOMAIN Append(s, p) = 1..(Len(s) + 1) /\ Len(s) \in Nat
  OBVIOUS
<1>3. QED
  BY <1>1, <1>2 DEF PlayIds

LEMMA Sliced ==
  ASSUME NEW s \in Seq(Play), NEW m \in 1..(Len(s) + 1), NEW n \in 0..Len(s), m <= n + 1
  PROVE  /\ SubSeq(s, m, n) \in Seq(Play) /\ Len(SubSeq(s, m, n)) = n - m + 1
         /\ \A i \in 1..(n - m + 1) : SubSeq(s, m, n)[i] = s[m + i - 1]
         /\ DOMAIN SubSeq(s, m, n) = 1..(n - m + 1)
  OBVIOUS

LEMMA TailOf ==
  ASSUME NEW s \in Seq(Play), s # <<>>
  PROVE  /\ Tail(s) \in Seq(Play) /\ Len(Tail(s)) = Len(s) - 1 /\ Len(s) \in Nat \ {0} /\ Head(s) = s[1]
         /\ \A i \in 1..(Len(s) - 1) : Tail(s)[i] = s[i + 1]
         /\ PlayIds(s) = PlayIds(Tail(s)) \cup {Head(s).id}
<1>1. /\ Tail(s) \in Seq(Play) /\ Len(Tail(s)) = Len(s) - 1 /\ Len(s) \in Nat \ {0}
      /\ \A i \in 1..(Len(s) - 1) : Tail(s)[i] = s[i + 1]
      /\ DOMAIN s = 1..Len(s) /\ DOMAIN Tail(s) = 1..(Len(s) - 1) /\ Head(s) = s[1]
  OBVIOUS
<1>2. \A i \in DOMAIN s : i = 1 \/ (i - 1 \in DOMAIN Tail(s) /\ Tail(s)[i - 1] = s[i])
  <2>1. SUFFICES ASSUME NEW i \in 1..Len(s), i # 1
                 PROVE  i - 1 \in 1..(Len(s) - 1) /\ Tail(s)[i - 1] = s[i]
    BY <1>1
  <2>2. i - 1 \in 1..(Len(s) - 1) /\ (i - 1) + 1 = i
    BY <1>1, <2>1
  <2>3. QED
    BY <1>1, <2>2
<1>3. \A i \in DOMAIN Tail(s) : i + 1 \in DOMAIN s /\ Tail(s)[i] = s[i + 1]
  BY <1>1
<1>4. PlayIds(s) \subseteq PlayIds(Tail(s)) \cup {Head(s).id}
  <2> DEFINE t == Tail(s)
  <2>1. \A i \in DOMAIN s : i = 1 \/ (i - 1 \in DOMAIN t /\ t[i - 1] = s[i])
    BY <1>2
  <2>2. Head(s) = s[1]
    BY <1>1
  <2> HIDE DEF t
  <2>3. PlayIds(s) \subseteq PlayIds(t) \cup {Head(s).id}
    BY <2>1, <2>2 DEF PlayIds
  <2>4. QED
    BY <2>3 DEF t
<1>5. PlayIds(Tail(s)) \subseteq PlayIds(s)
  BY <1>3 DEF PlayIds
<1>6. 1 \in DOMAIN s /\ Head(s).id \in PlayIds(s)
  BY <1>1 DEF PlayIds
<1>7. QED
  BY <1>1, <1>4, <1>5, <1>6

LEMMA Joined ==
  ASSUME NEW s \in Seq(Play), NEW t \in Seq(Play)
  PROVE  PlayIds(s \o t) = PlayIds(s) \cup PlayIds(t)
<1>1. /\ DOMAIN s = 1..Len(s) /\ DOMAIN t = 1..Len(t) /\ DOMAIN (s \o t) = 1..(Len(s) + Len(t))
      /\ Len(s) \in Nat /\ Len(t) \in Nat
      /\ \A i \in 1..Len(s) : (s \o t)[i] = s[i]
      /\ \A i \in 1..Len(t) : (s \o t)[Len(s) + i] = t[i]
  OBVIOUS
<1>2. \A i \in DOMAIN (s \o t) : i \in DOMAIN s \/ i - Len(s) \in DOMAIN t
  BY <1>1
<1>3. \A i \in DOMAIN t : Len(s) + i \in DOMAIN (s \o t)
  BY <1>1
<1>4. QED
  BY <1>1, <1>2, <1>3 DEF PlayIds

(* A sequence cut in two. *)
LEMMA Parted ==
  ASSUME NEW s \in Seq(Play), NEW n \in 0..Len(s)
  PROVE  LET pre == SubSeq(s, 1, n)
             rest == SubSeq(s, n + 1, Len(s))
         IN /\ pre \in Seq(Play) /\ rest \in Seq(Play) /\ Len(pre) = n /\ Len(rest) = Len(s) - n
            /\ \A i \in 1..n : pre[i] = s[i]
            /\ \A i \in 1..(Len(s) - n) : rest[i] = s[n + i]
            /\ PlayIds(s) = PlayIds(pre) \cup PlayIds(rest)
            /\ Distinct(s) => Distinct(pre) /\ Distinct(rest) /\ PlayIds(pre) \cap PlayIds(rest) = {}
            /\ \A a : OwnedBy(s, a) => OwnedBy(pre, a) /\ OwnedBy(rest, a)
<1> DEFINE pre == SubSeq(s, 1, n)
           rest == SubSeq(s, n + 1, Len(s))
<1>0. n \in Nat /\ Len(s) \in Nat /\ n <= Len(s)
  OBVIOUS
<1>1. /\ pre \in Seq(Play) /\ Len(pre) = n /\ DOMAIN pre = 1..n /\ \A i \in 1..n : pre[i] = s[i]
  BY <1>0
<1>2. /\ rest \in Seq(Play) /\ Len(rest) = Len(s) - n /\ DOMAIN rest = 1..(Len(s) - n)
      /\ \A i \in 1..(Len(s) - n) : rest[i] = s[n + i]
  BY <1>0
<1>3. DOMAIN s = 1..Len(s)
  OBVIOUS
<1> HIDE DEF pre, rest
<1>4. \A i \in DOMAIN s : (i \in DOMAIN pre /\ pre[i] = s[i]) \/ (i - n \in DOMAIN rest /\ rest[i - n] = s[i])
  <2>1. SUFFICES ASSUME NEW i \in 1..Len(s), ~(i \in 1..n)
                 PROVE  i - n \in 1..(Len(s) - n) /\ rest[i - n] = s[i]
    BY <1>1, <1>2, <1>3
  <2>2. i - n \in 1..(Len(s) - n) /\ n + (i - n) = i
    BY <1>0, <2>1
  <2>3. QED
    BY <1>2, <2>2
<1>5. \A i \in DOMAIN pre : i \in DOMAIN s /\ pre[i] = s[i]
  BY <1>0, <1>1, <1>3
<1>6. \A i \in DOMAIN rest : n + i \in DOMAIN s /\ rest[i] = s[n + i] /\ i \in Nat
  BY <1>0, <1>2, <1>3
<1>7. PlayIds(s) = PlayIds(pre) \cup PlayIds(rest)
  <2>1. PlayIds(s) \subseteq PlayIds(pre) \cup PlayIds(rest)
    BY <1>4 DEF PlayIds
  <2>2. PlayIds(pre) \subseteq PlayIds(s) /\ PlayIds(rest) \subseteq PlayIds(s)
    BY <1>5, <1>6 DEF PlayIds
  <2>3. QED
    BY <2>1, <2>2
<1>8. ASSUME Distinct(s)
      PROVE  Distinct(pre) /\ Distinct(rest) /\ PlayIds(pre) \cap PlayIds(rest) = {}
  <2>1. Distinct(pre)
    BY <1>5, <1>8 DEF Distinct
  <2>2. Distinct(rest)
    <3>1. SUFFICES ASSUME NEW i \in DOMAIN rest, NEW j \in DOMAIN rest, rest[i].id = rest[j].id
                   PROVE  i = j
      BY DEF Distinct
    <3>2. n + i = n + j
      BY <1>6, <1>8, <3>1 DEF Distinct
    <3>3. QED
      BY <1>0, <1>6, <3>1, <3>2
  <2>3. ASSUME NEW i \in DOMAIN pre, NEW j \in DOMAIN rest, pre[i].id = rest[j].id
        PROVE  FALSE
    <3>1. i = n + j
      BY <1>5, <1>6, <1>8, <2>3 DEF Distinct
    <3>2. QED
      BY <1>0, <1>1, <1>2, <2>3, <3>1
  <2>4. QED
    BY <2>1, <2>2, <2>3 DEF PlayIds
<1>9. \A a : OwnedBy(s, a) => OwnedBy(pre, a) /\ OwnedBy(rest, a)
  BY <1>5, <1>6 DEF OwnedBy
<1>10. QED
  BY <1>1, <1>2, <1>7, <1>8, <1>9 DEF pre, rest

(* keep_scrobble: the play is last, perhaps for the oldest, or lost. *)
KeptLast(p) == file' = Append(file, p) /\ gone' = gone /\ doubt' = doubt
KeptForOldest(p) ==
  /\ file # <<>> /\ file' = Append(Tail(file), p) /\ gone' = gone \cup {Head(file).id}
  /\ doubt' = (doubt \/ sender.pc # "idle")
LostInWrite(p) == file' = file /\ gone' = gone \cup {p.id} /\ doubt' = doubt
LEMMA Kept ==
  ASSUME ScrobbleAssumption, ScrobbleTyped, NEW p \in Play, KeepPlay(p)
  PROVE  /\ KeptLast(p) \/ KeptForOldest(p) \/ LostInWrite(p)
         /\ file' \in Seq(Play) /\ Len(file') <= QueueMax /\ gone' \subseteq Nat
         /\ waiting' \in Nat /\ (waiting' > 0 \/ (file' = file /\ waiting' = waiting))
         /\ torn' \in BOOLEAN /\ doubt' \in BOOLEAN /\ due' \in BOOLEAN
<1>1. file \in Seq(Play) /\ Len(file) <= QueueMax /\ gone \subseteq Nat /\ waiting \in Nat /\ p.id \in Nat
  BY DEF ScrobbleTyped, Places, Play
<1>2. torn \in BOOLEAN /\ doubt \in BOOLEAN /\ due \in BOOLEAN
  BY DEF ScrobbleTyped, Flags
<1>3. QueueMax \in Nat \ {0}
  BY DEF ScrobbleAssumption
<1>4. CASE WritesFail /\ torn' \in {torn, Len(file) < QueueMax} /\ gone' = gone \cup {p.id}
           /\ UNCHANGED <<file, doubt, waiting, due>>
  <2>1. ASSUME torn' = torn PROVE torn' \in BOOLEAN
    BY <1>2, <2>1
  <2>2. ASSUME torn' = (Len(file) < QueueMax) PROVE torn' \in BOOLEAN
    BY <2>2
  <2>3. torn' \in BOOLEAN
    BY <1>4, <2>1, <2>2
  <2>4. doubt' \in BOOLEAN /\ due' \in BOOLEAN
    BY <1>2, <1>4
  <2>5. UNCHANGED <<file, doubt, waiting>> /\ gone' = gone \cup {p.id}
    BY <1>4
  <2>6. QED
    BY <1>1, <2>3, <2>4, <2>5 DEF LostInWrite
<1>5. CASE /\ file' = Push(p) /\ torn' = FALSE
           /\ gone' = IF Len(file) >= QueueMax THEN gone \cup {Head(file).id} ELSE gone
           /\ doubt' = (doubt \/ (Len(file) >= QueueMax /\ sender.pc # "idle"))
           /\ waiting' = waiting + 1 /\ due' = (due \/ ~failed)
  <2>1. torn' \in BOOLEAN /\ doubt' \in BOOLEAN /\ due' \in BOOLEAN
    BY <1>5
  <2>2. waiting' \in Nat /\ waiting' > 0
    BY <1>1, <1>5
  <2>3. CASE Len(file) >= QueueMax
    <3>1. file # <<>> /\ Head(file).id \in Nat
        <4>1. file # <<>>
        BY <1>1, <1>3, <2>3
      <4>2. Head(file) \in Play
        BY <1>1, <4>1
      <4>3. QED
        BY <4>1, <4>2 DEF Play
    <3>2. Tail(file) \in Seq(Play) /\ Len(Tail(file)) = Len(file) - 1 /\ Len(file) \in Nat
      BY <1>1, <3>1, TailOf
    <3>3. file' = Append(Tail(file), p)
      BY <1>5, <2>3 DEF Push
    <3>4. file' \in Seq(Play) /\ Len(file') <= QueueMax
      BY <1>1, <1>3, <3>2, <3>3, Appended
    <3>5. KeptForOldest(p)
      BY <1>5, <2>3, <3>1, <3>3 DEF KeptForOldest
    <3>6. gone' \subseteq Nat
      BY <1>1, <1>5, <3>1
    <3>7. QED
      BY <2>1, <2>2, <3>4, <3>5, <3>6
  <2>4. CASE ~(Len(file) >= QueueMax)
    <3>1. file' = Append(file, p) /\ Len(file) \in Nat /\ Len(file) + 1 <= QueueMax
      BY <1>1, <1>3, <1>5, <2>4 DEF Push
    <3>2. file' \in Seq(Play) /\ Len(file') <= QueueMax
      BY <1>1, <1>3, <3>1, Appended
    <3>3. doubt' = doubt /\ gone' = gone
      BY <1>2, <1>5, <2>4
    <3>4. QED
      BY <1>1, <2>1, <2>2, <3>1, <3>2, <3>3 DEF KeptLast
  <2>5. QED
    BY <2>3, <2>4
<1>6. QED
  BY <1>4, <1>5 DEF KeepPlay

LEMMA IdleIs == Idle \in Senders /\ Idle.pc = "idle" /\ Idle.batch = <<>> /\ Idle.then = "more"
BY DEF Idle, Senders

-----------------------------------------------------------------------------
(* The main thread's steps that leave the file, the plays and the sender.     *)
Calls ==
  ClockSet \/ ClockLost \/ BackoffOver \/ SendNow \/ Login \/ SessionSaved \/ SignInFails \/ Disconnect
PlaysStay == UNCHANGED <<file, undated, sender, plays, accepted, doubled, gone, doubt>>
LEMMA CallsLeave == ASSUME Calls PROVE PlaysStay /\ UNCHANGED <<waiting, flushed, flushing, cut>>
BY DEF Calls, PlaysStay, onDisk, memory, dates, counts, history,
       ClockSet, ClockLost, BackoffOver, SendNow, Login, SessionSaved, SignInFails, Disconnect
LEMMA CallsTyped ==
  ASSUME ScrobbleAssumption, ScrobbleTyped, Calls
  PROVE  ScrobbleTyped'
<1>0. PlaysStay /\ UNCHANGED <<waiting, flushed, flushing, cut>>
  BY CallsLeave
<1>r. signIns' \in Nat /\ crashes' \in Nat
  BY DEF Calls, ScrobbleTyped, Places, memory, dates, counts, history,
         ClockSet, ClockLost, BackoffOver, SendNow, Login, SessionSaved, SignInFails, Disconnect
<1>1. Places'
  BY <1>0, <1>r DEF ScrobbleTyped, Places, PlaysStay
<1>2. Names'
  BY DEF Calls, ScrobbleTyped, Names, onDisk, memory, dates, counts, history,
         ClockSet, ClockLost, BackoffOver, SendNow, Login, SessionSaved, SignInFails, Disconnect
<1>3. Flags'
  BY DEF Calls, ScrobbleTyped, Flags, onDisk, memory, dates, counts, history,
         ClockSet, ClockLost, BackoffOver, SendNow, Login, SessionSaved, SignInFails, Disconnect
<1>4. QED
  BY <1>0, <1>1, <1>2, <1>3 DEF ScrobbleTyped, SenderStages, Sending, Counted, PlaysStay

LEMMA CountTyped == ASSUME ScrobbleAssumption, ScrobbleTyped, Count PROVE ScrobbleTyped'
<1> DEFINE p == [id |-> plays + 1, owner |-> session]
<1>1. plays \in Nat /\ session \in Accounts \cup {NoAccount}
  BY DEF ScrobbleTyped, Places, Names
<1>2. p \in Play
  BY <1>1 DEF Play
<1>3. plays' = plays + 1 /\ UNCHANGED <<owner, key, session, flushing, failed, login, mainPc, sender, flushed, signIns,
                                        clock, crashes, accepted, doubled, cut>>
  BY DEF Count
<1> HIDE DEF p
<1>4. CASE undated' = Append(undated, p) /\ UNCHANGED <<file, torn, gone, doubt, waiting, due>>
  <2>1. undated' \in Seq(Play)
    BY <1>2, <1>4, Appended DEF ScrobbleTyped, Places
  <2>2. Places'
    BY <1>3, <1>4, <2>1 DEF ScrobbleTyped, Places
  <2>3. Names' /\ Flags'
    BY <1>3, <1>4 DEF ScrobbleTyped, Names, Flags
  <2>4. QED
    BY <1>3, <1>4, <2>2, <2>3 DEF ScrobbleTyped, SenderStages, Sending, Counted
<1>5. CASE KeepPlay(p) /\ UNCHANGED undated
  <2>1. /\ file' \in Seq(Play) /\ Len(file') <= QueueMax /\ gone' \subseteq Nat
        /\ waiting' \in Nat /\ (waiting' > 0 \/ (file' = file /\ waiting' = waiting))
        /\ torn' \in BOOLEAN /\ doubt' \in BOOLEAN /\ due' \in BOOLEAN
    BY <1>2, <1>5, Kept
  <2>2. Places'
    BY <1>3, <1>5, <2>1 DEF ScrobbleTyped, Places
  <2>3. Names'
    BY <1>3 DEF ScrobbleTyped, Names
  <2>4. Flags'
    BY <1>3, <2>1 DEF ScrobbleTyped, Flags
  <2>5. Counted'
    BY <1>3, <2>1 DEF ScrobbleTyped, Counted
  <2>6. QED
    BY <1>3, <2>2, <2>3, <2>4, <2>5 DEF ScrobbleTyped, SenderStages, Sending
<1>6. QED
  BY <1>4, <1>5 DEF Count, p

LEMMA DateTyped == ASSUME ScrobbleAssumption, ScrobbleTyped, Date PROVE ScrobbleTyped'
<1>1. mainPc' \in {"run", "date"} /\ UNCHANGED <<owner, key, session, flushing, failed, login, clock, sender, flushed, plays,
                                              signIns, crashes, accepted, doubled, cut>>
  BY DEF Date, counts
<1>2. CASE undated = <<>>
  <2>1. UNCHANGED <<undated, file, torn, gone, doubt, waiting, due>>
    BY <1>2 DEF Date
  <2>2. Places' /\ Names' /\ Flags'
    BY <1>1, <2>1 DEF ScrobbleTyped, Places, Names, Flags
  <2>3. QED
    BY <1>1, <2>1, <2>2 DEF ScrobbleTyped, SenderStages, Sending, Counted
<1>3. CASE undated # <<>>
  <2>1. PICK p \in Play : p = Head(undated)
    BY <1>3 DEF ScrobbleTyped, Places
  <2>2. undated' = Tail(undated) /\ undated' \in Seq(Play)
    BY <1>3, TailOf DEF Date, ScrobbleTyped, Places
  <2>3. CASE KeepPlay(p)
    <3>1. /\ file' \in Seq(Play) /\ Len(file') <= QueueMax /\ gone' \subseteq Nat
          /\ waiting' \in Nat /\ (waiting' > 0 \/ (file' = file /\ waiting' = waiting))
          /\ torn' \in BOOLEAN /\ doubt' \in BOOLEAN /\ due' \in BOOLEAN
      BY <2>3, Kept
    <3>2. Places'
      BY <1>1, <2>2, <3>1 DEF ScrobbleTyped, Places
    <3>3. Names'
      BY <1>1 DEF ScrobbleTyped, Names
    <3>4. Flags'
      BY <1>1, <3>1 DEF ScrobbleTyped, Flags
    <3>5. Counted'
      BY <1>1, <3>1 DEF ScrobbleTyped, Counted
    <3>6. QED
      BY <1>1, <3>2, <3>3, <3>4, <3>5 DEF ScrobbleTyped, SenderStages, Sending
  <2>4. CASE gone' = gone \cup {p.id} /\ UNCHANGED <<file, torn, doubt, waiting, due>>
    <3>1. gone' \subseteq Nat
      BY <2>4 DEF ScrobbleTyped, Places, Play
    <3>2. Places'
      BY <1>1, <2>2, <2>4, <3>1 DEF ScrobbleTyped, Places
    <3>3. Names' /\ Flags'
      BY <1>1, <2>4 DEF ScrobbleTyped, Names, Flags
    <3>4. QED
      BY <1>1, <2>4, <3>2, <3>3 DEF ScrobbleTyped, SenderStages, Sending, Counted
  <2>5. QED
    BY <1>3, <2>1, <2>3, <2>4 DEF Date
<1>4. QED
  BY <1>2, <1>3

(* What is followed and what is dropped when the account goes. *)
LEMMA Following ==
  ASSUME NEW s
  PROVE  \/ Followed(s) = undated /\ Dropped(s) = <<>>
         \/ Followed(s) = <<>> /\ Dropped(s) = undated
BY DEF Followed, Dropped

LEMMA IdsAreNumbers ==
  ASSUME NEW s \in Seq(Play)
  PROVE  PlayIds(s) \subseteq Nat /\ PlayIds(<<>>) = {}
<1>1. \A i \in DOMAIN s : s[i] \in Play
  OBVIOUS
<1>2. PlayIds(s) \subseteq Nat
  BY <1>1 DEF PlayIds, Play
<1>3. QED
  BY <1>2 DEF PlayIds

(* The steps after which the file, and the plays without a date, are what they *)
(* were or empty; what they lose is gone.                                      *)
Shrinks ==
  /\ file' \in {file, <<>>} /\ undated' \in {undated, <<>>}
  /\ KeptIds \subseteq KeptIds' /\ gone' \subseteq Nat /\ gone \subseteq gone'
  /\ UNCHANGED <<plays, accepted, doubled>>
LEMMA SignedInShrinks ==
  ASSUME ScrobbleTyped, SignedIn
  PROVE  Shrinks /\ UNCHANGED <<undated, sender, flushed, flushing, doubt>>
<1>1. UNCHANGED <<undated, sender, flushed, flushing, doubt, plays, accepted, doubled>>
  BY DEF SignedIn, dates, counts
<1>2. \/ file' = file /\ gone' = gone
      \/ file' = <<>> /\ gone' = gone \cup PlayIds(file)
  BY DEF SignedIn
<1>3. PlayIds(file) \subseteq Nat /\ PlayIds(<<>>) = {} /\ gone \subseteq Nat
  BY IdsAreNumbers DEF ScrobbleTyped, Places
<1>4. QED
  BY <1>1, <1>2, <1>3 DEF Shrinks, KeptIds, TakenIds
LEMMA FlushedShrinks ==
  ASSUME ScrobbleTyped, Flushed
  PROVE  Shrinks /\ UNCHANGED <<file, sender, doubt, cut>>
<1>1. UNCHANGED <<file, sender, doubt, cut, plays, accepted, doubled>>
  BY DEF Flushed, counts
<1>2. PICK s : undated' = Followed(s) /\ gone' = gone \cup PlayIds(Dropped(s))
  BY DEF Flushed
<1>3. PlayIds(undated) \subseteq Nat /\ PlayIds(<<>>) = {} /\ gone \subseteq Nat
  BY IdsAreNumbers DEF ScrobbleTyped, Places
<1>4. QED
  BY <1>1, <1>2, <1>3, Following DEF Shrinks, KeptIds, TakenIds
LEMMA ForgottenShrinks ==
  ASSUME ScrobbleTyped, Forgotten
  PROVE  /\ Shrinks /\ UNCHANGED <<sender, flushed, flushing, doubt>>
         /\ file' = <<>> \/ (file' = file /\ file # <<>> /\ cut' = TRUE)
<1>1. UNCHANGED <<sender, flushed, flushing, doubt, plays, accepted, doubled>>
  BY DEF Forgotten, counts
<1>2. PICK d : d = Dropped(NoAccount)
  OBVIOUS
<1>3. \/ undated' = undated /\ d = <<>>
      \/ undated' = <<>> /\ d = undated
  BY <1>2, Following DEF Forgotten
<1>4. \/ file' = <<>> /\ gone' = gone \cup PlayIds(file \o d)
      \/ file' = file /\ file # <<>> /\ gone' = gone \cup PlayIds(d) /\ cut' = TRUE
  BY <1>2, Zenon DEF Forgotten
<1>5. d \in Seq(Play) /\ file \in Seq(Play) /\ gone \subseteq Nat
  <2>1. <<>> \in Seq(Play)
    OBVIOUS
  <2>2. undated \in Seq(Play) /\ file \in Seq(Play) /\ gone \subseteq Nat
    BY DEF ScrobbleTyped, Places
  <2>3. QED
    BY <1>3, <2>1, <2>2
<1>6. PlayIds(file \o d) = PlayIds(file) \cup PlayIds(d)
  BY <1>5, Joined
<1>7. PlayIds(file) \subseteq Nat /\ PlayIds(d) \subseteq Nat /\ PlayIds(<<>>) = {}
  BY <1>5, IdsAreNumbers
<1>8. KeptIds \subseteq KeptIds' /\ gone' \subseteq Nat /\ gone \subseteq gone'
  BY <1>1, <1>3, <1>4, <1>5, <1>6, <1>7 DEF KeptIds, TakenIds
<1>9. QED
  BY <1>1, <1>3, <1>4, <1>8 DEF Shrinks
LEMMA CrashShrinks ==
  ASSUME ScrobbleTyped, Crash
  PROVE  Shrinks /\ UNCHANGED file
<1>1. UNCHANGED <<file, plays, accepted, doubled>> /\ undated' = <<>> /\ gone' = gone \cup PlayIds(undated)
  BY DEF Crash
<1>2. PlayIds(undated) \subseteq Nat /\ PlayIds(<<>>) = {} /\ gone \subseteq Nat
  BY IdsAreNumbers DEF ScrobbleTyped, Places
<1>3. QED
  BY <1>1, <1>2 DEF Shrinks, KeptIds, TakenIds

LEMMA ShrunkTyped ==
  ASSUME ScrobbleAssumption, ScrobbleTyped, Shrinks, sender' = sender, waiting' \in Nat, signIns' = signIns, crashes' = crashes
  PROVE  Places'
<1>1. <<>> \in Seq(Play) /\ Len(<<>>) = 0
  OBVIOUS
<1>2. Len(file) \in Nat
  BY DEF ScrobbleTyped, Places
<1>3. file' \in Seq(Play) /\ undated' \in Seq(Play) /\ Len(file') <= Len(file)
  <2>1. file' \in {file, <<>>} /\ undated' \in {undated, <<>>} /\ file \in Seq(Play) /\ undated \in Seq(Play)
    BY DEF ScrobbleTyped, Places, Shrinks
  <2>2. ASSUME file' = file PROVE file' \in Seq(Play) /\ Len(file') <= Len(file)
    BY <1>2, <2>1, <2>2
  <2>3. ASSUME file' = <<>> PROVE file' \in Seq(Play) /\ Len(file') <= Len(file)
    BY <1>1, <1>2, <2>3
  <2>4. undated' \in Seq(Play)
    BY <1>1, <2>1
  <2>5. QED
    BY <2>1, <2>2, <2>3, <2>4
<1>4. Len(file') \in Nat /\ Len(file) <= QueueMax /\ QueueMax \in Nat
  BY <1>3 DEF ScrobbleTyped, Places, ScrobbleAssumption
<1>5. Len(file') <= QueueMax
  BY <1>2, <1>3, <1>4
<1>6. QED
  BY <1>3, <1>5 DEF ScrobbleTyped, Places, Shrinks
LEMMA SignedInTyped == ASSUME ScrobbleAssumption, ScrobbleTyped, SignedIn PROVE ScrobbleTyped'
<1>1. Shrinks /\ UNCHANGED <<undated, sender, flushed, flushing, doubt>>
  BY SignedInShrinks
<1>2. UNCHANGED <<owner, key, session, failed, due, login, clock, signIns, crashes, doubled>> /\ mainPc' = "save"
  BY DEF SignedIn, dates, counts
<1>3. waiting' \in {waiting, 0} /\ torn' \in {torn, FALSE} /\ cut' \in {cut, TRUE}
  <2>1. CASE OtherOwner
    <3>1. waiting' = 0
      BY <2>1 DEF SignedIn
    <3>2. \/ torn' = FALSE /\ cut' = cut
          \/ torn' = torn /\ cut' = TRUE
      BY <2>1 DEF SignedIn
    <3>3. QED
      BY <3>1, <3>2
  <2>2. CASE ~OtherOwner
    BY <2>2 DEF SignedIn
  <2>3. QED
    BY <2>1, <2>2
<1>4. Places'
  BY <1>1, <1>2, <1>3, ShrunkTyped DEF ScrobbleTyped, Places
<1>n. Names'
  BY <1>1, <1>2 DEF ScrobbleTyped, Names
<1>5. Names' /\ Flags'
  BY <1>1, <1>2, <1>3, <1>n DEF ScrobbleTyped, Flags
<1>6. Counted'
  <2>1. \/ waiting' = waiting /\ file' = file /\ cut' = cut
        \/ file' = <<>>
        \/ cut' = TRUE
    BY DEF SignedIn
  <2>2. QED
    BY <2>1 DEF ScrobbleTyped, Counted
<1>7. QED
  BY <1>1, <1>4, <1>5, <1>6 DEF ScrobbleTyped, SenderStages, Sending

LEMMA FlushedTyped == ASSUME ScrobbleAssumption, ScrobbleTyped, Flushed PROVE ScrobbleTyped'
<1>1. Shrinks /\ UNCHANGED <<file, sender, doubt, cut>>
  BY FlushedShrinks
<1>2. /\ UNCHANGED <<torn, owner, login, clock, mainPc, signIns, crashes, doubled>>
      /\ flushed # "none" /\ flushed' = "none" /\ flushing' = FALSE /\ waiting' = Len(file)
      /\ due' = (due /\ flushed # "error")
  BY DEF Flushed, counts, StillWaits
<1>3. failed' \in {failed, TRUE, FALSE} /\ key' \in {key, FALSE} /\ session' \in {session, NoAccount}
  BY DEF Flushed
<1>4. sender.pc = "idle"
  BY <1>2 DEF ScrobbleTyped, SenderStages
<1>5. Len(file) \in Nat /\ (file # <<>> => Len(file) > 0)
  BY DEF ScrobbleTyped, Places
<1>6. Places'
  BY <1>1, <1>2, <1>5, ShrunkTyped
<1>7. Names'
  BY <1>2, <1>3 DEF ScrobbleTyped, Names
<1>8. Flags'
  BY <1>1, <1>2, <1>3 DEF ScrobbleTyped, Flags
<1>9. Counted'
  BY <1>1, <1>2, <1>5 DEF Counted
<1>10. QED
  BY <1>1, <1>2, <1>4, <1>6, <1>7, <1>8, <1>9 DEF ScrobbleTyped, SenderStages, Sending

LEMMA ForgottenTyped == ASSUME ScrobbleAssumption, ScrobbleTyped, Forgotten PROVE ScrobbleTyped'
<1>1. /\ Shrinks /\ UNCHANGED <<sender, flushed, flushing, doubt>>
      /\ file' = <<>> \/ (file' = file /\ file # <<>> /\ cut' = TRUE)
  BY ForgottenShrinks
<1>2. /\ UNCHANGED <<owner, key, clock, due, login, signIns, crashes, doubled>> /\ mainPc' = "run"
      /\ session' = NoAccount /\ waiting' = 0 /\ failed' = FALSE
  BY DEF Forgotten, counts
<1>3. torn' \in {torn, FALSE} /\ cut' \in {cut, TRUE}
  BY DEF Forgotten
<1>4. Places'
  BY <1>1, <1>2, ShrunkTyped
<1>5. Names'
  BY <1>1, <1>2 DEF ScrobbleTyped, Names
<1>6. Flags'
  BY <1>1, <1>2, <1>3 DEF ScrobbleTyped, Flags
<1>7. Counted'
  BY <1>1 DEF Counted
<1>8. QED
  BY <1>1, <1>4, <1>5, <1>6, <1>7 DEF ScrobbleTyped, SenderStages, Sending

LEMMA CrashTyped == ASSUME ScrobbleAssumption, ScrobbleTyped, Crash PROVE ScrobbleTyped'
<1>1. Shrinks /\ UNCHANGED file
  BY CrashShrinks
<1>2. /\ UNCHANGED <<owner, key, signIns, doubled>> /\ mainPc' = "run" /\ crashes' = crashes + 1
      /\ sender' = Idle /\ flushed' = "none" /\ flushing' = FALSE /\ failed' = FALSE /\ due' = TRUE
      /\ login' = NoAccount /\ waiting' = Len(file) /\ session' \in {owner, NoAccount} /\ undated' = <<>>
      /\ clock' \in {clock, FALSE} /\ accepted' = accepted /\ plays' = plays
  BY DEF Crash
<1>3. torn' \in {torn, (mainPc = "run" \/ mainPc = "date")} /\ cut' = (cut \/ (mainPc = "forget" /\ file # <<>>))
      /\ doubt' = (doubt \/ sender.pc \in {"each", "drop"})
  BY DEF Crash
<1>4. torn' \in BOOLEAN /\ cut' \in BOOLEAN /\ doubt' \in BOOLEAN
  BY <1>3 DEF ScrobbleTyped, Flags
<1>5. Len(file) \in Nat /\ (file # <<>> => Len(file) > 0) /\ <<>> \in Seq(Play)
  BY DEF ScrobbleTyped, Places
<1>6. Places'
  BY <1>1, <1>2, <1>5, IdleIs DEF ScrobbleTyped, Places, Shrinks
<1>7. Names'
  BY <1>2 DEF ScrobbleTyped, Names
<1>8. Flags'
  BY <1>2, <1>4 DEF ScrobbleTyped, Flags
<1>9. Counted'
  BY <1>1, <1>2, <1>5 DEF Counted
<1>10. SenderStages'
  BY <1>2, IdleIs DEF ScrobbleTyped, SenderStages, Sending
<1>11. QED
  BY <1>6, <1>7, <1>8, <1>9, <1>10 DEF ScrobbleTyped

-----------------------------------------------------------------------------
(* What each step of the sender does to its record and to what was taken. *)
ListenerStays == UNCHANGED <<owner, key, session, login, undated, clock, mainPc, plays, cut>>
LEMMA SenderKeepsThem ==
  ASSUME SenderKeeps
  PROVE  ListenerStays /\ UNCHANGED <<waiting, flushing, failed, due, signIns, crashes>>
BY DEF SenderKeeps, ListenerStays, memory, dates, counts

LEMMA SenderFields ==
  ASSUME NEW s \in Senders
  PROVE  /\ s.pc \in {"idle", "load", "send", "each", "drop", "expire"} /\ s.account \in Accounts \cup {NoAccount}
         /\ s.batch \in Seq(Play) /\ s.at \in Nat /\ s.then \in {"more", "error", "invalid"}
BY DEF Senders

Rests == sender' = Idle /\ flushed' \in {"sent", "error", "invalid"}
(* The sender goes on, as the same account's. *)
GoesOn(pc, batch, at, then) ==
  /\ sender' \in Senders /\ flushed' = flushed /\ sender'.account = sender.account
  /\ sender'.pc = pc /\ sender'.batch = batch /\ sender'.at = at /\ sender'.then = then

LEMMA Loaded ==
  ASSUME ScrobbleAssumption, ScrobbleTyped, Load
  PROVE  /\ ListenerStays /\ UNCHANGED <<file, torn, accepted, doubled, gone, doubt>> /\ sender.pc = "load"
         /\ \/ Rests
            \/ /\ file # <<>>
               /\ \E pc \in {"expire", "send"}, n \in 1..Len(file) :
                    GoesOn(pc, SubSeq(file, 1, n), sender.at, "more")
<1>1. /\ ListenerStays /\ UNCHANGED <<file, torn, accepted, doubled, gone, doubt>> /\ sender.pc = "load"
  BY SenderKeepsThem DEF Load
<1>2. /\ file \in Seq(Play) /\ Len(file) \in Nat /\ sender \in Senders /\ Batch \in Nat \ {0}
      /\ (file # <<>> => Len(file) > 0)
  BY DEF ScrobbleTyped, Places, ScrobbleAssumption
<1>3. ASSUME NEW n \in 1..Len(file), NEW pc \in {"expire", "send"}, flushed' = flushed,
             sender' = [sender EXCEPT !.pc = pc, !.batch = SubSeq(file, 1, n), !.then = "more"]
      PROVE  /\ file # <<>> /\ GoesOn(pc, SubSeq(file, 1, n), sender.at, "more")
  <2>1. n \in 0..Len(file)
    BY <1>2
  <2>2. SubSeq(file, 1, n) \in Seq(Play)
    BY <1>2, <2>1, Parted
  <2>3. file # <<>>
    BY <1>2
  <2> DEFINE q == SubSeq(file, 1, n)
  <2>4. q \in Seq(Play) /\ sender' = [sender EXCEPT !.pc = pc, !.batch = q, !.then = "more"]
    BY <1>3, <2>2
  <2> HIDE DEF q
  <2>5. GoesOn(pc, q, sender.at, "more")
    BY <1>2, <1>3, <2>4 DEF GoesOn, Senders
  <2>6. QED
    BY <2>3, <2>5 DEF q
<1>4. CASE Answers("sent")
  BY <1>1, <1>4 DEF Rests, Answers
<1>5. CASE \E stale \in 1..Len(file) :
             sender' = [sender EXCEPT !.pc = "expire", !.batch = SubSeq(file, 1, stale), !.then = "more"]
             /\ UNCHANGED flushed
  BY <1>1, <1>3, <1>5
<1>6. CASE /\ file # <<>>
           /\ sender' = [sender EXCEPT !.pc = "send", !.then = "more",
                                       !.batch = SubSeq(file, 1, IF Len(file) < Batch THEN Len(file)
                                                                 ELSE Batch)]
           /\ UNCHANGED flushed
  <2>1. PICK n \in 1..Len(file) : n = IF Len(file) < Batch THEN Len(file) ELSE Batch
    BY <1>2, <1>6
  <2>2. sender' = [sender EXCEPT !.pc = "send", !.batch = SubSeq(file, 1, n), !.then = "more"]
    BY <1>2, <1>6, <2>1 DEF Senders
  <2>3. QED
    BY <1>1, <1>3, <1>6, <2>2
<1>7. QED
  BY <1>4, <1>5, <1>6 DEF Load

(* Last.fm takes the plays of s for the sender's account. *)
LEMMA Accepted ==
  ASSUME ScrobbleTyped, sender.account \in Accounts, NEW s \in Seq(Play), Accept(s)
  PROVE  /\ TakenIds' = TakenIds \cup PlayIds(s) /\ accepted' \subseteq [play : Play, account : Accounts]
         /\ (doubled' <=> doubled \/ PlayIds(s) \cap TakenIds # {}) /\ doubled' \in BOOLEAN
         /\ \A r \in accepted' : r \in accepted \/ (r.account = sender.account /\ \E i \in DOMAIN s : r.play = s[i])
<1>1. /\ accepted' = accepted \cup {[play |-> s[i], account |-> sender.account] : i \in DOMAIN s}
      /\ doubled' = (doubled \/ \E r \in accepted : r.play.id \in PlayIds(s))
  BY DEF Accept
<1>2. \A i \in DOMAIN s : s[i] \in Play
  OBVIOUS
<1>3. accepted' \subseteq [play : Play, account : Accounts]
  BY <1>1, <1>2 DEF ScrobbleTyped, Places
<1>4. TakenIds' = TakenIds \cup PlayIds(s)
  <2>1. TakenIds' \subseteq TakenIds \cup PlayIds(s)
    BY <1>1 DEF TakenIds, PlayIds
  <2>2. TakenIds \subseteq TakenIds'
    BY <1>1 DEF TakenIds
  <2>3. ASSUME NEW i \in DOMAIN s PROVE s[i].id \in TakenIds'
    <3>1. [play |-> s[i], account |-> sender.account] \in accepted'
      BY <1>1
    <3>2. QED
      BY <3>1 DEF TakenIds
  <2>4. QED
    BY <2>1, <2>2, <2>3 DEF PlayIds
<1>5. (\E r \in accepted : r.play.id \in PlayIds(s)) <=> PlayIds(s) \cap TakenIds # {}
  BY DEF TakenIds
<1>6. (doubled' <=> doubled \/ PlayIds(s) \cap TakenIds # {}) /\ doubled' \in BOOLEAN
  <2>1. doubled' \in BOOLEAN
    BY <1>1
  <2>2. doubled' <=> (doubled \/ \E r \in accepted : r.play.id \in PlayIds(s))
    BY <1>1
  <2>3. QED
    BY <1>5, <2>1, <2>2
<1>7. \A r \in accepted' : r \in accepted \/ (r.account = sender.account /\ \E i \in DOMAIN s : r.play = s[i])
  BY <1>1
<1>8. QED
  BY <1>3, <1>4, <1>6, <1>7

(* The answers to a batch. *)
LEMMA Sent ==
  ASSUME ScrobbleAssumption, ScrobbleTyped, Send
  PROVE  /\ ListenerStays /\ UNCHANGED <<file, torn, gone>> /\ sender.pc = "send"
         /\ \/ Accept(sender.batch) /\ GoesOn("drop", sender.batch, sender.at, sender.then) /\ UNCHANGED doubt
            \/ Accept(sender.batch) /\ Rests /\ doubt' = TRUE
            \/ Rests /\ UNCHANGED <<accepted, doubled, doubt>>
            \/ GoesOn("each", sender.batch, 1, sender.then) /\ UNCHANGED <<accepted, doubled, doubt>>
<1>1. ListenerStays /\ UNCHANGED <<file, torn, gone>> /\ sender.pc = "send"
  BY SenderKeepsThem DEF Send
<1>2. sender \in Senders
  BY DEF ScrobbleTyped, Places
<1>3. CASE Accept(sender.batch) /\ sender' = [sender EXCEPT !.pc = "drop"] /\ UNCHANGED <<flushed, doubt>>
  <2>1. GoesOn("drop", sender.batch, sender.at, sender.then)
    BY <1>2, <1>3 DEF GoesOn, Senders
  <2>2. QED
    BY <1>1, <1>3, <2>1
<1>4. CASE Accept(sender.batch) /\ Answers("error") /\ doubt' = TRUE
  BY <1>1, <1>4 DEF Rests, Answers
<1>5. CASE \E r \in {"error", "invalid"} : Answers(r) /\ UNCHANGED <<accepted, doubled, doubt>>
  BY <1>1, <1>5 DEF Rests, Answers
<1>6. CASE sender' = [sender EXCEPT !.pc = "each", !.at = 1] /\ UNCHANGED <<flushed, accepted, doubled, doubt>>
  <2>1. GoesOn("each", sender.batch, 1, sender.then)
    BY <1>2, <1>6 DEF GoesOn, Senders
  <2>2. QED
    BY <1>1, <1>6, <2>1
<1>7. QED
  BY <1>3, <1>4, <1>5, <1>6 DEF Send

(* The answers to the plays of a batch one by one. *)
LEMMA OneSent ==
  ASSUME ScrobbleAssumption, ScrobbleTyped, SendEach
  PROVE  /\ ListenerStays /\ UNCHANGED <<file, torn>> /\ sender.pc = "each"
         /\ \/ /\ sender.at = Len(sender.batch) + 1
               /\ GoesOn("drop", sender.batch, sender.at, sender.then)
               /\ UNCHANGED <<accepted, doubled, doubt, gone>>
            \/ /\ sender.at \in 1..Len(sender.batch)
               /\ \/ /\ GoesOn("each", sender.batch, sender.at + 1, sender.then) /\ UNCHANGED doubt
                     /\ \/ Accept(<<sender.batch[sender.at]>>) /\ UNCHANGED gone
                        \/ /\ gone' = gone \cup {sender.batch[sender.at].id}
                           /\ UNCHANGED <<accepted, doubled>>
                  \/ /\ \E r \in {"error", "invalid"} : GoesOn("drop", AnsweredPlays, sender.at, r)
                     /\ UNCHANGED gone
                     /\ \/ UNCHANGED <<accepted, doubled, doubt>>
                        \/ Accept(<<sender.batch[sender.at]>>) /\ doubt' = TRUE
<1>1. ListenerStays /\ UNCHANGED <<file, torn, flushed>> /\ sender.pc = "each"
  BY SenderKeepsThem DEF SendEach
<1>2. sender \in Senders /\ sender.batch \in Seq(Play) /\ Len(sender.batch) \in Nat
  <2>1. sender \in Senders
    BY DEF ScrobbleTyped, Places
  <2>2. QED
    BY <2>1, SenderFields
<1>3. sender.at \in 1..(Len(sender.batch) + 1)
  BY <1>1 DEF ScrobbleTyped, SenderStages
<1>4. CASE sender.at > Len(sender.batch)
  <2>1. sender.at = Len(sender.batch) + 1
    BY <1>2, <1>3, <1>4
  <2>2. sender' = [sender EXCEPT !.pc = "drop"] /\ UNCHANGED <<accepted, doubled, doubt, gone>>
    BY <1>4 DEF SendEach
  <2>3. GoesOn("drop", sender.batch, sender.at, sender.then)
    BY <1>1, <1>2, <2>2 DEF GoesOn, Senders
  <2>4. QED
    BY <1>1, <2>1, <2>2, <2>3
<1>5. CASE ~(sender.at > Len(sender.batch))
  <2>1. sender.at \in 1..Len(sender.batch) /\ sender.at \in Nat
    BY <1>2, <1>3, <1>5
  <2>2. PICK p : p = sender.batch[sender.at]
    OBVIOUS
  <2>3. PICK a : a = AnsweredPlays
    OBVIOUS
  <2>4. a \in Seq(Play)
    <3>1. sender.at - 1 \in 0..Len(sender.batch)
      BY <1>2, <2>1
    <3>2. SubSeq(sender.batch, 1, sender.at - 1) \in Seq(Play)
      BY <1>2, <3>1, Parted
    <3>3. QED
      BY <2>3, <3>2 DEF AnsweredPlays
  <2>5. \/ /\ Accept(<<p>>) /\ sender' = [sender EXCEPT !.at = @ + 1]
           /\ UNCHANGED <<doubt, gone>>
        \/ /\ gone' = gone \cup {p.id} /\ sender' = [sender EXCEPT !.at = @ + 1]
           /\ UNCHANGED <<accepted, doubled, doubt>>
        \/ /\ \E r \in {"error", "invalid"} :
                sender' = [sender EXCEPT !.pc = "drop", !.batch = a, !.then = r]
           /\ UNCHANGED <<accepted, doubled, doubt, gone>>
        \/ /\ Accept(<<p>>) /\ sender' = [sender EXCEPT !.pc = "drop", !.batch = a, !.then = "error"]
           /\ doubt' = TRUE
           /\ UNCHANGED gone
    BY <1>5, <2>2, <2>3, Zenon DEF SendEach
  <2>6. ASSUME sender' = [sender EXCEPT !.at = @ + 1]
        PROVE  GoesOn("each", sender.batch, sender.at + 1, sender.then)
    BY <1>1, <1>2, <2>1, <2>6 DEF GoesOn, Senders
  <2>7. ASSUME NEW r \in {"error", "invalid"}, sender' = [sender EXCEPT !.pc = "drop", !.batch = a, !.then = r]
        PROVE  GoesOn("drop", a, sender.at, r)
    BY <1>1, <1>2, <2>4, <2>7 DEF GoesOn, Senders
  <2>8. QED
    BY <1>1, <2>1, <2>2, <2>3, <2>5, <2>6, <2>7, Zenon
<1>6. QED
  BY <1>4, <1>5

(* The drop of what was sent, or of what is too old. *)
LEMMA SentDropped ==
  ASSUME ScrobbleAssumption, ScrobbleTyped, DropSent
  PROVE  /\ ListenerStays /\ UNCHANGED <<accepted, doubled>> /\ sender.pc \in {"drop", "expire"}
         /\ \/ /\ IsFront(sender.batch) /\ file' = SubSeq(file, Len(sender.batch) + 1, Len(file))
               /\ torn' = FALSE /\ UNCHANGED doubt
               /\ gone' = IF sender.pc = "expire" THEN gone \cup PlayIds(sender.batch) ELSE gone
               /\ \/ Rests
                  \/ /\ sender.then = "more" /\ GoesOn("load", sender.batch, sender.at, "more")
            \/ ~IsFront(sender.batch) /\ Rests /\ UNCHANGED <<file, torn, gone, doubt>>
            \/ Rests /\ doubt' = TRUE /\ UNCHANGED <<file, torn, gone>>
<1>1. ListenerStays /\ UNCHANGED <<accepted, doubled>> /\ sender.pc \in {"drop", "expire"}
  BY SenderKeepsThem DEF DropSent
<1>2. sender \in Senders /\ sender.then \in {"more", "error", "invalid"}
  <2>1. sender \in Senders
    BY DEF ScrobbleTyped, Places
  <2>2. QED
    BY <2>1, SenderFields
<1>3. CASE /\ IsFront(sender.batch)
           /\ file' = SubSeq(file, Len(sender.batch) + 1, Len(file)) /\ torn' = FALSE
           /\ gone' = IF sender.pc = "expire" THEN gone \cup PlayIds(sender.batch) ELSE gone
           /\ IF sender.then = "more" THEN sender' = [sender EXCEPT !.pc = "load"] /\ UNCHANGED flushed
              ELSE Answers(sender.then)
           /\ UNCHANGED doubt
  <2>1. CASE sender.then = "more"
    <3>1. GoesOn("load", sender.batch, sender.at, "more")
      BY <1>2, <1>3, <2>1 DEF GoesOn, Senders
    <3>2. QED
      BY <1>1, <1>3, <2>1, <3>1
  <2>2. CASE sender.then # "more"
    <3>1. Rests
      BY <1>2, <1>3, <2>2 DEF Rests, Answers
    <3>2. QED
      BY <1>1, <1>3, <3>1
  <2>3. QED
    BY <2>1, <2>2
<1>4. CASE /\ ~IsFront(sender.batch) /\ Answers(IF sender.then = "more" THEN "sent" ELSE sender.then)
           /\ UNCHANGED <<file, torn, gone, doubt>>
  BY <1>1, <1>2, <1>4 DEF Rests, Answers
<1>5. CASE /\ WritesFail /\ Answers(IF sender.then = "more" THEN "error" ELSE sender.then)
           /\ doubt' = TRUE /\ UNCHANGED <<file, torn, gone>>
  BY <1>1, <1>2, <1>5 DEF Rests, Answers
<1>6. QED
  BY <1>3, <1>4, <1>5 DEF DropSent

(* A step of the sender keeps the types. *)
StagesFit ==
  \/ Rests
  \/ /\ sender' \in Senders /\ flushed' = flushed /\ sender'.account = sender.account
     /\ sender'.pc = "each" => sender'.at \in 1..(Len(sender'.batch) + 1)
     /\ Sending' /\ sender'.then = "more" => sender'.batch # <<>>
     /\ sender'.pc \in {"load", "send", "each", "expire"} => sender'.then = "more"
LEMMA SenderTyped ==
  ASSUME ScrobbleAssumption, ScrobbleTyped, sender.pc # "idle", ListenerStays, StagesFit,
         UNCHANGED <<waiting, flushing, failed, due, signIns, crashes>>,
         file' \in Seq(Play), Len(file') <= QueueMax, file = <<>> => file' = <<>>,
         torn' \in BOOLEAN, doubt' \in BOOLEAN, doubled' \in BOOLEAN,
         accepted' \subseteq [play : Play, account : Accounts], gone' \subseteq Nat
  PROVE  ScrobbleTyped'
<1>1. flushing /\ flushed = "none" /\ sender.account \in Accounts
  BY DEF ScrobbleTyped, SenderStages
<1>2. sender' \in Senders /\ flushed' \in {"none", "sent", "error", "invalid"}
  BY <1>1, IdleIs DEF StagesFit, Rests
<1>3. Places'
  BY <1>2 DEF ScrobbleTyped, Places, ListenerStays
<1>4. Names'
  BY <1>2 DEF ScrobbleTyped, Names, ListenerStays
<1>5. Flags'
  BY DEF ScrobbleTyped, Flags, ListenerStays
<1>6. SenderStages'
  <2>1. CASE Rests
    BY <1>1, <2>1, IdleIs DEF Rests, SenderStages, Sending
  <2>2. CASE ~Rests
    <3>1. /\ sender' \in Senders /\ flushed' = flushed /\ sender'.account = sender.account
          /\ sender'.pc = "each" => sender'.at \in 1..(Len(sender'.batch) + 1)
          /\ Sending' /\ sender'.then = "more" => sender'.batch # <<>>
          /\ sender'.pc \in {"load", "send", "each", "expire"} => sender'.then = "more"
      BY <2>2 DEF StagesFit
    <3>2. QED
      BY <1>1, <3>1 DEF SenderStages
  <2>3. QED
    BY <2>1, <2>2
<1>7. Counted'
  BY DEF ScrobbleTyped, Counted, ListenerStays
<1>8. QED
  BY <1>3, <1>4, <1>5, <1>6, <1>7 DEF ScrobbleTyped

LEMMA SenderStill ==
  ASSUME Load \/ Send \/ SendEach \/ DropSent
  PROVE  UNCHANGED <<waiting, flushing, failed, due, signIns, crashes>>
<1>1. SenderKeeps
  <2>1. ASSUME Load PROVE SenderKeeps
    BY <2>1, Zenon DEF Load
  <2>2. ASSUME Send PROVE SenderKeeps
    BY <2>2 DEF Send
  <2>3. ASSUME SendEach PROVE SenderKeeps
    BY <2>3 DEF SendEach
  <2>4. ASSUME DropSent PROVE SenderKeeps
    BY <2>4 DEF DropSent
  <2>5. QED
    BY <2>1, <2>2, <2>3, <2>4
<1>2. QED
  BY <1>1, SenderKeepsThem

LEMMA LoadTyped == ASSUME ScrobbleAssumption, ScrobbleTyped, Load PROVE ScrobbleTyped'
<1>1. /\ ListenerStays /\ UNCHANGED <<file, torn, accepted, doubled, gone, doubt>> /\ sender.pc = "load"
      /\ UNCHANGED <<waiting, flushing, failed, due, signIns, crashes>>
  BY Loaded, SenderStill
<1>2. StagesFit
  <2>1. CASE Rests
    BY <2>1 DEF StagesFit
  <2>2. ASSUME NEW pc \in {"expire", "send"}, NEW n \in 1..Len(file),
               GoesOn(pc, SubSeq(file, 1, n), sender.at, "more")
        PROVE  StagesFit
    <3>1. SubSeq(file, 1, n) # <<>>
      <4>1. file \in Seq(Play) /\ n \in 0..Len(file) /\ n # 0
        BY DEF ScrobbleTyped, Places
      <4>2. Len(SubSeq(file, 1, n)) = n
        BY <4>1, Parted
      <4>3. QED
        BY <4>1, <4>2
    <3>2. QED
      BY <2>2, <3>1 DEF GoesOn, StagesFit
  <2>3. QED
    BY <2>1, <2>2, Loaded
<1>3. /\ file \in Seq(Play) /\ Len(file) <= QueueMax /\ gone \subseteq Nat
      /\ accepted \subseteq [play : Play, account : Accounts]
  BY DEF ScrobbleTyped, Places
<1>4. torn \in BOOLEAN /\ doubt \in BOOLEAN /\ doubled \in BOOLEAN
  BY DEF ScrobbleTyped, Flags
<1>5. QED
  BY <1>1, <1>2, <1>3, <1>4, SenderTyped

LEMMA SendTyped == ASSUME ScrobbleAssumption, ScrobbleTyped, Send PROVE ScrobbleTyped'
<1>1. /\ ListenerStays /\ UNCHANGED <<file, torn, gone>> /\ sender.pc = "send"
      /\ UNCHANGED <<waiting, flushing, failed, due, signIns, crashes>>
  BY Sent, SenderStill
<1>2. /\ sender.account \in Accounts /\ sender.then = "more" /\ sender.batch # <<>>
      /\ sender \in Senders /\ sender.batch \in Seq(Play)
  <2>1. sender \in Senders
    BY DEF ScrobbleTyped, Places
  <2>2. QED
    BY <1>1, <2>1, SenderFields DEF ScrobbleTyped, SenderStages, Sending
<1>3. StagesFit
  <2>1. \/ Rests
        \/ GoesOn("drop", sender.batch, sender.at, "more")
        \/ GoesOn("each", sender.batch, 1, "more")
    BY <1>2, Sent
  <2>2. Len(sender.batch) \in Nat
    BY <1>2
  <2>3. ASSUME GoesOn("drop", sender.batch, sender.at, "more") PROVE StagesFit
    BY <1>2, <2>3 DEF GoesOn, StagesFit
  <2>4. ASSUME GoesOn("each", sender.batch, 1, "more") PROVE StagesFit
    BY <1>2, <2>2, <2>4 DEF GoesOn, StagesFit
  <2>5. QED
    BY <2>1, <2>3, <2>4 DEF StagesFit
<1>4. accepted' \subseteq [play : Play, account : Accounts] /\ doubled' \in BOOLEAN
  <2>1. CASE Accept(sender.batch)
    BY <1>2, <2>1, Accepted
  <2>2. CASE UNCHANGED <<accepted, doubled>>
    BY <2>2 DEF ScrobbleTyped, Places, Flags
  <2>3. QED
    BY <2>1, <2>2, Sent
<1>5. doubt' \in BOOLEAN /\ torn' \in BOOLEAN
  <2>1. doubt' = doubt \/ doubt' = TRUE
    BY Sent
  <2>2. QED
    BY <1>1, <2>1 DEF ScrobbleTyped, Flags
<1>6. file \in Seq(Play) /\ Len(file) <= QueueMax /\ gone \subseteq Nat
  BY DEF ScrobbleTyped, Places
<1>7. QED
  BY <1>1, <1>3, <1>4, <1>5, <1>6, SenderTyped

LEMMA SendEachTyped == ASSUME ScrobbleAssumption, ScrobbleTyped, SendEach PROVE ScrobbleTyped'
<1>1. /\ ListenerStays /\ UNCHANGED <<file, torn>> /\ sender.pc = "each"
      /\ UNCHANGED <<waiting, flushing, failed, due, signIns, crashes>>
  BY OneSent, SenderStill
<1>2. /\ sender.account \in Accounts /\ sender.then = "more" /\ sender.batch # <<>>
      /\ sender \in Senders /\ sender.batch \in Seq(Play) /\ Len(sender.batch) \in Nat
  <2>1. sender \in Senders
    BY DEF ScrobbleTyped, Places
  <2>2. sender.batch \in Seq(Play)
    BY <2>1, SenderFields
  <2>3. QED
    BY <1>1, <2>1, <2>2 DEF ScrobbleTyped, SenderStages, Sending
<1>3. ASSUME sender.at \in 1..Len(sender.batch)
      PROVE  sender.batch[sender.at] \in Play /\ <<sender.batch[sender.at]>> \in Seq(Play)
             /\ sender.batch[sender.at].id \in Nat
  <2>1. PICK p \in Play : p = sender.batch[sender.at]
    BY <1>2, <1>3
  <2>2. <<p>> \in Seq(Play) /\ p.id \in Nat
    BY DEF Play
  <2>3. QED
    BY <2>1, <2>2
<1>4. StagesFit
  <2>1. \/ GoesOn("drop", sender.batch, sender.at, "more")
        \/ sender.at \in 1..Len(sender.batch) /\ GoesOn("each", sender.batch, sender.at + 1, "more")
        \/ \E r \in {"error", "invalid"} : GoesOn("drop", AnsweredPlays, sender.at, r)
    BY <1>2, OneSent
  <2>2. ASSUME GoesOn("drop", sender.batch, sender.at, "more") PROVE StagesFit
    BY <1>2, <2>2 DEF GoesOn, StagesFit
  <2>3. ASSUME sender.at \in 1..Len(sender.batch), GoesOn("each", sender.batch, sender.at + 1, "more")
        PROVE  StagesFit
    <3>1. sender.at + 1 \in 1..(Len(sender.batch) + 1)
      BY <1>2, <2>3
    <3>2. QED
      BY <1>2, <2>3, <3>1 DEF GoesOn, StagesFit
  <2>4. ASSUME NEW r \in {"error", "invalid"}, GoesOn("drop", AnsweredPlays, sender.at, r) PROVE StagesFit
    BY <2>4 DEF GoesOn, StagesFit
  <2>5. QED
    BY <2>1, <2>2, <2>3, <2>4
<1>5. accepted' \subseteq [play : Play, account : Accounts] /\ doubled' \in BOOLEAN
  <2>1. CASE sender.at \in 1..Len(sender.batch) /\ Accept(<<sender.batch[sender.at]>>)
    BY <1>2, <1>3, <2>1, Accepted
  <2>2. CASE UNCHANGED <<accepted, doubled>>
    BY <2>2 DEF ScrobbleTyped, Places, Flags
  <2>3. QED
    BY <2>1, <2>2, OneSent
<1>6. doubt' \in BOOLEAN /\ torn' \in BOOLEAN
  <2>1. doubt' = doubt \/ doubt' = TRUE
    BY OneSent
  <2>2. QED
    BY <1>1, <2>1 DEF ScrobbleTyped, Flags
<1>7. gone' \subseteq Nat
  <2>1. gone \subseteq Nat
    BY DEF ScrobbleTyped, Places
  <2>2. gone' = gone \/ (sender.at \in 1..Len(sender.batch) /\ gone' = gone \cup {sender.batch[sender.at].id})
    BY OneSent
  <2>3. QED
    BY <1>3, <2>1, <2>2
<1>8. file \in Seq(Play) /\ Len(file) <= QueueMax
  BY DEF ScrobbleTyped, Places
<1>9. QED
  BY <1>1, <1>4, <1>5, <1>6, <1>7, <1>8, SenderTyped

LEMMA DropSentTyped == ASSUME ScrobbleAssumption, ScrobbleTyped, DropSent PROVE ScrobbleTyped'
<1>1. /\ ListenerStays /\ UNCHANGED <<accepted, doubled>> /\ sender.pc \in {"drop", "expire"}
      /\ UNCHANGED <<waiting, flushing, failed, due, signIns, crashes>>
  BY SentDropped, SenderStill
<1>2. sender \in Senders /\ sender.batch \in Seq(Play)
  <2>1. sender \in Senders
    BY DEF ScrobbleTyped, Places
  <2>2. QED
    BY <2>1, SenderFields
<1>3. StagesFit
  <2>1. Rests \/ GoesOn("load", sender.batch, sender.at, "more")
    BY SentDropped
  <2>2. QED
    BY <2>1 DEF StagesFit, GoesOn, Sending
<1>4. /\ file \in Seq(Play) /\ Len(file) <= QueueMax /\ Len(file) \in Nat /\ gone \subseteq Nat
      /\ accepted \subseteq [play : Play, account : Accounts] /\ QueueMax \in Nat
  BY DEF ScrobbleTyped, Places, ScrobbleAssumption
<1>5. doubt' \in BOOLEAN /\ torn' \in BOOLEAN /\ doubled' \in BOOLEAN
  <2>1. torn \in BOOLEAN /\ doubt \in BOOLEAN /\ doubled \in BOOLEAN
    BY DEF ScrobbleTyped, Flags
  <2>2. (doubt' = doubt \/ doubt' = TRUE) /\ (torn' = torn \/ torn' = FALSE)
    BY SentDropped
  <2>3. QED
    BY <1>1, <2>1, <2>2
<1>6. gone' \subseteq Nat
  <2>1. PlayIds(sender.batch) \subseteq Nat
    BY <1>2, IdsAreNumbers
  <2>2. gone' = gone \/ gone' = gone \cup PlayIds(sender.batch)
    BY SentDropped
  <2>3. QED
    BY <1>4, <2>1, <2>2
<1>7. file' \in Seq(Play) /\ Len(file') <= QueueMax /\ (file = <<>> => file' = <<>>)
  <2>1. CASE file' = file
    BY <1>4, <2>1
  <2>2. CASE IsFront(sender.batch) /\ file' = SubSeq(file, Len(sender.batch) + 1, Len(file))
    <3>1. Len(sender.batch) \in 0..Len(file) /\ Len(sender.batch) \in Nat
      BY <1>2, <1>4, <2>2 DEF IsFront
    <3>2. file' \in Seq(Play) /\ Len(file') = Len(file) - Len(sender.batch)
      BY <1>4, <2>2, <3>1, Parted
    <3>3. file = <<>> => Len(file') = 0
      BY <3>1, <3>2
    <3>4. QED
      BY <1>4, <3>1, <3>2, <3>3
  <2>3. QED
    BY <2>1, <2>2, SentDropped
<1>8. QED
  BY <1>1, <1>3, <1>4, <1>5, <1>6, <1>7, SenderTyped

LEMMA StartSenderTyped == ASSUME ScrobbleAssumption, ScrobbleTyped, StartSender PROVE ScrobbleTyped'
<1>1. /\ UNCHANGED <<onDisk, session, waiting, failed, due, login, dates, mainPc, flushed, counts, history>>
      /\ flushing' = TRUE /\ ~flushing /\ session # NoAccount
      /\ sender' = [Idle EXCEPT !.pc = "load", !.account = session]
  BY DEF StartSender, MaySend
<1>2. session \in Accounts /\ flushed = "none" /\ sender.pc = "idle"
  BY <1>1 DEF ScrobbleTyped, Names, SenderStages
<1>3. sender' \in Senders /\ sender'.pc = "load" /\ sender'.account = session /\ sender'.then = "more"
  BY <1>1, <1>2, IdleIs DEF Idle, Senders
<1>4. Places'
  BY <1>1, <1>3 DEF ScrobbleTyped, Places, onDisk, dates, counts, history
<1>5. Names' /\ Flags'
  BY <1>1 DEF ScrobbleTyped, Names, Flags, onDisk, dates, counts, history
<1>6. SenderStages' /\ Counted'
  BY <1>1, <1>2, <1>3 DEF ScrobbleTyped, SenderStages, Sending, Counted, onDisk, history
<1>7. QED
  BY <1>4, <1>5, <1>6 DEF ScrobbleTyped

-----------------------------------------------------------------------------
(* The ids.  What a play that is kept changes: it is nowhere in the file, in *)
(* the batch or in what was taken.                                           *)
LEMMA KeepsIds ==
  ASSUME ScrobbleAssumption, ScrobbleTyped, IdsInv, NEW p \in Play, KeepPlay(p), UNCHANGED <<sender, accepted, doubled>>,
         p.id \notin PlayIds(file) \cup PlayIds(sender.batch) \cup TakenIds
  PROVE  /\ Distinct(file') /\ PlayIds(file') \subseteq PlayIds(file) \cup {p.id}
         /\ PlayIds(file) \cup {p.id} \cup gone \subseteq PlayIds(file') \cup gone'
         /\ gone \subseteq gone' /\ DoneIsSettled' /\ SentFresh'
<1>1. file \in Seq(Play) /\ sender.batch \in Seq(Play) /\ Len(file) \in Nat /\ Len(sender.batch) \in Nat
  <2>1. file \in Seq(Play) /\ sender \in Senders
    BY DEF ScrobbleTyped, Places
  <2>2. QED
    BY <2>1, SenderFields
<1>2. Distinct(file) /\ DoneIsSettled /\ SentFresh
  BY DEF IdsInv, IdsAreOwn
<1>3. Done' = Done /\ TakenIds' = TakenIds /\ Sending' = Sending
  BY DEF Done, TakenIds, Sending
<1>4. DOMAIN file = 1..Len(file)
  BY <1>1
(* One more at the end of what was at the end of the file. *)
<1>5. ASSUME NEW s \in Seq(Play), Distinct(s), PlayIds(s) \subseteq PlayIds(file)
      PROVE  /\ Distinct(Append(s, p)) /\ PlayIds(Append(s, p)) = PlayIds(s) \cup {p.id}
  <2>1. /\ Len(s) \in Nat /\ DOMAIN s = 1..Len(s) /\ DOMAIN Append(s, p) = 1..(Len(s) + 1)
        /\ \A i \in 1..Len(s) : Append(s, p)[i] = s[i]
        /\ Append(s, p)[Len(s) + 1] = p
    OBVIOUS
  <2>2. \A i \in DOMAIN s : s[i].id # p.id
    BY <1>5 DEF PlayIds
  <2> DEFINE t == Append(s, p)
  <2>3. Distinct(t)
    <3>1. \A i \in DOMAIN t : (i \in DOMAIN s /\ t[i] = s[i]) \/ (i = Len(s) + 1 /\ t[i] = p)
      BY <2>1
    <3> HIDE DEF t
    <3>2. QED
      BY <1>5, <2>2, <3>1 DEF Distinct
  <2>4. QED
    BY <1>5, <2>3, Appended
<1>6. DoneIsSettled' /\ gone \subseteq gone'
  <2>1. gone \subseteq gone'
    BY Kept DEF KeptLast, KeptForOldest, LostInWrite
  <2>2. QED
    BY <1>2, <1>3, <2>1 DEF DoneIsSettled
<1>7. CASE LostInWrite(p)
  <2>1. file' = file /\ gone' = gone \cup {p.id} /\ doubt' = doubt
    BY <1>7 DEF LostInWrite
  <2>2. InStep' = InStep
    BY <2>1 DEF InStep, IsFront
  <2>3. SentFresh'
    BY <1>2, <1>3, <2>1, <2>2 DEF SentFresh
  <2>4. QED
    BY <1>2, <1>6, <2>1, <2>3
<1>8. CASE KeptLast(p)
  <2>1. file' = Append(file, p) /\ gone' = gone /\ doubt' = doubt
    BY <1>8 DEF KeptLast
  <2>2. Distinct(file') /\ PlayIds(file') = PlayIds(file) \cup {p.id}
    BY <1>1, <1>2, <1>5, <2>1
  <2>3. /\ \A i \in DOMAIN file : i \in DOMAIN file' /\ file'[i] = file[i]
        /\ \A i \in DOMAIN file' : i \in DOMAIN file \/ file'[i] = p
        /\ Len(file') = Len(file) + 1
    BY <1>1, <2>1
  <2>4. ASSUME InStep PROVE InStep'
    <3>1. CASE PlayIds(sender.batch) \cap PlayIds(file) = {}
      BY <2>2, <3>1 DEF InStep
    <3>2. CASE IsFront(sender.batch)
      <4>1. Len(sender.batch) <= Len(file) /\ SubSeq(file, 1, Len(sender.batch)) = sender.batch
        BY <3>2 DEF IsFront
      <4>2. Len(sender.batch) <= Len(file')
        BY <1>1, <2>3, <4>1
      <4>3. SubSeq(file', 1, Len(sender.batch)) = SubSeq(file, 1, Len(sender.batch))
        BY <1>1, <2>1, <4>1
      <4>4. QED
        BY <4>1, <4>2, <4>3 DEF InStep, IsFront
    <3>3. QED
      BY <2>4, <3>1, <3>2 DEF InStep
  <2>5. SentFresh'
    <3>1. ASSUME ~doubt'
          PROVE  /\ ~doubled'
                 /\ Sending' => InStep' /\ \A i \in DOMAIN sender'.batch : i > Done' => sender'.batch[i].id \notin TakenIds'
      BY <1>2, <1>3, <2>1, <2>4, <3>1 DEF SentFresh
    <3>2. ASSUME ~doubt', NEW i \in DOMAIN file', file'[i].id \in TakenIds'
          PROVE  Sending' /\ \E j \in 1..Done' : sender'.batch[j].id = file'[i].id
      <4>1. i \in DOMAIN file /\ file'[i] = file[i]
        BY <1>3, <2>3, <3>2
      <4>2. QED
        BY <1>2, <1>3, <2>1, <3>2, <4>1 DEF SentFresh
    <3>3. QED
      BY <3>1, <3>2 DEF SentFresh
  <2>6. QED
    BY <1>6, <2>1, <2>2, <2>5
<1>9. CASE KeptForOldest(p)
  <2>1. /\ file # <<>> /\ file' = Append(Tail(file), p) /\ gone' = gone \cup {Head(file).id}
        /\ doubt' = (doubt \/ sender.pc # "idle")
    BY <1>9 DEF KeptForOldest
  <2>2. PICK s \in Seq(Play) : s = Tail(file)
    BY <1>1, <2>1, TailOf
  <2>3. PlayIds(file) = PlayIds(s) \cup {Head(file).id}
    BY <1>1, <2>1, <2>2, TailOf
  <2>4. \A i \in DOMAIN s : i + 1 \in DOMAIN file /\ s[i] = file[i + 1] /\ i \in Nat
    BY <1>1, <2>1, <2>2
  <2>5. Distinct(s)
    <3>1. SUFFICES ASSUME NEW i \in DOMAIN s, NEW j \in DOMAIN s, s[i].id = s[j].id PROVE i = j
      BY DEF Distinct
    <3>2. i + 1 = j + 1
      BY <1>2, <2>4, <3>1 DEF Distinct
    <3>3. QED
      BY <2>4, <3>1, <3>2
  <2>6. Distinct(file') /\ PlayIds(file') = PlayIds(s) \cup {p.id}
    BY <1>5, <2>1, <2>2, <2>3, <2>5
  <2>7. SentFresh'
    <3>1. SUFFICES ASSUME ~doubt, sender.pc = "idle"
                   PROVE  /\ ~doubled' /\ ~Sending'
                          /\ \A i \in DOMAIN file' : file'[i].id \notin TakenIds'
      BY <2>1 DEF SentFresh
    <3>2. ~doubled' /\ ~Sending' /\ PlayIds(file) \cap TakenIds = {}
      BY <1>2, <3>1 DEF SentFresh, Sending, PlayIds
    <3>3. PlayIds(file') \cap TakenIds' = {}
      BY <1>3, <2>3, <2>6, <3>2
    <3>4. QED
      BY <3>2, <3>3 DEF PlayIds
  <2>8. QED
    BY <1>6, <2>1, <2>3, <2>6, <2>7
<1>10. QED
  BY <1>7, <1>8, <1>9, Kept

LEMMA CountKeepsIds == ASSUME ScrobbleAssumption, ScrobbleTyped, IdsInv, Count PROVE IdsInv'
<1> DEFINE p == [id |-> plays + 1, owner |-> session]
<1>1. /\ plays \in Nat /\ p \in Play /\ p.id = plays + 1 /\ undated \in Seq(Play)
  BY DEF ScrobbleTyped, Places, Names, Play
<1>2. plays' = plays + 1 /\ UNCHANGED <<sender, accepted, doubled>>
  BY DEF Count
<1>3. /\ Distinct(file) /\ Distinct(undated) /\ Distinct(sender.batch)
      /\ PlayIds(file) \cup PlayIds(undated) \cup PlayIds(sender.batch) \cup TakenIds \subseteq 1..plays
      /\ PlayIds(undated) \cap (PlayIds(file) \cup PlayIds(sender.batch) \cup TakenIds) = {}
      /\ 1..plays \subseteq KeptIds /\ DoneIsSettled /\ SentFresh
  BY DEF IdsInv, IdsAreOwn, AllKept
<1>4. /\ plays + 1 \notin 1..plays /\ 1..plays \subseteq 1..(plays + 1) /\ plays + 1 \in 1..(plays + 1)
      /\ 1..(plays + 1) = 1..plays \cup {plays + 1}
  BY <1>1
<1>5. TakenIds' = TakenIds
  BY <1>2 DEF TakenIds
<1>c. \/ undated' = Append(undated, p) /\ UNCHANGED <<file, torn, gone, doubt, waiting, due>>
      \/ KeepPlay(p) /\ undated' = undated
  BY DEF Count
<1> HIDE DEF p
<1>6. CASE undated' = Append(undated, p) /\ UNCHANGED <<file, torn, gone, doubt, waiting, due>>
  <2>1. PlayIds(undated') = PlayIds(undated) \cup {plays + 1}
    BY <1>1, <1>6, Appended
  <2>2. Distinct(undated')
    <3>1. /\ DOMAIN undated' = 1..(Len(undated) + 1) /\ DOMAIN undated = 1..Len(undated) /\ Len(undated) \in Nat
          /\ \A i \in 1..Len(undated) : undated'[i] = undated[i]
          /\ undated'[Len(undated) + 1] = p
      BY <1>1, <1>6
    <3>2. \A i \in DOMAIN undated' : (i \in DOMAIN undated /\ undated'[i] = undated[i]) \/ (i = Len(undated) + 1 /\ undated'[i] = p)
      BY <3>1
    <3>3. \A i \in DOMAIN undated : undated[i].id # p.id
      BY <1>1, <1>3, <1>4 DEF PlayIds
    <3>4. QED
      BY <1>3, <3>2, <3>3 DEF Distinct
  <2>3. IdsAreOwn'
    BY <1>2, <1>3, <1>4, <1>5, <1>6, <2>1, <2>2 DEF IdsAreOwn
  <2>4. AllKept'
    BY <1>2, <1>3, <1>4, <1>5, <1>6, <2>1 DEF AllKept, KeptIds
  <2>5. DoneIsSettled' /\ SentFresh'
    BY <1>2, <1>3, <1>5, <1>6 DEF DoneIsSettled, SentFresh, Done, Sending, InStep, IsFront
  <2>6. QED
    BY <2>3, <2>4, <2>5 DEF IdsInv
<1>7. CASE KeepPlay(p) /\ undated' = undated
  <2>1. p.id \notin PlayIds(file) \cup PlayIds(sender.batch) \cup TakenIds
    BY <1>1, <1>3, <1>4
  <2>2. /\ Distinct(file') /\ PlayIds(file') \subseteq PlayIds(file) \cup {p.id}
        /\ PlayIds(file) \cup {p.id} \cup gone \subseteq PlayIds(file') \cup gone'
        /\ gone \subseteq gone' /\ DoneIsSettled' /\ SentFresh'
    BY <1>1, <1>2, <1>7, <2>1, KeepsIds
  <2>3. p.id \notin PlayIds(undated)
    BY <1>1, <1>3, <1>4
  <2>4. IdsAreOwn'
    BY <1>1, <1>2, <1>3, <1>4, <1>5, <1>7, <2>2, <2>3 DEF IdsAreOwn
  <2>5. AllKept'
    BY <1>1, <1>2, <1>3, <1>4, <1>5, <1>7, <2>2 DEF AllKept, KeptIds
  <2>6. QED
    BY <2>2, <2>4, <2>5 DEF IdsInv
<1>8. QED
  BY <1>6, <1>7, <1>c

LEMMA DateKeepsIds == ASSUME ScrobbleAssumption, ScrobbleTyped, IdsInv, Date PROVE IdsInv'
<1>1. UNCHANGED <<plays, sender, accepted, doubled>> /\ undated \in Seq(Play)
  BY DEF Date, counts, ScrobbleTyped, Places
<1>2. /\ Distinct(file) /\ Distinct(undated) /\ Distinct(sender.batch)
      /\ PlayIds(file) \cup PlayIds(undated) \cup PlayIds(sender.batch) \cup TakenIds \subseteq 1..plays
      /\ PlayIds(undated) \cap (PlayIds(file) \cup PlayIds(sender.batch) \cup TakenIds) = {}
      /\ 1..plays \subseteq KeptIds /\ DoneIsSettled /\ SentFresh
  BY DEF IdsInv, IdsAreOwn, AllKept
<1>3. TakenIds' = TakenIds
  BY <1>1 DEF TakenIds
<1>4. CASE undated = <<>>
  <2>1. UNCHANGED <<undated, file, gone, doubt>>
    BY <1>4 DEF Date
  <2>2. QED
    BY <1>1, <1>2, <1>3, <2>1
       DEF IdsInv, IdsAreOwn, AllKept, KeptIds, DoneIsSettled, SentFresh, Done, Sending, InStep, IsFront
<1>5. CASE undated # <<>>
  <2>1. PICK p \in Play : p = Head(undated)
    BY <1>1, <1>5
  <2>2. PICK s \in Seq(Play) : s = Tail(undated)
    BY <1>1, <1>5, TailOf
  <2>3. /\ Len(undated) \in Nat \ {0} /\ p = undated[1] /\ PlayIds(undated) = PlayIds(s) \cup {p.id}
        /\ DOMAIN undated = 1..Len(undated)
        /\ \A i \in DOMAIN s : i \in Nat \ {0} /\ i + 1 \in DOMAIN undated /\ s[i] = undated[i + 1]
    <3>1. Len(undated) \in Nat \ {0} /\ p = undated[1] /\ PlayIds(undated) = PlayIds(s) \cup {p.id}
      BY <1>1, <1>5, <2>1, <2>2, TailOf
    <3>2. DOMAIN s = 1..(Len(undated) - 1) /\ DOMAIN undated = 1..Len(undated)
      BY <1>1, <1>5, <2>2
    <3>3. \A i \in 1..(Len(undated) - 1) : s[i] = undated[i + 1]
      BY <1>1, <1>5, <2>2, TailOf
    <3>4. QED
      BY <3>1, <3>2, <3>3
  <2>4. Distinct(s) /\ p.id \notin PlayIds(s)
    <3>1. ASSUME NEW i \in DOMAIN s, NEW j \in DOMAIN s, s[i].id = s[j].id PROVE i = j
      <4>1. i + 1 = j + 1
        BY <1>2, <2>3, <3>1 DEF Distinct
      <4>2. QED
        BY <2>3, <3>1, <4>1
    <3>2. ASSUME NEW i \in DOMAIN s, s[i].id = p.id PROVE FALSE
      <4>1. 1 \in DOMAIN undated /\ i + 1 \in DOMAIN undated /\ i \in Nat \ {0}
        BY <2>3
      <4>2. i + 1 = 1
        BY <1>2, <2>3, <3>2, <4>1 DEF Distinct
      <4>3. QED
        BY <4>1, <4>2
    <3>3. QED
      BY <3>1, <3>2 DEF Distinct, PlayIds
  <2>5. undated' = s
    BY <1>5, <2>2 DEF Date
  <2>6. CASE KeepPlay(p)
    <3>1. /\ Distinct(file') /\ PlayIds(file') \subseteq PlayIds(file) \cup {p.id}
          /\ PlayIds(file) \cup {p.id} \cup gone \subseteq PlayIds(file') \cup gone'
          /\ gone \subseteq gone' /\ DoneIsSettled' /\ SentFresh'
      BY <1>1, <1>2, <2>3, <2>6, KeepsIds
    <3>2. IdsAreOwn'
      BY <1>1, <1>2, <1>3, <2>3, <2>4, <2>5, <3>1 DEF IdsAreOwn
    <3>3. AllKept'
      BY <1>1, <1>2, <1>3, <2>3, <2>5, <3>1 DEF AllKept, KeptIds
    <3>4. QED
      BY <3>1, <3>2, <3>3 DEF IdsInv
  <2>7. CASE gone' = gone \cup {p.id} /\ UNCHANGED <<file, torn, doubt, waiting, due>>
    <3>1. IdsAreOwn'
      BY <1>1, <1>2, <1>3, <2>3, <2>4, <2>5, <2>7 DEF IdsAreOwn
    <3>2. AllKept'
      BY <1>1, <1>2, <1>3, <2>3, <2>5, <2>7 DEF AllKept, KeptIds
    <3>3. DoneIsSettled' /\ SentFresh'
      BY <1>1, <1>2, <1>3, <2>7 DEF DoneIsSettled, SentFresh, Done, Sending, InStep, IsFront
    <3>4. QED
      BY <3>1, <3>2, <3>3 DEF IdsInv
  <2>8. QED
    BY <1>5, <2>1, <2>6, <2>7 DEF Date
<1>6. QED
  BY <1>4, <1>5

(* Steps that leave the plays where they are, or drop all of the file or of   *)
(* those without a date.                                                      *)
LEMMA CallsKeepIds == ASSUME IdsInv, PlaysStay PROVE IdsInv'
BY DEF IdsInv, PlaysStay, IdsAreOwn, AllKept, KeptIds, TakenIds, DoneIsSettled, SentFresh, Done, Sending, InStep,
       IsFront

LEMMA StartKeepsIds == ASSUME ScrobbleTyped, IdsInv, StartSender PROVE IdsInv'
<1>1. /\ UNCHANGED <<file, undated, plays, accepted, doubled, gone, doubt>>
      /\ sender' = [Idle EXCEPT !.pc = "load", !.account = session] /\ ~flushing
  BY DEF StartSender, MaySend, onDisk, dates, counts, history
<1>2. sender.pc = "idle" /\ sender'.pc = "load" /\ sender'.batch = <<>>
  BY <1>1 DEF ScrobbleTyped, SenderStages, Idle
<1>3. ~Sending /\ ~Sending'
  BY <1>2 DEF Sending
<1>4. Distinct(sender'.batch) /\ PlayIds(sender'.batch) = {}
  BY <1>2 DEF Distinct, PlayIds
<1>5. IdsAreOwn'
  BY <1>1, <1>4 DEF IdsInv, IdsAreOwn, TakenIds
<1>6. AllKept' /\ DoneIsSettled' /\ SentFresh'
  BY <1>1, <1>3 DEF IdsInv, AllKept, KeptIds, TakenIds, DoneIsSettled, SentFresh
<1>7. QED
  BY <1>5, <1>6 DEF IdsInv

LEMMA ShrunkIds ==
  ASSUME ScrobbleTyped, IdsInv, Shrinks, sender' = sender \/ sender' = Idle,
         sender' = sender => doubt' = doubt,
         sender' = Idle => doubt' = (doubt \/ sender.pc \in {"each", "drop"})
  PROVE  IdsInv'
<1>1. /\ file' \in {file, <<>>} /\ undated' \in {undated, <<>>} /\ KeptIds \subseteq KeptIds' /\ gone \subseteq gone'
      /\ plays' = plays /\ TakenIds' = TakenIds /\ doubled' = doubled
  BY DEF Shrinks, TakenIds
<1>2. /\ Distinct(file') /\ PlayIds(file') \subseteq PlayIds(file)
      /\ Distinct(undated') /\ PlayIds(undated') \subseteq PlayIds(undated)
      /\ Distinct(<<>>) /\ PlayIds(<<>>) = {}
  <2>1. Distinct(<<>>) /\ PlayIds(<<>>) = {}
    BY DEF Distinct, PlayIds
  <2>2. Distinct(file) /\ Distinct(undated)
    BY DEF IdsInv, IdsAreOwn
  <2>3. ASSUME file' = file PROVE Distinct(file') /\ PlayIds(file') \subseteq PlayIds(file)
    BY <2>2, <2>3
  <2>4. ASSUME file' = <<>> PROVE Distinct(file') /\ PlayIds(file') \subseteq PlayIds(file)
    BY <2>1, <2>4
  <2>5. ASSUME undated' = undated PROVE Distinct(undated') /\ PlayIds(undated') \subseteq PlayIds(undated)
    BY <2>2, <2>5
  <2>6. ASSUME undated' = <<>> PROVE Distinct(undated') /\ PlayIds(undated') \subseteq PlayIds(undated)
    BY <2>1, <2>6
  <2>7. QED
    BY <1>1, <2>1, <2>3, <2>4, <2>5, <2>6
<1>3. Distinct(sender'.batch) /\ PlayIds(sender'.batch) \subseteq PlayIds(sender.batch)
  <2>1. CASE sender' = sender
    BY <2>1 DEF IdsInv, IdsAreOwn
  <2>2. CASE sender' = Idle
    BY <1>2, <2>2, IdleIs
  <2>3. QED
    BY <2>1, <2>2
<1>4. IdsAreOwn'
  BY <1>1, <1>2, <1>3 DEF IdsInv, IdsAreOwn
<1>5. AllKept'
  BY <1>1 DEF IdsInv, AllKept
<1>6. CASE sender' = sender
  <2>1. DoneIsSettled'
    BY <1>1, <1>6 DEF IdsInv, DoneIsSettled, Done, Sending
  <2>2. InStep => InStep'
    <3>1. CASE file' = file
      BY <1>6, <3>1 DEF InStep, IsFront
    <3>2. CASE file' = <<>>
      BY <1>2, <3>2 DEF InStep
    <3>3. QED
      BY <1>1, <3>1, <3>2
  <2>3. ASSUME ~doubt, PlayIds(file') = {} \/ file' = file,
               NEW i \in DOMAIN file', file'[i].id \in TakenIds'
        PROVE  Sending' /\ \E j \in 1..Done' : sender'.batch[j].id = file'[i].id
    <3>1. file' = file
      BY <2>3 DEF PlayIds
    <3>2. QED
      BY <1>1, <1>6, <2>3, <3>1 DEF IdsInv, SentFresh, Sending, Done
  <2>4. PlayIds(file') = {} \/ file' = file
    <3>1. ASSUME file' = <<>> PROVE PlayIds(file') = {}
      BY <1>2, <3>1
    <3>2. QED
      BY <1>1, <3>1
  <2>5. ASSUME ~doubt
        PROVE  /\ ~doubled'
               /\ Sending' => InStep' /\ \A i \in DOMAIN sender'.batch : i > Done' => sender'.batch[i].id \notin TakenIds'
    BY <1>1, <1>6, <2>2, <2>5 DEF IdsInv, SentFresh, Sending, Done
  <2>6. SentFresh'
    BY <1>6, <2>3, <2>4, <2>5 DEF SentFresh
  <2>7. QED
    BY <1>4, <1>5, <2>1, <2>6 DEF IdsInv
<1>7. CASE sender' = Idle
  <2>1. ~Sending'
    BY <1>7, IdleIs DEF Sending
  <2>2. DoneIsSettled'
    BY <2>1 DEF DoneIsSettled
  <2>3. ASSUME ~doubt'
        PROVE  ~doubled' /\ PlayIds(file') \cap TakenIds' = {}
    <3>1. ~doubt /\ sender.pc \notin {"each", "drop"}
      BY <1>7, <2>3
    <3>2. Done = 0
      BY <3>1 DEF Done
    <3>3. ~doubled /\ \A i \in DOMAIN file : file[i].id \in TakenIds => \E j \in 1..0 : sender.batch[j].id = file[i].id
      BY <3>1, <3>2 DEF IdsInv, SentFresh
    <3>4. PlayIds(file) \cap TakenIds = {}
      BY <3>3 DEF PlayIds
    <3>5. QED
      BY <1>1, <1>2, <3>3, <3>4
  <2>4. SentFresh'
    BY <2>1, <2>3 DEF SentFresh, PlayIds
  <2>5. QED
    BY <1>4, <1>5, <2>2, <2>4 DEF IdsInv
<1>8. QED
  BY <1>6, <1>7

LEMMA ShrinksKeepIds ==
  ASSUME ScrobbleTyped, IdsInv, SignedIn \/ Flushed \/ Forgotten \/ Crash
  PROVE  IdsInv'
<1>1. ASSUME Shrinks, sender' = sender, doubt' = doubt PROVE IdsInv'
  <2>1. sender' = Idle => doubt' = (doubt \/ sender.pc \in {"each", "drop"})
    BY <1>1, IdleIs DEF ScrobbleTyped, Flags
  <2>2. QED
    BY <1>1, <2>1, ShrunkIds
<1>2. CASE SignedIn
  BY <1>1, <1>2, SignedInShrinks
<1>3. CASE Flushed
  BY <1>1, <1>3, FlushedShrinks
<1>4. CASE Forgotten
  BY <1>1, <1>4, ForgottenShrinks
<1>5. CASE Crash
  <2>1. Shrinks /\ sender' = Idle /\ doubt' = (doubt \/ sender.pc \in {"each", "drop"})
    BY <1>5, CrashShrinks DEF Crash
  <2>2. sender' = sender => doubt' = doubt
    BY <2>1, IdleIs DEF ScrobbleTyped, Flags
  <2>3. QED
    BY <2>1, <2>2, ShrunkIds
<1>6. QED
  BY <1>2, <1>3, <1>4, <1>5

(* The sender's steps: what it holds is a part of what it held or of the file, *)
(* and what leaves the file was taken or is gone.                              *)
LEMMA SenderIds ==
  ASSUME ScrobbleTyped, IdsInv, ListenerStays,
         Distinct(file'), PlayIds(file') \subseteq PlayIds(file),
         Distinct(sender'.batch), PlayIds(sender'.batch) \subseteq PlayIds(file) \cup PlayIds(sender.batch),
         TakenIds \subseteq TakenIds', TakenIds' \subseteq TakenIds \cup PlayIds(sender.batch),
         gone \subseteq gone', PlayIds(file) \subseteq PlayIds(file') \cup gone' \cup TakenIds'
  PROVE  IdsAreOwn' /\ AllKept'
<1>1. undated' = undated /\ plays' = plays
  BY DEF ListenerStays
<1>2. IdsAreOwn'
  BY <1>1 DEF IdsInv, IdsAreOwn
<1>3. AllKept'
  BY <1>1 DEF IdsInv, AllKept, KeptIds
<1>4. QED
  BY <1>2, <1>3

(* What was held before the step. *)
LEMMA Held ==
  ASSUME ScrobbleTyped
  PROVE  /\ file \in Seq(Play) /\ Len(file) \in Nat /\ DOMAIN file = 1..Len(file)
         /\ sender \in Senders /\ sender.batch \in Seq(Play) /\ Len(sender.batch) \in Nat
         /\ DOMAIN sender.batch = 1..Len(sender.batch) /\ sender.at \in Nat
<1>1. file \in Seq(Play) /\ sender \in Senders
  BY DEF ScrobbleTyped, Places
<1>2. sender.batch \in Seq(Play) /\ sender.at \in Nat
  BY <1>1, SenderFields
<1>3. QED
  BY <1>1, <1>2

(* It stops with nothing answered that the file still holds. *)
LEMMA RestsFresh ==
  ASSUME Rests, doubt' = TRUE \/ (~doubled' /\ PlayIds(file') \cap TakenIds' = {}) \/ (doubt /\ doubt' = doubt)
  PROVE  DoneIsSettled' /\ SentFresh' /\ Distinct(sender'.batch) /\ PlayIds(sender'.batch) = {}
<1>1. sender' = Idle /\ ~Sending'
  BY IdleIs DEF Rests, Sending
<1>2. Distinct(<<>>) /\ PlayIds(<<>>) = {}
  BY DEF Distinct, PlayIds
<1>3. QED
  BY <1>1, <1>2, IdleIs DEF DoneIsSettled, SentFresh, PlayIds

LEMMA LoadKeepsIds == ASSUME ScrobbleAssumption, ScrobbleTyped, IdsInv, Load PROVE IdsInv'
<1>1. ListenerStays /\ UNCHANGED <<file, torn, accepted, doubled, gone, doubt>> /\ sender.pc = "load"
  BY Loaded
<1>2. TakenIds' = TakenIds /\ ~Sending
  BY <1>1 DEF TakenIds, Sending
<1>3. ~doubt => ~doubled /\ PlayIds(file) \cap TakenIds = {}
  BY <1>2 DEF IdsInv, SentFresh, PlayIds
<1>4. Distinct(file) /\ Distinct(sender.batch)
  BY DEF IdsInv, IdsAreOwn
<1>5. CASE Rests
  <2>1. DoneIsSettled' /\ SentFresh' /\ Distinct(sender'.batch) /\ PlayIds(sender'.batch) = {}
    <3>1. doubt' = TRUE \/ (~doubled' /\ PlayIds(file') \cap TakenIds' = {}) \/ (doubt /\ doubt' = doubt)
      BY <1>1, <1>2, <1>3
    <3>2. QED
      BY <1>5, <3>1, RestsFresh
  <2>2. IdsAreOwn' /\ AllKept'
    BY <1>1, <1>2, <1>4, <2>1, SenderIds
  <2>3. QED
    BY <2>1, <2>2 DEF IdsInv
<1>6. ASSUME NEW pc \in {"expire", "send"}, NEW n \in 1..Len(file), file # <<>>,
             GoesOn(pc, SubSeq(file, 1, n), sender.at, "more")
      PROVE  IdsInv'
  <2>1. PICK s : s = SubSeq(file, 1, n)
    OBVIOUS
  <2>2. sender'.batch = s /\ sender'.pc = pc
    BY <1>6, <2>1 DEF GoesOn
  <2>3. /\ s \in Seq(Play) /\ Len(s) = n /\ n <= Len(file) /\ PlayIds(s) \subseteq PlayIds(file) /\ Distinct(s)
        /\ DOMAIN s \subseteq DOMAIN file /\ \A i \in DOMAIN s : s[i] = file[i]
    <3>1. n \in 0..Len(file) /\ n <= Len(file) /\ n \in Nat
      BY Held
    <3>2. /\ s \in Seq(Play) /\ Len(s) = n /\ PlayIds(s) \subseteq PlayIds(file) /\ Distinct(s)
          /\ \A i \in 1..n : s[i] = file[i]
      BY <1>4, <2>1, <3>1, Held, Parted
    <3>3. DOMAIN s = 1..n
      BY <3>2
    <3>4. QED
      BY <3>1, <3>2, <3>3, Held
  <2>4. IdsAreOwn' /\ AllKept'
    BY <1>1, <1>2, <1>4, <2>2, <2>3, SenderIds
  <2>5. Done' = 0 /\ Sending'
    BY <2>2 DEF Done, Sending
  <2>6. InStep'
    <3>1. IsFront(s)
      BY <2>1, <2>3 DEF IsFront
    <3>2. QED
      BY <1>1, <2>2, <3>1 DEF InStep, IsFront
  <2>7. DoneIsSettled'
    BY <2>5 DEF DoneIsSettled
  <2>8. ASSUME ~doubt
        PROVE  /\ \A i \in DOMAIN sender'.batch : sender'.batch[i].id \notin TakenIds'
               /\ \A i \in DOMAIN file' : file'[i].id \notin TakenIds'
    <3>1. \A i \in DOMAIN file : file[i].id \notin TakenIds
      BY <1>3, <2>8 DEF PlayIds
    <3>2. QED
      BY <1>1, <1>2, <2>2, <2>3, <3>1
  <2>9. SentFresh'
    BY <1>1, <1>3, <2>6, <2>8 DEF SentFresh
  <2>10. QED
    BY <2>4, <2>7, <2>9 DEF IdsInv
<1>7. QED
  BY <1>5, <1>6, Loaded

LEMMA SendKeepsIds == ASSUME ScrobbleAssumption, ScrobbleTyped, IdsInv, Send PROVE IdsInv'
<1> DEFINE b == sender.batch
<1>1. ListenerStays /\ UNCHANGED <<file, torn, gone>> /\ sender.pc = "send" /\ sender.account \in Accounts
  BY Sent DEF ScrobbleTyped, SenderStages
<1>2. Done = 0 /\ Sending
  BY <1>1 DEF Done, Sending
<1>3. ~doubt => /\ ~doubled /\ PlayIds(file) \cap TakenIds = {} /\ PlayIds(b) \cap TakenIds = {} /\ InStep
  <2>1. SUFFICES ASSUME ~doubt
                 PROVE  /\ ~doubled /\ InStep
                        /\ \A i \in DOMAIN file : file[i].id \notin TakenIds
                        /\ \A i \in DOMAIN b : b[i].id \notin TakenIds
    BY DEF PlayIds
  <2>2. /\ ~doubled /\ InStep
        /\ \A i \in DOMAIN b : i > 0 => b[i].id \notin TakenIds
        /\ \A i \in DOMAIN file : file[i].id \in TakenIds => \E j \in 1..0 : b[j].id = file[i].id
    BY <1>2, <2>1 DEF IdsInv, SentFresh
  <2>3. \A i \in DOMAIN b : i > 0
    BY Held
  <2>4. QED
    BY <2>2, <2>3
<1>4. Distinct(file) /\ Distinct(b) /\ b \in Seq(Play) /\ Len(b) \in Nat /\ DOMAIN b = 1..Len(b)
  BY Held DEF IdsInv, IdsAreOwn
<1>5. ASSUME Accept(b)
      PROVE  TakenIds' = TakenIds \cup PlayIds(b) /\ (~doubt => ~doubled')
  BY <1>1, <1>3, <1>4, <1>5, Accepted
<1>6. CASE Accept(b) /\ GoesOn("drop", b, sender.at, sender.then) /\ UNCHANGED doubt
  <2>1. sender'.batch = b /\ sender'.pc = "drop" /\ doubt' = doubt
    BY <1>6 DEF GoesOn
  <2>2. IdsAreOwn' /\ AllKept'
    BY <1>1, <1>4, <1>5, <1>6, <2>1, SenderIds
  <2>3. Done' = Len(b) /\ Sending'
    BY <2>1 DEF Done, Sending
  <2>4. \A i \in 1..Len(b) : b[i].id \in TakenIds'
    BY <1>4, <1>5, <1>6 DEF PlayIds
  <2>5. DoneIsSettled'
    BY <2>1, <2>3, <2>4 DEF DoneIsSettled
  <2>6. ~doubt => InStep'
    BY <1>1, <1>3, <2>1 DEF InStep, IsFront
  <2>7. ASSUME ~doubt, NEW i \in DOMAIN file, file[i].id \in TakenIds'
        PROVE  \E j \in 1..Len(b) : b[j].id = file[i].id
    <3>1. file[i].id \in PlayIds(b)
      BY <1>3, <1>5, <1>6, <2>7 DEF PlayIds
    <3>2. QED
      BY <1>4, <3>1 DEF PlayIds
  <2>8. \A i \in DOMAIN b : ~(i > Len(b))
    BY <1>4
  <2>9. SentFresh'
    BY <1>1, <1>5, <1>6, <2>1, <2>3, <2>6, <2>7, <2>8 DEF SentFresh
  <2>10. QED
    BY <2>2, <2>5, <2>9 DEF IdsInv
<1>7. CASE Accept(b) /\ Rests /\ doubt' = TRUE
  <2>1. DoneIsSettled' /\ SentFresh' /\ Distinct(sender'.batch) /\ PlayIds(sender'.batch) = {}
    BY <1>7, RestsFresh
  <2>2. IdsAreOwn' /\ AllKept'
    BY <1>1, <1>4, <1>5, <1>7, <2>1, SenderIds
  <2>3. QED
    BY <2>1, <2>2 DEF IdsInv
<1>8. ASSUME UNCHANGED <<accepted, doubled, doubt>> PROVE TakenIds' = TakenIds
  BY <1>8 DEF TakenIds
<1>9. CASE Rests /\ UNCHANGED <<accepted, doubled, doubt>>
  <2>1. DoneIsSettled' /\ SentFresh' /\ Distinct(sender'.batch) /\ PlayIds(sender'.batch) = {}
    <3>1. doubt' = TRUE \/ (~doubled' /\ PlayIds(file') \cap TakenIds' = {}) \/ (doubt /\ doubt' = doubt)
      BY <1>1, <1>3, <1>8, <1>9
    <3>2. QED
      BY <1>9, <3>1, RestsFresh
  <2>2. IdsAreOwn' /\ AllKept'
    BY <1>1, <1>4, <1>8, <1>9, <2>1, SenderIds
  <2>3. QED
    BY <2>1, <2>2 DEF IdsInv
<1>10. CASE GoesOn("each", b, 1, sender.then) /\ UNCHANGED <<accepted, doubled, doubt>>
  <2>1. sender'.batch = b /\ sender'.pc = "each" /\ sender'.at = 1
    BY <1>10 DEF GoesOn
  <2>2. IdsAreOwn' /\ AllKept'
    BY <1>1, <1>4, <1>8, <1>10, <2>1, SenderIds
  <2>3. Done' = 0 /\ Sending'
    BY <2>1 DEF Done, Sending
  <2>4. DoneIsSettled'
    BY <2>3 DEF DoneIsSettled
  <2>5. ~doubt => InStep'
    BY <1>1, <1>3, <2>1 DEF InStep, IsFront
  <2>6. ASSUME ~doubt
        PROVE  /\ \A i \in DOMAIN b : b[i].id \notin TakenIds'
               /\ \A i \in DOMAIN file : file[i].id \notin TakenIds'
    BY <1>3, <1>8, <1>10, <2>6 DEF PlayIds
  <2>7. SentFresh'
    BY <1>1, <1>3, <1>10, <2>1, <2>3, <2>5, <2>6 DEF SentFresh
  <2>8. QED
    BY <2>2, <2>4, <2>7 DEF IdsInv
<1>11. QED
  BY <1>6, <1>7, <1>9, <1>10, Sent

LEMMA SendEachKeepsIds == ASSUME ScrobbleAssumption, ScrobbleTyped, IdsInv, SendEach PROVE IdsInv'
<1> DEFINE b == sender.batch
           n == sender.at
<1>1. ListenerStays /\ UNCHANGED <<file, torn>> /\ sender.pc = "each" /\ sender.account \in Accounts
  BY OneSent DEF ScrobbleTyped, SenderStages
<1>2. Done = n - 1 /\ Sending
  BY <1>1 DEF Done, Sending
<1>3. /\ Distinct(file) /\ Distinct(b) /\ b \in Seq(Play) /\ Len(b) \in Nat /\ DOMAIN b = 1..Len(b)
      /\ DOMAIN file = 1..Len(file) /\ n \in 1..(Len(b) + 1)
  BY <1>1, Held DEF IdsInv, IdsAreOwn, ScrobbleTyped, SenderStages
<1>4. /\ \A i \in 1..(n - 1) : b[i].id \in gone \cup TakenIds
      /\ ~doubt => /\ ~doubled /\ InStep
                   /\ \A i \in DOMAIN b : i > n - 1 => b[i].id \notin TakenIds
                   /\ \A i \in DOMAIN file : file[i].id \in TakenIds => \E j \in 1..(n - 1) : b[j].id = file[i].id
  BY <1>2 DEF IdsInv, DoneIsSettled, SentFresh
<1>5. ASSUME UNCHANGED <<accepted, doubled>> PROVE TakenIds' = TakenIds
  BY <1>5 DEF TakenIds
<1>6. CASE /\ n = Len(b) + 1 /\ GoesOn("drop", b, n, sender.then)
           /\ UNCHANGED <<accepted, doubled, doubt, gone>>
  <2>1. sender'.batch = b /\ sender'.pc = "drop"
    BY <1>6 DEF GoesOn
  <2>2. IdsAreOwn' /\ AllKept'
    BY <1>1, <1>3, <1>5, <1>6, <2>1, SenderIds
  <2>3. Done' = n - 1 /\ Sending'
    BY <1>3, <1>6, <2>1 DEF Done, Sending
  <2>4. DoneIsSettled'
    BY <1>4, <1>5, <1>6, <2>1, <2>3 DEF DoneIsSettled
  <2>5. InStep' = InStep
    BY <1>1, <2>1 DEF InStep, IsFront
  <2>6. SentFresh'
    BY <1>1, <1>4, <1>5, <1>6, <2>1, <2>3, <2>5 DEF SentFresh
  <2>7. QED
    BY <2>2, <2>4, <2>6 DEF IdsInv
<1>7. CASE n \in 1..Len(b)
  <2>1. PICK p \in Play : p = b[n] /\ n \in DOMAIN b
    BY <1>3, <1>7
  <2>2. /\ <<p>> \in Seq(Play) /\ PlayIds(<<p>>) = {p.id} /\ p.id \in PlayIds(b)
        /\ \A i \in DOMAIN b : i # n => b[i].id # p.id
    BY <1>3, <2>1 DEF PlayIds, Distinct
  <2>3. ASSUME Accept(<<p>>)
        PROVE  TakenIds' = TakenIds \cup {p.id} /\ (~doubt => ~doubled')
    <3>1. /\ TakenIds' = TakenIds \cup {p.id} /\ (doubled' <=> doubled \/ {p.id} \cap TakenIds # {})
      BY <1>1, <2>2, <2>3, Accepted
    <3>2. n > n - 1
      BY <1>3
    <3>3. ~doubt => p.id \notin TakenIds /\ ~doubled
      BY <1>4, <2>1, <3>2
    <3>4. QED
      BY <3>1, <3>3
  <2>4. CASE /\ GoesOn("each", b, n + 1, sender.then) /\ UNCHANGED doubt
             /\ \/ Accept(<<p>>) /\ UNCHANGED gone
                \/ gone' = gone \cup {p.id} /\ UNCHANGED <<accepted, doubled>>
    <3>1. sender'.batch = b /\ sender'.pc = "each" /\ sender'.at = n + 1
      BY <2>4 DEF GoesOn
    <3>2. /\ TakenIds \subseteq TakenIds' /\ TakenIds' \subseteq TakenIds \cup {p.id} /\ gone \subseteq gone'
          /\ p.id \in gone' \cup TakenIds' /\ (~doubt => ~doubled')
      BY <1>4, <1>5, <2>3, <2>4
    <3>3. IdsAreOwn' /\ AllKept'
      BY <1>1, <1>3, <2>2, <3>1, <3>2, SenderIds
    <3>4. Done' = n /\ Sending'
      BY <1>3, <3>1 DEF Done, Sending
    <3>5. \A i \in 1..n : i \in 1..(n - 1) \/ i = n
      BY <1>3
    <3>6. DoneIsSettled'
      BY <1>4, <2>1, <3>1, <3>2, <3>4, <3>5 DEF DoneIsSettled
    <3>7. InStep' = InStep
      BY <1>1, <3>1 DEF InStep, IsFront
    <3>8. ASSUME ~doubt, NEW i \in DOMAIN b, i > n PROVE b[i].id \notin TakenIds'
      <4>1. i > n - 1 /\ i # n
        BY <1>3, <3>8
      <4>2. QED
        BY <1>4, <2>2, <3>2, <3>8, <4>1
    <3>9. ASSUME ~doubt, NEW i \in DOMAIN file, file[i].id \in TakenIds'
          PROVE  \E j \in 1..n : b[j].id = file[i].id
      <4>1. CASE file[i].id = p.id
        BY <1>3, <2>1, <4>1
      <4>2. CASE file[i].id \in TakenIds
        <5>1. PICK j \in 1..(n - 1) : b[j].id = file[i].id
          BY <1>4, <3>9, <4>2
        <5>2. j \in 1..n
          BY <1>3, <5>1
        <5>3. QED
          BY <5>1, <5>2
      <4>3. QED
        BY <3>2, <3>9, <4>1, <4>2
    <3>10. SentFresh'
      BY <1>1, <1>4, <2>4, <3>1, <3>2, <3>4, <3>7, <3>8, <3>9 DEF SentFresh
    <3>11. QED
      BY <3>3, <3>6, <3>10 DEF IdsInv
  <2>5. CASE /\ \E r \in {"error", "invalid"} : GoesOn("drop", AnsweredPlays, n, r)
             /\ UNCHANGED gone
             /\ \/ UNCHANGED <<accepted, doubled, doubt>>
                \/ Accept(<<p>>) /\ doubt' = TRUE
    <3>1. PICK a : a = AnsweredPlays
      OBVIOUS
    <3>2. /\ a \in Seq(Play) /\ Len(a) = n - 1 /\ PlayIds(a) \subseteq PlayIds(b) /\ Distinct(a)
          /\ DOMAIN a = 1..(n - 1) /\ DOMAIN a \subseteq DOMAIN b /\ \A i \in DOMAIN a : a[i] = b[i]
      <4>1. n - 1 \in 0..Len(b) /\ n - 1 \in Nat
        BY <1>3
      <4>2. a = SubSeq(b, 1, n - 1)
        BY <3>1 DEF AnsweredPlays
      <4>3. /\ a \in Seq(Play) /\ Len(a) = n - 1 /\ PlayIds(a) \subseteq PlayIds(b) /\ Distinct(a)
            /\ \A i \in 1..(n - 1) : a[i] = b[i]
        BY <1>3, <4>1, <4>2, Parted
      <4>4. DOMAIN a = 1..(n - 1)
        BY <4>3
      <4>5. QED
        BY <1>3, <4>1, <4>3, <4>4
    <3>3. sender'.batch = a /\ sender'.pc = "drop"
      BY <2>5, <3>1 DEF GoesOn
    <3>4. /\ TakenIds \subseteq TakenIds' /\ TakenIds' \subseteq TakenIds \cup {p.id} /\ gone' = gone
          /\ (~doubt' => doubt' = doubt /\ UNCHANGED <<accepted, doubled>>)
      BY <1>5, <2>3, <2>5
    <3>5. IdsAreOwn' /\ AllKept'
      BY <1>1, <1>3, <2>2, <3>2, <3>3, <3>4, SenderIds
    <3>6. Done' = n - 1 /\ Sending'
      BY <1>3, <3>2, <3>3 DEF Done, Sending
    <3>7. DoneIsSettled'
      BY <1>4, <3>2, <3>3, <3>4, <3>6 DEF DoneIsSettled
    <3>8. InStep => InStep'
      <4>1. CASE IsFront(b)
        <5>1. Len(b) <= Len(file) /\ SubSeq(file, 1, Len(b)) = b /\ Len(a) <= Len(b)
          BY <1>3, <3>2, <4>1 DEF IsFront
        <5>2. SubSeq(file, 1, Len(a)) = a
          <6>1. /\ file \in Seq(Play) /\ Len(file) \in Nat /\ Len(a) \in 0..Len(file) /\ Len(b) \in 0..Len(file)
                /\ Len(a) \in Nat
            BY <1>3, <3>2, <5>1, Held
          <6> DEFINE c == SubSeq(file, 1, Len(a))
          <6>2. /\ c \in Seq(Play) /\ Len(c) = Len(a) /\ \A i \in 1..Len(a) : c[i] = file[i]
            BY <6>1, Parted
          <6>3. \A i \in 1..Len(b) : b[i] = file[i]
            BY <5>1, <6>1, Parted
          <6> HIDE DEF c
          <6>4. DOMAIN c = 1..Len(a) /\ DOMAIN a = 1..Len(a)
            BY <3>2, <6>2
          <6>5. \A i \in 1..Len(a) : c[i] = a[i]
            BY <1>3, <3>2, <6>2, <6>3, <6>4
          <6>6. c = a
            BY <3>2, <6>2, <6>5
          <6>7. QED
            BY <6>6 DEF c
        <5>3. Len(a) <= Len(file)
          BY <1>3, <3>2, <5>1, Held
        <5>4. QED
          BY <1>1, <3>3, <5>2, <5>3 DEF InStep, IsFront
      <4>2. CASE PlayIds(b) \cap PlayIds(file) = {}
        BY <1>1, <3>2, <3>3, <4>2 DEF InStep
      <4>3. QED
        BY <4>1, <4>2 DEF InStep
    <3>9. ASSUME ~doubt'
          PROVE  /\ ~doubled' /\ InStep'
                 /\ \A i \in DOMAIN a : ~(i > n - 1)
                 /\ \A i \in DOMAIN file : file[i].id \in TakenIds' => \E j \in 1..(n - 1) : a[j].id = file[i].id
      <4>1. ~doubt /\ TakenIds' = TakenIds /\ doubled' = doubled
        BY <1>5, <3>4, <3>9
      <4>2. \A i \in DOMAIN a : ~(i > n - 1)
        BY <1>3, <3>2
      <4>3. QED
        BY <1>4, <3>2, <3>8, <4>1, <4>2
    <3>10. SentFresh'
      BY <1>1, <3>3, <3>6, <3>9 DEF SentFresh
    <3>11. QED
      BY <3>5, <3>7, <3>10 DEF IdsInv
  <2>6. n # Len(b) + 1
    BY <1>3, <1>7
  <2>7. \/ /\ GoesOn("each", b, n + 1, sender.then) /\ UNCHANGED doubt
           /\ \/ Accept(<<b[n]>>) /\ UNCHANGED gone
              \/ gone' = gone \cup {b[n].id} /\ UNCHANGED <<accepted, doubled>>
        \/ /\ \E r \in {"error", "invalid"} : GoesOn("drop", AnsweredPlays, n, r)
           /\ UNCHANGED gone
           /\ \/ UNCHANGED <<accepted, doubled, doubt>>
              \/ Accept(<<b[n]>>) /\ doubt' = TRUE
    BY <2>6, OneSent
  <2>8. QED
    BY <2>1, <2>4, <2>5, <2>7, Zenon
<1>8. QED
  BY <1>6, <1>7, OneSent

LEMMA DropKeepsIds == ASSUME ScrobbleAssumption, ScrobbleTyped, IdsInv, DropSent PROVE IdsInv'
<1> DEFINE b == sender.batch
<1>1. ListenerStays /\ UNCHANGED <<accepted, doubled>> /\ sender.pc \in {"drop", "expire"}
  BY SentDropped
<1>2. Sending /\ (sender.pc = "drop" => Done = Len(b)) /\ (sender.pc = "expire" => Done = 0) /\ TakenIds' = TakenIds
  BY <1>1 DEF Sending, Done, TakenIds
<1>3. /\ Distinct(file) /\ Distinct(b) /\ file \in Seq(Play) /\ b \in Seq(Play) /\ Len(b) \in Nat /\ Len(file) \in Nat
      /\ DOMAIN b = 1..Len(b)
  BY Held DEF IdsInv, IdsAreOwn
<1>4. Done \in 0..Len(b) /\ (sender.pc = "drop" => PlayIds(b) \subseteq gone \cup TakenIds)
  BY <1>1, <1>2, <1>3 DEF IdsInv, DoneIsSettled, PlayIds
<1>5. ~doubt => ~doubled /\ InStep /\ PlayIds(file) \cap TakenIds \subseteq PlayIds(b)
  <2>1. ASSUME ~doubt PROVE ~doubled /\ InStep
    BY <1>2, <2>1, Zenon DEF IdsInv, SentFresh
  <2>2. ASSUME ~doubt, NEW i \in DOMAIN file, file[i].id \in TakenIds PROVE file[i].id \in PlayIds(b)
    <3>1. PICK j \in 1..Done : b[j].id = file[i].id
      BY <2>2 DEF IdsInv, SentFresh
    <3>2. j \in DOMAIN b
      BY <1>3, <1>4
    <3>3. QED
      BY <3>1, <3>2 DEF PlayIds
  <2>3. QED
    BY <2>1, <2>2 DEF PlayIds
<1>6. CASE Rests /\ doubt' = TRUE /\ UNCHANGED <<file, torn, gone>>
  <2>1. DoneIsSettled' /\ SentFresh' /\ Distinct(sender'.batch) /\ PlayIds(sender'.batch) = {}
    BY <1>6, RestsFresh
  <2>2. IdsAreOwn' /\ AllKept'
    BY <1>1, <1>2, <1>3, <1>6, <2>1, SenderIds
  <2>3. QED
    BY <2>1, <2>2 DEF IdsInv
<1>7. CASE ~IsFront(b) /\ Rests /\ UNCHANGED <<file, torn, gone, doubt>>
  <2>1. DoneIsSettled' /\ SentFresh' /\ Distinct(sender'.batch) /\ PlayIds(sender'.batch) = {}
    <3>1. ~doubt => ~doubled' /\ PlayIds(file') \cap TakenIds' = {}
      BY <1>1, <1>2, <1>5, <1>7 DEF InStep
    <3>2. doubt' = doubt
      BY <1>7
    <3>3. QED
      BY <1>7, <3>1, <3>2, RestsFresh
  <2>2. IdsAreOwn' /\ AllKept'
    BY <1>1, <1>2, <1>3, <1>7, <2>1, SenderIds
  <2>3. QED
    BY <2>1, <2>2 DEF IdsInv
<1>8. CASE /\ IsFront(b) /\ file' = SubSeq(file, Len(b) + 1, Len(file)) /\ UNCHANGED doubt
           /\ gone' = IF sender.pc = "expire" THEN gone \cup PlayIds(b) ELSE gone
  <2>1. /\ Distinct(file') /\ PlayIds(b) \cap PlayIds(file') = {}
        /\ PlayIds(file) = PlayIds(b) \cup PlayIds(file')
    <3>1. Len(b) \in 0..Len(file) /\ SubSeq(file, 1, Len(b)) = b
      BY <1>3, <1>8 DEF IsFront
    <3>2. QED
      BY <1>3, <1>8, <3>1, Parted
  <2>2. gone \subseteq gone' /\ PlayIds(b) \subseteq gone' \cup TakenIds'
    BY <1>1, <1>2, <1>4, <1>8
  <2>3. ~doubt => ~doubled' /\ PlayIds(file') \cap TakenIds' = {}
    BY <1>1, <1>2, <1>5, <2>1
  <2>4. CASE Rests
    <3>1. doubt' = TRUE \/ (~doubled' /\ PlayIds(file') \cap TakenIds' = {}) \/ (doubt /\ doubt' = doubt)
      BY <1>8, <2>3
    <3>2. DoneIsSettled' /\ SentFresh' /\ Distinct(sender'.batch) /\ PlayIds(sender'.batch) = {}
      BY <2>4, <3>1, RestsFresh
    <3>3. IdsAreOwn' /\ AllKept'
      BY <1>1, <1>2, <2>1, <2>2, <3>2, SenderIds
    <3>4. QED
      BY <3>2, <3>3 DEF IdsInv
  <2>5. CASE GoesOn("load", b, sender.at, "more")
    <3>1. sender'.batch = b /\ sender'.pc = "load" /\ ~Sending'
      BY <2>5 DEF GoesOn, Sending
    <3>2. IdsAreOwn' /\ AllKept'
      BY <1>1, <1>2, <1>3, <2>1, <2>2, <3>1, SenderIds
    <3>3. DoneIsSettled' /\ SentFresh'
      BY <1>8, <2>3, <3>1 DEF DoneIsSettled, SentFresh, PlayIds
    <3>4. QED
      BY <3>2, <3>3 DEF IdsInv
  <2>6. Rests \/ GoesOn("load", b, sender.at, "more")
    BY SentDropped
  <2>7. QED
    BY <1>8, <2>4, <2>5, <2>6
<1>9. QED
  BY <1>6, <1>7, <1>8, SentDropped

-----------------------------------------------------------------------------
(* The accounts.  A step that leaves the file, the plays and the sender. *)
LEMMA NothingOwned == PlayIds(<<>>) = {} /\ \A a : OwnedBy(<<>>, a)
BY DEF OwnedBy, PlayIds

LEMMA StillOwned ==
  ASSUME OwnersInv, PlaysStay, cut' = cut, AccountsInv',
         ~cut => OwnedBy(file, FileAccount') /\ (mainPc' = "save" => OwnedBy(file, login')),
         ~cut /\ Serving => session' = sender.account,
         ~cut /\ Loading /\ (login' # NoAccount \/ session' \notin {NoAccount, sender.account}) => undated = <<>>
  PROVE  OwnersInv'
<1>1. UNCHANGED <<file, undated, sender, accepted>> /\ cut' = cut
  BY DEF PlaysStay
<1>2. Serving' = Serving /\ Loading' = Loading /\ Sending' = Sending
  BY <1>1 DEF Serving, Loading, Sending
<1>3. ~cut => OwnAccount /\ (Sending => OwnedBy(sender.batch, sender.account))
  BY DEF OwnersInv, OneOwner
<1>4. OwnAccount' = OwnAccount
  BY <1>1 DEF OwnAccount
<1>5. OneOwner'
  BY <1>1, <1>2, <1>3, <1>4 DEF OneOwner
<1>6. QED
  BY <1>5 DEF OwnersInv

LEMMA CallsKeepOwners ==
  ASSUME ScrobbleAssumption, ScrobbleTyped, OwnersInv, Calls
  PROVE  OwnersInv'
<1>1. PlaysStay /\ cut' = cut /\ UNCHANGED <<file, undated, sender>>
  BY CallsLeave DEF PlaysStay
<1>2. /\ mainPc # "forget" => session \in {NoAccount, owner}
      /\ mainPc = "forget" => session # NoAccount
      /\ mainPc = "save" => login # NoAccount
      /\ login # NoAccount => session = NoAccount /\ OwnedBy(undated, NoAccount)
      /\ session # NoAccount => OwnedBy(undated, session)
      /\ clock /\ mainPc # "date" => undated = <<>>
  BY DEF OwnersInv, AccountsInv
<1>3. ~cut => /\ OwnedBy(file, FileAccount) /\ (mainPc = "save" => OwnedBy(file, login))
              /\ Serving => session = sender.account
              /\ Loading /\ (login # NoAccount \/ session \notin {NoAccount, sender.account}) => undated = <<>>
  BY DEF OwnersInv, OneOwner
<1>4. /\ Serving => sender.account # NoAccount
      /\ NoAccount \notin Accounts
  BY DEF ScrobbleTyped, SenderStages, Serving, Loading, Sending, ScrobbleAssumption
(* The accounts stay; the main loop moves on. *)
<1>5. ASSUME UNCHANGED <<owner, session, login>>, mainPc \in {"run", "date"}, mainPc' \in {"run", "date"},
             clock' /\ mainPc' # "date" => clock /\ mainPc # "date"
      PROVE  OwnersInv'
  <2>1. AccountsInv'
    BY <1>1, <1>2, <1>5 DEF AccountsInv
  <2>2. FileAccount' = FileAccount
    BY <1>5 DEF FileAccount
  <2>3. QED
    BY <1>1, <1>3, <1>5, <2>1, <2>2, StillOwned
<1>6. CASE ClockSet
  <2>1. UNCHANGED <<owner, session, login>> /\ mainPc = "run" /\ mainPc' = "date"
    BY <1>6 DEF ClockSet, onDisk, memory
  <2>2. QED
    BY <1>5, <2>1
<1>7. CASE ClockLost
  <2>1. UNCHANGED <<owner, session, login>> /\ mainPc = "run" /\ mainPc' = "run" /\ clock' = FALSE
    BY <1>7 DEF ClockLost, onDisk, memory
  <2>2. QED
    BY <1>5, <2>1
<1>8. CASE BackoffOver
  <2>1. UNCHANGED <<owner, session, login, clock>> /\ mainPc = "run" /\ mainPc' = "run"
    BY <1>8 DEF BackoffOver, onDisk, dates
  <2>2. QED
    BY <1>5, <2>1
<1>9. CASE SendNow
  <2>1. UNCHANGED <<owner, session, login, clock>> /\ mainPc = "run" /\ mainPc' = "run"
    BY <1>9 DEF SendNow, onDisk, dates
  <2>2. QED
    BY <1>5, <2>1
<1>10. CASE Login
  <2>1. UNCHANGED <<owner, session, clock>> /\ mainPc = "run" /\ mainPc' = "run" /\ session = NoAccount /\ clock
    BY <1>10 DEF Login, MaySignIn, onDisk, dates
  <2>2. undated = <<>>
    BY <1>2, <2>1
  <2>3. AccountsInv'
    BY <1>1, <1>2, <2>1, <2>2, NothingOwned DEF AccountsInv
  <2>4. FileAccount' = FileAccount
    BY <2>1 DEF FileAccount
  <2>5. QED
    BY <1>1, <1>3, <2>1, <2>2, <2>3, <2>4, StillOwned
<1>11. CASE SignInFails
  <2>1. UNCHANGED <<owner, session, clock>> /\ mainPc = "run" /\ mainPc' = "run" /\ login' = NoAccount
    BY <1>11 DEF SignInFails, onDisk, dates
  <2>2. AccountsInv'
    BY <1>1, <1>2, <2>1 DEF AccountsInv
  <2>3. FileAccount' = FileAccount
    BY <2>1 DEF FileAccount
  <2>4. QED
    BY <1>1, <1>3, <2>1, <2>2, <2>3, StillOwned
<1>12. CASE SessionSaved
  <2>1. mainPc = "save" /\ mainPc' = "run" /\ login' = NoAccount /\ login # NoAccount /\ clock' = clock /\ session = NoAccount
    BY <1>2, <1>12 DEF SessionSaved, dates
  <2>2. ~cut => ~Serving
    BY <1>3, <1>4, <2>1
  <2>3. CASE UNCHANGED <<owner, session>>
    <3>1. AccountsInv'
      BY <1>1, <1>2, <2>1, <2>3 DEF AccountsInv
    <3>2. FileAccount' = FileAccount
      BY <2>1, <2>3 DEF FileAccount
    <3>3. QED
      BY <1>1, <1>3, <2>1, <2>2, <2>3, <3>1, <3>2, StillOwned
  <2>4. CASE owner' = login /\ session' = login
    <3>1. OwnedBy(undated, login)
      BY <1>2, <2>1 DEF OwnedBy
    <3>2. AccountsInv'
      BY <1>1, <1>2, <2>1, <2>4, <3>1 DEF AccountsInv
    <3>3. FileAccount' = login
      BY <2>1, <2>4 DEF FileAccount
    <3>4. QED
      BY <1>1, <1>3, <2>1, <2>2, <2>4, <3>2, <3>3, StillOwned
  <2>5. QED
    BY <1>12, <2>3, <2>4 DEF SessionSaved
<1>13. CASE Disconnect
  <2>1. mainPc = "run" /\ mainPc' = "forget" /\ session # NoAccount /\ UNCHANGED <<session, login, clock>>
    BY <1>13 DEF Disconnect, memory, dates
  <2>2. AccountsInv'
    BY <1>1, <1>2, <2>1 DEF AccountsInv
  <2>3. FileAccount' = FileAccount
    BY <1>2, <2>1 DEF FileAccount
  <2>4. QED
    BY <1>1, <1>3, <2>1, <2>2, <2>3, StillOwned
<1>14. QED
  BY <1>6, <1>7, <1>8, <1>9, <1>10, <1>11, <1>12, <1>13 DEF Calls

(* A play of the session's is kept: it is of the file's account. *)
LEMMA KeptOwned ==
  ASSUME ScrobbleTyped, NEW p \in Play, KeepPlay(p), ScrobbleAssumption, NEW a, OwnedBy(file, a), p.owner \in {a, NoAccount}
  PROVE  OwnedBy(file', a)
<1>1. file \in Seq(Play)
  BY DEF ScrobbleTyped, Places
<1>2. ASSUME NEW s \in Seq(Play), OwnedBy(s, a), file' = Append(s, p) PROVE OwnedBy(file', a)
  <2>1. \A i \in DOMAIN file' : (i \in DOMAIN s /\ file'[i] = s[i]) \/ file'[i] = p
    BY <1>2
  <2>2. QED
    BY <1>2, <2>1 DEF OwnedBy
<1>3. CASE KeptLast(p)
  BY <1>1, <1>2, <1>3 DEF KeptLast
<1>4. CASE KeptForOldest(p)
  <2>1. file # <<>> /\ file' = Append(Tail(file), p)
    BY <1>4 DEF KeptForOldest
  <2>2. PICK s \in Seq(Play) : s = Tail(file)
    BY <1>1, <2>1, TailOf
  <2>3. \A i \in DOMAIN s : i + 1 \in DOMAIN file /\ s[i] = file[i + 1]
    BY <1>1, <2>1, <2>2
  <2>4. OwnedBy(s, a)
    BY <2>3 DEF OwnedBy
  <2>5. QED
    BY <1>2, <2>1, <2>2, <2>4
<1>5. CASE LostInWrite(p)
  BY <1>5 DEF LostInWrite
<1>6. QED
  BY <1>3, <1>4, <1>5, Kept

LEMMA CountKeepsOwners == ASSUME ScrobbleAssumption, ScrobbleTyped, IdsInv, OwnersInv, Count PROVE OwnersInv'
<1> DEFINE p == [id |-> plays + 1, owner |-> session]
<1>1. /\ plays \in Nat /\ p \in Play /\ p.id = plays + 1 /\ p.owner = session /\ undated \in Seq(Play)
  BY DEF ScrobbleTyped, Places, Names, Play
<1>2. /\ UNCHANGED <<owner, session, login, mainPc, sender, clock, accepted, cut>> /\ mainPc = "run" /\ ~Loading
      /\ session # NoAccount \/ ~clock
  BY DEF Count, Counting, Loading
<1>3. /\ session \in {NoAccount, owner}
      /\ login # NoAccount => session = NoAccount /\ OwnedBy(undated, NoAccount)
      /\ session # NoAccount => OwnedBy(undated, session)
      /\ clock => undated = <<>>
  BY <1>2 DEF OwnersInv, AccountsInv
<1>4. ~cut => /\ OwnAccount /\ OwnedBy(file, FileAccount) /\ (Serving => session = sender.account)
              /\ Sending => OwnedBy(sender.batch, sender.account)
  BY DEF OwnersInv, OneOwner
<1>5. FileAccount' = FileAccount /\ FileAccount = owner /\ Loading' = Loading /\ Sending' = Sending /\ OwnAccount' = OwnAccount
  BY <1>2 DEF FileAccount, Loading, Sending, OwnAccount
<1>c. \/ undated' = Append(undated, p) /\ ~clock /\ UNCHANGED <<file, torn, gone, doubt, waiting, due>>
      \/ KeepPlay(p) /\ undated' = undated /\ clock
  BY DEF Count
<1> HIDE DEF p
<1>6. CASE undated' = Append(undated, p) /\ ~clock /\ UNCHANGED <<file, torn, gone, doubt, waiting, due>>
  <2>1. \A i \in DOMAIN undated' : (i \in DOMAIN undated /\ undated'[i] = undated[i]) \/ undated'[i] = p
    BY <1>1, <1>6
  <2>2. \A a : OwnedBy(undated, a) /\ session \in {a, NoAccount} => OwnedBy(undated', a)
    BY <1>1, <2>1 DEF OwnedBy
  <2>3. AccountsInv'
    BY <1>2, <1>3, <1>6, <2>2 DEF AccountsInv
  <2>4. Serving' = Serving
    BY <1>2, <1>6 DEF Serving, Loading, Sending
  <2>5. OneOwner'
    BY <1>2, <1>4, <1>5, <1>6, <2>4 DEF OneOwner
  <2>6. QED
    BY <2>3, <2>5 DEF OwnersInv
<1>7. CASE KeepPlay(p) /\ undated' = undated /\ clock
  <2>1. AccountsInv'
    BY <1>2, <1>3, <1>7 DEF AccountsInv
  <2>2. p.id \notin PlayIds(file) \cup PlayIds(sender.batch) \cup TakenIds
    <3>1. PlayIds(file) \cup PlayIds(sender.batch) \cup TakenIds \subseteq 1..plays /\ plays + 1 \notin 1..plays
      BY <1>1 DEF IdsInv, IdsAreOwn
    <3>2. QED
      BY <1>1, <3>1
  <2>3. PlayIds(file') \subseteq PlayIds(file) \cup {p.id}
    <3>1. UNCHANGED <<sender, accepted, doubled>>
      BY DEF Count
    <3>2. QED
      BY <1>1, <1>7, <2>2, <3>1, KeepsIds
  <2>4. Serving' => Serving
    BY <1>2, <1>5, <2>2, <2>3 DEF Serving
  <2>5. ~cut => OwnedBy(file', FileAccount')
    BY <1>1, <1>2, <1>3, <1>4, <1>5, <1>7, KeptOwned
  <2>6. OneOwner'
    BY <1>2, <1>4, <1>5, <2>4, <2>5 DEF OneOwner
  <2>7. QED
    BY <2>1, <2>6 DEF OwnersInv
<1>8. QED
  BY <1>6, <1>7, <1>c

LEMMA DateKeepsOwners == ASSUME ScrobbleAssumption, ScrobbleTyped, IdsInv, OwnersInv, Date PROVE OwnersInv'
<1>1. UNCHANGED <<owner, session, login, sender, clock, accepted, doubled, cut>> /\ mainPc = "date" /\ undated \in Seq(Play)
  BY DEF Date, ScrobbleTyped, Places
<1>2. /\ session \in {NoAccount, owner}
      /\ login # NoAccount => session = NoAccount /\ OwnedBy(undated, NoAccount)
      /\ session # NoAccount => OwnedBy(undated, session)
  BY <1>1 DEF OwnersInv, AccountsInv
<1>3. ~cut => /\ OwnAccount /\ OwnedBy(file, FileAccount) /\ (Serving => session = sender.account)
              /\ Sending => OwnedBy(sender.batch, sender.account)
              /\ Loading /\ (login # NoAccount \/ session \notin {NoAccount, sender.account}) => undated = <<>>
  BY DEF OwnersInv, OneOwner
<1>4. FileAccount = owner /\ Loading' = Loading /\ Sending' = Sending /\ OwnAccount' = OwnAccount
  BY <1>1 DEF FileAccount, Loading, Sending, OwnAccount
<1>5. CASE undated = <<>>
  <2>1. UNCHANGED <<undated, file>> /\ mainPc' = "run"
    BY <1>5 DEF Date
  <2>2. AccountsInv'
    BY <1>1, <1>2, <1>5, <2>1 DEF AccountsInv
  <2>3. Serving' = Serving /\ FileAccount' = owner
    BY <1>1, <2>1 DEF Serving, Loading, Sending, FileAccount
  <2>4. OneOwner'
    BY <1>1, <1>3, <1>4, <2>1, <2>3 DEF OneOwner
  <2>5. QED
    BY <2>2, <2>4 DEF OwnersInv
<1>6. CASE undated # <<>>
  <2>1. PICK p \in Play : p = Head(undated)
    BY <1>1, <1>6
  <2>2. undated' = Tail(undated) /\ mainPc' = "date"
    BY <1>1, <1>6 DEF Date
  <2>3. \A i \in DOMAIN undated' : i + 1 \in DOMAIN undated /\ undated'[i] = undated[i + 1]
    BY <1>1, <1>6, <2>2
  <2>4. /\ \A a : OwnedBy(undated, a) => OwnedBy(undated', a) /\ p.owner \in {a, NoAccount}
        /\ p.id \in PlayIds(undated)
    <3>1. 1 \in DOMAIN undated /\ p = undated[1]
      BY <1>1, <1>6, <2>1
    <3>2. QED
      BY <2>3, <3>1 DEF OwnedBy, PlayIds
  <2>5. AccountsInv'
    BY <1>1, <1>2, <2>2, <2>4 DEF AccountsInv
  <2>6. FileAccount' = owner
    BY <1>1, <2>2 DEF FileAccount
  <2>7. CASE session # NoAccount
    <3>1. KeepPlay(p)
      BY <1>6, <2>1, <2>7 DEF Date
    <3>2. p.id \notin PlayIds(file) \cup PlayIds(sender.batch) \cup TakenIds
      BY <2>4 DEF IdsInv, IdsAreOwn
    <3>3. PlayIds(file') \subseteq PlayIds(file) \cup {p.id}
      BY <1>1, <3>1, <3>2, KeepsIds
    <3>4. ASSUME ~cut, Serving' PROVE session = sender.account
      <4>1. CASE Loading
        BY <1>3, <1>6, <2>7, <3>4, <4>1
      <4>2. CASE ~Loading
        BY <1>1, <1>3, <1>4, <3>2, <3>3, <3>4, <4>2 DEF Serving
      <4>3. QED
        BY <4>1, <4>2
    <3>5. ~cut => OwnedBy(file', owner)
      BY <1>2, <1>3, <1>4, <2>4, <2>7, <3>1, KeptOwned
    <3>6. OneOwner'
      BY <1>1, <1>3, <1>4, <1>6, <2>2, <2>6, <3>4, <3>5 DEF OneOwner
    <3>7. QED
      BY <2>5, <3>6 DEF OwnersInv
  <2>8. CASE session = NoAccount
    <3>1. file' = file
      BY <1>6, <2>8 DEF Date
    <3>2. Serving' = Serving
      BY <1>1, <3>1 DEF Serving, Loading, Sending
    <3>3. OneOwner'
      BY <1>1, <1>3, <1>4, <1>6, <2>2, <2>6, <3>1, <3>2 DEF OneOwner
    <3>4. QED
      BY <2>5, <3>3 DEF OwnersInv
  <2>9. QED
    BY <2>7, <2>8
<1>7. QED
  BY <1>5, <1>6

LEMMA StartKeepsOwners == ASSUME ScrobbleAssumption, ScrobbleTyped, OwnersInv, StartSender PROVE OwnersInv'
<1>1. /\ UNCHANGED <<file, owner, session, login, undated, clock, mainPc, accepted, cut>> /\ session # NoAccount /\ mainPc = "run"
      /\ sender' = [Idle EXCEPT !.pc = "load", !.account = session]
  BY DEF StartSender, MaySend, onDisk, dates, history
<1>2. sender'.pc = "load" /\ sender'.account = session
  BY <1>1 DEF Idle
<1>3. Loading' /\ ~Sending' /\ FileAccount' = FileAccount /\ OwnAccount' = OwnAccount
  BY <1>1, <1>2 DEF Loading, Sending, FileAccount, OwnAccount
<1>4. AccountsInv' /\ login = NoAccount
  BY <1>1 DEF OwnersInv, AccountsInv
<1>5. OneOwner'
  BY <1>1, <1>2, <1>3, <1>4 DEF OwnersInv, OneOwner
<1>6. QED
  BY <1>4, <1>5 DEF OwnersInv

LEMMA SignedInKeepsOwners == ASSUME ScrobbleAssumption, ScrobbleTyped, OwnersInv, SignedIn PROVE OwnersInv'
<1>1. /\ UNCHANGED <<owner, session, login, undated, clock, sender, accepted>> /\ mainPc = "run" /\ mainPc' = "save"
      /\ login # NoAccount
  BY DEF SignedIn, dates
<1>2. \/ file' = <<>> /\ cut' = cut
      \/ cut' = TRUE
      \/ file' = file /\ cut' = cut /\ owner \in {NoAccount, login}
  BY DEF SignedIn, OtherOwner
<1>3. AccountsInv' /\ login # NoAccount /\ Loading' = Loading /\ Sending' = Sending /\ OwnAccount' = OwnAccount
  BY <1>1 DEF OwnersInv, AccountsInv, Loading, Sending, OwnAccount
<1>4. ASSUME ~cut'
      PROVE  OwnedBy(file', owner) /\ OwnedBy(file', login) /\ (Serving' => Serving)
  <2>1. CASE file' = <<>>
    BY <1>1, <2>1, NothingOwned DEF Serving, Loading, Sending
  <2>2. CASE file' = file /\ cut' = cut /\ owner \in {NoAccount, login}
    <3>1. OwnedBy(file, owner)
      BY <1>1, <1>4, <2>2 DEF OwnersInv, OneOwner, FileAccount
    <3>2. QED
      BY <1>1, <2>2, <3>1 DEF OwnedBy, Serving, Loading, Sending
  <2>3. QED
    BY <1>2, <1>4, <2>1, <2>2
<1>5. ~cut' => ~cut
  BY <1>2
<1>6. FileAccount' = owner
  BY <1>1 DEF FileAccount
<1>7. OneOwner'
  BY <1>1, <1>3, <1>4, <1>5, <1>6 DEF OwnersInv, OneOwner
<1>8. QED
  BY <1>3, <1>7 DEF OwnersInv

LEMMA FlushedKeepsOwners == ASSUME ScrobbleAssumption, ScrobbleTyped, OwnersInv, Flushed PROVE OwnersInv'
<1>1. /\ UNCHANGED <<file, owner, login, clock, mainPc, sender, accepted, cut>> /\ mainPc = "run"
      /\ sender.pc = "idle" /\ session' \in {session, NoAccount} /\ undated' \in {undated, <<>>}
  <2>1. UNCHANGED <<file, owner, login, clock, mainPc, sender, accepted, cut>> /\ mainPc = "run" /\ flushed # "none" /\ flushed' = "none"
    BY DEF Flushed
  <2>2. sender.pc = "idle"
    <3>1. ASSUME sender.pc # "idle" PROVE FALSE
      BY <2>1, <3>1 DEF ScrobbleTyped, SenderStages
    <3>2. QED
      BY <3>1
  <2>3. session' \in {session, NoAccount}
    BY DEF Flushed
  <2>4. undated' \in {undated, <<>>}
    BY Following DEF Flushed
  <2>5. QED
    BY <2>1, <2>2, <2>3, <2>4
<1>2. ~Loading' /\ ~Sending' /\ ~Serving' /\ OwnAccount' = OwnAccount /\ FileAccount' = FileAccount
  BY <1>1 DEF Loading, Sending, Serving, OwnAccount, FileAccount
<1>3. AccountsInv'
  BY <1>1, NothingOwned DEF OwnersInv, AccountsInv
<1>4. OneOwner'
  BY <1>1, <1>2 DEF OwnersInv, OneOwner
<1>5. QED
  BY <1>3, <1>4 DEF OwnersInv

LEMMA ForgottenKeepsOwners == ASSUME ScrobbleAssumption, ScrobbleTyped, OwnersInv, Forgotten PROVE OwnersInv'
<1>1. /\ UNCHANGED <<owner, login, clock, sender, accepted>> /\ mainPc = "forget" /\ mainPc' = "run" /\ session' = NoAccount
      /\ undated' \in {undated, <<>>}
      /\ \/ file' = <<>> /\ cut' = cut
         \/ cut' = TRUE
  <2>1. /\ UNCHANGED <<owner, login, clock, sender, accepted>> /\ mainPc = "forget" /\ mainPc' = "run" /\ session' = NoAccount
    BY DEF Forgotten
  <2>2. undated' \in {undated, <<>>}
    BY Following DEF Forgotten
  <2>3. \/ file' = <<>> /\ cut' = cut
        \/ cut' = TRUE
    BY DEF Forgotten
  <2>4. QED
    BY <2>1, <2>2, <2>3
<1>2. /\ session # NoAccount /\ login = NoAccount /\ login' = NoAccount /\ (clock => undated = <<>>)
  BY <1>1 DEF OwnersInv, AccountsInv
<1>3. AccountsInv'
  BY <1>1, <1>2 DEF AccountsInv
<1>4. ASSUME ~cut' PROVE file' = <<>> /\ ~cut /\ ~Serving'
  <2>1. file' = <<>> /\ ~cut
    BY <1>1, <1>4
  <2>2. QED
    BY <2>1, NothingOwned DEF Serving
<1>5. Sending' = Sending /\ OwnAccount' = OwnAccount
  BY <1>1 DEF Sending, OwnAccount
<1>6. OneOwner'
  BY <1>1, <1>2, <1>4, <1>5, NothingOwned DEF OwnersInv, OneOwner
<1>7. QED
  BY <1>3, <1>6 DEF OwnersInv

LEMMA CrashKeepsOwners == ASSUME ScrobbleAssumption, ScrobbleTyped, OwnersInv, Crash PROVE OwnersInv'
<1>1. /\ UNCHANGED <<file, owner, accepted>> /\ session' \in {owner, NoAccount} /\ login' = NoAccount /\ undated' = <<>>
      /\ mainPc' = "run" /\ sender' = Idle /\ cut' = (cut \/ (mainPc = "forget" /\ file # <<>>))
  BY DEF Crash
<1>2. ~Loading' /\ ~Sending' /\ ~Serving' /\ OwnAccount' = OwnAccount /\ FileAccount' = owner
  BY <1>1, IdleIs DEF Loading, Sending, Serving, OwnAccount, FileAccount
<1>3. AccountsInv'
  BY <1>1, NothingOwned DEF AccountsInv
<1>4. ~cut' => ~cut /\ (mainPc # "forget" \/ file = <<>>)
  BY <1>1
<1>5. ~cut' => OwnedBy(file', owner)
  BY <1>1, <1>4, NothingOwned DEF OwnersInv, OneOwner, FileAccount
<1>6. OneOwner'
  BY <1>1, <1>2, <1>4, <1>5 DEF OwnersInv, OneOwner
<1>7. QED
  BY <1>3, <1>6 DEF OwnersInv

(* A step of the sender: what it holds is the account's of the file, and what *)
(* Last.fm took of it was.                                                    *)
LEMMA SenderOwned ==
  ASSUME OwnersInv, ListenerStays,
         ~cut => /\ OwnAccount' /\ OwnedBy(file', FileAccount)
                 /\ Serving' => session = sender'.account
                 /\ ~Loading' \/ (login = NoAccount /\ session \in {NoAccount, sender'.account})
                 /\ Sending' => OwnedBy(sender'.batch, sender'.account),
         mainPc = "save" /\ OwnedBy(file, login) => OwnedBy(file', login)
  PROVE  OwnersInv'
<1>1. UNCHANGED <<owner, session, login, undated, clock, mainPc, cut>>
  BY DEF ListenerStays
<1>2. AccountsInv' /\ FileAccount' = FileAccount
  BY <1>1 DEF OwnersInv, AccountsInv, FileAccount
<1>3. OneOwner'
  BY <1>1, <1>2 DEF OwnersInv, OneOwner
<1>4. QED
  BY <1>2, <1>3 DEF OwnersInv

LEMMA TakenOwned ==
  ASSUME ScrobbleTyped, sender.account \in Accounts, OwnAccount, NEW s \in Seq(Play), Accept(s), OwnedBy(s, sender.account)
  PROVE  OwnAccount'
<1>1. \A r \in accepted' : r \in accepted \/ (r.account = sender.account /\ \E i \in DOMAIN s : r.play = s[i])
  BY Accepted
<1>2. QED
  BY <1>1 DEF OwnAccount, OwnedBy

LEMMA RestsOwned == ASSUME Rests PROVE ~Loading' /\ ~Sending' /\ ~Serving'
BY IdleIs DEF Rests, Loading, Sending, Serving

LEMMA LoadKeepsOwners == ASSUME ScrobbleAssumption, ScrobbleTyped, OwnersInv, Load PROVE OwnersInv'
<1>1. ListenerStays /\ UNCHANGED <<file, accepted>> /\ Loading
  BY Loaded DEF Loading
<1>2. ~cut => OwnAccount' /\ OwnedBy(file', FileAccount)
  BY <1>1 DEF OwnersInv, OneOwner, OwnAccount
<1>3. CASE Rests
  BY <1>1, <1>2, <1>3, RestsOwned, SenderOwned
<1>4. ASSUME NEW pc \in {"expire", "send"}, NEW n \in 1..Len(file), file # <<>>,
             GoesOn(pc, SubSeq(file, 1, n), sender.at, "more")
      PROVE  OwnersInv'
  <2>1. PICK s : s = SubSeq(file, 1, n)
    OBVIOUS
  <2>2. sender'.batch = s /\ sender'.pc = pc /\ sender'.account = sender.account
    BY <1>4, <2>1 DEF GoesOn
  <2>3. \A a : OwnedBy(file, a) => OwnedBy(s, a)
    <3>1. n \in 0..Len(file)
      BY Held
    <3>2. QED
      BY <2>1, <3>1, Held, Parted
  <2>4. ~Loading' /\ Sending'
    BY <2>2 DEF Loading, Sending
  <2>5. ~cut => session = sender.account
    BY <1>1, <1>4 DEF OwnersInv, OneOwner, Serving
  <2>6. sender.account \in Accounts /\ NoAccount \notin Accounts
    BY <1>1 DEF ScrobbleTyped, SenderStages, Loading, ScrobbleAssumption
  <2>7. ASSUME ~cut PROVE OwnedBy(s, sender.account)
    <3>1. FileAccount = session
      BY <2>5, <2>6, <2>7 DEF OwnersInv, AccountsInv, FileAccount
    <3>2. OwnedBy(file, session)
      BY <2>7, <3>1 DEF OwnersInv, OneOwner
    <3>3. QED
      BY <2>3, <2>5, <2>7, <3>2
  <2>8. QED
    BY <1>1, <1>2, <2>2, <2>4, <2>5, <2>7, SenderOwned
<1>5. QED
  BY <1>3, <1>4, Loaded

LEMMA SendKeepsOwners == ASSUME ScrobbleAssumption, ScrobbleTyped, OwnersInv, Send PROVE OwnersInv'
<1> DEFINE b == sender.batch
<1>1. ListenerStays /\ file' = file /\ Sending /\ ~Loading /\ sender.account \in Accounts /\ b \in Seq(Play)
  BY Sent, Held DEF Sending, Loading, ScrobbleTyped, SenderStages
<1>2. ~cut => /\ OwnAccount /\ OwnedBy(file, FileAccount) /\ OwnedBy(b, sender.account)
              /\ (PlayIds(b) \cap PlayIds(file) # {} => session = sender.account)
  BY <1>1 DEF OwnersInv, OneOwner, Serving
<1>3. ~cut => OwnAccount'
  <2>1. CASE Accept(b)
    BY <1>1, <1>2, <2>1, TakenOwned
  <2>2. CASE UNCHANGED <<accepted, doubled>>
    BY <1>2, <2>2 DEF OwnAccount
  <2>3. QED
    BY <2>1, <2>2, Sent
<1>4. CASE Rests
  BY <1>1, <1>2, <1>3, <1>4, RestsOwned, SenderOwned
<1>5. ASSUME NEW pc \in {"drop", "each"}, NEW at, GoesOn(pc, b, at, sender.then)
      PROVE  OwnersInv'
  <2>1. sender'.batch = b /\ sender'.pc = pc /\ sender'.account = sender.account
    BY <1>5 DEF GoesOn
  <2>2. ~Loading' /\ Sending' /\ (Serving' => PlayIds(b) \cap PlayIds(file) # {})
    BY <1>1, <2>1 DEF Loading, Sending, Serving
  <2>3. QED
    BY <1>1, <1>2, <1>3, <2>1, <2>2, SenderOwned
<1>6. QED
  BY <1>4, <1>5, Sent

LEMMA SendEachKeepsOwners == ASSUME ScrobbleAssumption, ScrobbleTyped, OwnersInv, SendEach PROVE OwnersInv'
<1> DEFINE b == sender.batch
           n == sender.at
<1>1. /\ ListenerStays /\ file' = file /\ Sending /\ ~Loading /\ sender.account \in Accounts /\ b \in Seq(Play)
      /\ Len(b) \in Nat /\ DOMAIN b = 1..Len(b) /\ n \in 1..(Len(b) + 1)
  BY OneSent, Held DEF Sending, Loading, ScrobbleTyped, SenderStages
<1>2. ~cut => /\ OwnAccount /\ OwnedBy(file, FileAccount) /\ OwnedBy(b, sender.account)
              /\ (PlayIds(b) \cap PlayIds(file) # {} => session = sender.account)
  BY <1>1 DEF OwnersInv, OneOwner, Serving
<1>3. ~cut => OwnAccount'
  <2>1. CASE n \in 1..Len(b) /\ Accept(<<b[n]>>)
    <3>1. PICK p \in Play : p = b[n]
      BY <1>1, <2>1
    <3>2. <<p>> \in Seq(Play) /\ Accept(<<p>>)
      BY <2>1, <3>1
    <3>3. \A a : OwnedBy(b, a) => OwnedBy(<<p>>, a)
      BY <1>1, <2>1, <3>1 DEF OwnedBy
    <3>4. QED
      BY <1>1, <1>2, <3>2, <3>3, TakenOwned
  <2>2. CASE UNCHANGED <<accepted, doubled>>
    BY <1>2, <2>2 DEF OwnAccount
  <2>3. QED
    BY <2>1, <2>2, OneSent
<1>4. ASSUME NEW s, NEW pc \in {"drop", "each"}, NEW at, NEW then, GoesOn(pc, s, at, then),
             PlayIds(s) \subseteq PlayIds(b), \A a : OwnedBy(b, a) => OwnedBy(s, a)
      PROVE  OwnersInv'
  <2>1. sender'.batch = s /\ sender'.pc = pc /\ sender'.account = sender.account
    BY <1>4 DEF GoesOn
  <2>2. ~Loading' /\ Sending' /\ (Serving' => PlayIds(b) \cap PlayIds(file) # {})
    BY <1>1, <1>4, <2>1 DEF Loading, Sending, Serving
  <2>3. QED
    BY <1>1, <1>2, <1>3, <1>4, <2>1, <2>2, SenderOwned
<1>5. PlayIds(AnsweredPlays) \subseteq PlayIds(b) /\ \A a : OwnedBy(b, a) => OwnedBy(AnsweredPlays, a)
  <2>1. n - 1 \in 0..Len(b)
    BY <1>1
  <2>2. QED
    BY <1>1, <2>1, Parted DEF AnsweredPlays
<1>6. \/ GoesOn("drop", b, n, sender.then)
      \/ GoesOn("each", b, n + 1, sender.then)
      \/ \E r \in {"error", "invalid"} : GoesOn("drop", AnsweredPlays, n, r)
  BY OneSent
<1>7. QED
  BY <1>4, <1>5, <1>6

LEMMA DropKeepsOwners == ASSUME ScrobbleAssumption, ScrobbleTyped, OwnersInv, DropSent PROVE OwnersInv'
<1> DEFINE b == sender.batch
<1>1. /\ ListenerStays /\ accepted' = accepted /\ Sending /\ ~Loading /\ sender.account \in Accounts /\ NoAccount \notin Accounts
      /\ sender.then = "more" => b # <<>>
  BY SentDropped DEF Sending, Loading, ScrobbleTyped, SenderStages, ScrobbleAssumption
<1>2. ~cut => /\ OwnAccount' /\ OwnedBy(file, FileAccount)
              /\ (PlayIds(b) \cap PlayIds(file) # {} => session = sender.account)
  BY <1>1 DEF OwnersInv, OneOwner, Serving, OwnAccount
<1>3. \A a : OwnedBy(file, a) => OwnedBy(file', a)
  <2>1. CASE file' = file
    BY <2>1
  <2>2. CASE IsFront(b) /\ file' = SubSeq(file, Len(b) + 1, Len(file))
    <3>1. Len(b) \in 0..Len(file)
      BY <2>2, Held DEF IsFront
    <3>2. QED
      BY <2>2, <3>1, Held, Parted
  <2>3. QED
    BY <2>1, <2>2, SentDropped
<1>4. CASE Rests
  BY <1>1, <1>2, <1>3, <1>4, RestsOwned, SenderOwned
<1>5. CASE IsFront(b) /\ sender.then = "more" /\ GoesOn("load", b, sender.at, "more")
  <2>1. sender'.pc = "load" /\ sender'.account = sender.account /\ ~Sending'
    BY <1>5 DEF GoesOn, Sending
  <2>2. PlayIds(b) \cap PlayIds(file) # {}
    <3>1. /\ b \in Seq(Play) /\ Len(b) \in Nat \ {0} /\ Len(b) <= Len(file) /\ b = SubSeq(file, 1, Len(b))
          /\ file \in Seq(Play) /\ Len(file) \in Nat
      <4>1. b \in Seq(Play) /\ file \in Seq(Play) /\ Len(file) \in Nat /\ Len(b) \in Nat /\ b # <<>>
        BY <1>1, <1>5, Held
      <4>2. Len(b) # 0
        BY <4>1
      <4>3. QED
        BY <1>5, <4>1, <4>2 DEF IsFront
    <3>2. 1 \in DOMAIN b /\ 1 \in DOMAIN file
      BY <3>1
    <3>3. b[1] = file[1]
      <4>1. Len(b) \in 0..Len(file) /\ 1 \in 1..Len(b)
        BY <3>1
      <4>2. \A i \in 1..Len(b) : SubSeq(file, 1, Len(b))[i] = file[i]
        BY <3>1, <4>1, Parted
      <4>3. QED
        BY <3>1, <4>1, <4>2
    <3>4. QED
      BY <3>2, <3>3 DEF PlayIds
  <2>3. ~cut => session = sender.account /\ session # NoAccount /\ login = NoAccount
    BY <1>1, <1>2, <2>2 DEF OwnersInv, AccountsInv
  <2>4. QED
    BY <1>1, <1>2, <1>3, <2>1, <2>3, SenderOwned
<1>6. QED
  BY <1>4, <1>5, SentDropped

-----------------------------------------------------------------------------
LEMMA ScrobbleStart == ASSUME ScrobbleAssumption, ScrobbleInit PROVE ScrobbleInv
<1>1. /\ file = <<>> /\ undated = <<>> /\ sender = Idle /\ accepted = {} /\ gone = {}
      /\ waiting = 0 /\ plays = 0 /\ signIns = 0 /\ crashes = 0
  BY DEF ScrobbleInit
<1>2. <<>> \in Seq(Play) /\ Len(<<>>) = 0
  OBVIOUS
<1>3. Places
  BY <1>1, <1>2, IdleIs DEF Places, ScrobbleAssumption
<1>4. Names /\ Flags
  BY DEF ScrobbleInit, Names, Flags
<1>5. SenderStages /\ Counted
  BY <1>1, IdleIs DEF ScrobbleInit, SenderStages, Sending, Counted
<1>6. IdsInv
  <2>1. Distinct(<<>>) /\ PlayIds(<<>>) = {} /\ TakenIds = {} /\ 1..0 = {} /\ ~Sending
    BY <1>1, IdleIs DEF Distinct, PlayIds, TakenIds, Sending
  <2>2. IdsAreOwn /\ AllKept
    BY <1>1, <2>1, IdleIs DEF IdsAreOwn, AllKept
  <2>3. DoneIsSettled /\ SentFresh
    BY <1>1, <2>1 DEF ScrobbleInit, DoneIsSettled, SentFresh
  <2>4. QED
    BY <2>2, <2>3 DEF IdsInv
<1>7. OwnersInv
  <2>1. ~Loading /\ ~Sending /\ ~Serving
    BY <1>1, IdleIs DEF Loading, Sending, Serving
  <2>2. AccountsInv
    BY DEF ScrobbleInit, AccountsInv
  <2>3. OneOwner
    BY <1>1, <2>1, NothingOwned DEF ScrobbleInit, OneOwner, OwnAccount
  <2>4. QED
    BY <2>2, <2>3 DEF OwnersInv
<1>8. QED
  BY <1>3, <1>4, <1>5, <1>6, <1>7 DEF ScrobbleInv, ScrobbleTyped

LEMMA ScrobbleSteps ==
  ASSUME ScrobbleAssumption, ScrobbleInv, [ScrobbleNext]_scrobbleVars
  PROVE  ScrobbleInv'
<1> USE DEF ScrobbleInv
<1>1. CASE Calls
  <2>1. IdsInv'
    BY <1>1, CallsLeave, CallsKeepIds
  <2>2. QED
    BY <1>1, <2>1, CallsTyped, CallsKeepOwners
<1>2. CASE Count
  BY <1>2, CountTyped, CountKeepsIds, CountKeepsOwners
<1>3. CASE Date
  BY <1>3, DateTyped, DateKeepsIds, DateKeepsOwners
<1>4. CASE StartSender
  BY <1>4, StartSenderTyped, StartKeepsIds, StartKeepsOwners
<1>5. CASE SignedIn
  BY <1>5, SignedInTyped, ShrinksKeepIds, SignedInKeepsOwners
<1>6. CASE Flushed
  BY <1>6, FlushedTyped, ShrinksKeepIds, FlushedKeepsOwners
<1>7. CASE Forgotten
  BY <1>7, ForgottenTyped, ShrinksKeepIds, ForgottenKeepsOwners
<1>8. CASE Crash
  BY <1>8, CrashTyped, ShrinksKeepIds, CrashKeepsOwners
<1>9. CASE Load
  BY <1>9, LoadTyped, LoadKeepsIds, LoadKeepsOwners
<1>10. CASE Send
  BY <1>10, SendTyped, SendKeepsIds, SendKeepsOwners
<1>11. CASE SendEach
  BY <1>11, SendEachTyped, SendEachKeepsIds, SendEachKeepsOwners
<1>12. CASE DropSent
  BY <1>12, DropSentTyped, DropKeepsIds, DropKeepsOwners
<1>13. CASE UNCHANGED scrobbleVars
  <2>1. PlaysStay /\ UNCHANGED <<owner, session, login, clock, mainPc, cut>>
    BY <1>13 DEF scrobbleVars, onDisk, memory, dates, counts, history, PlaysStay
  <2>2. Places' /\ Names'
    BY <1>13 DEF ScrobbleTyped, Places, Names, scrobbleVars, onDisk, memory, dates, counts, history
  <2>3. Flags'
    BY <1>13 DEF ScrobbleTyped, Flags, scrobbleVars, onDisk, memory, dates, counts, history
  <2>4. SenderStages' /\ Counted'
    BY <1>13 DEF ScrobbleTyped, SenderStages, Sending, Counted, scrobbleVars, onDisk, memory, dates, counts, history
  <2>5. IdsInv'
    BY <2>1, CallsKeepIds
  <2>6. OwnersInv'
    BY <2>1 DEF PlaysStay, OwnersInv, AccountsInv, OneOwner, FileAccount, Serving, Loading, Sending, OwnAccount
  <2>7. QED
    BY <2>2, <2>3, <2>4, <2>5, <2>6 DEF ScrobbleTyped
<1>14. QED
  <2>1. CASE Listener
    BY <1>1, <1>2, <2>1 DEF Listener, Calls
  <2>2. CASE Scrobbling
    BY <1>1, <1>3, <1>4, <1>5, <1>6, <1>7, <2>2 DEF Scrobbling, Calls
  <2>3. CASE Sender
    BY <1>9, <1>10, <1>11, <1>12, <2>3 DEF Sender
  <2>4. QED
    BY <1>8, <1>13, <2>1, <2>2, <2>3 DEF ScrobbleNext

LEMMA ScrobblesAreSafe == ASSUME ScrobbleInv PROVE EachPlayOnce
<1>1. SentToOwner
  BY DEF ScrobbleInv, OwnersInv, OneOwner, SentToOwner
<1>2. NothingVanishes
  <2>1. file \in Seq(Play) /\ undated \in Seq(Play)
    BY DEF ScrobbleInv, ScrobbleTyped, Places
  <2>2. PlayIds(file \o undated) = PlayIds(file) \cup PlayIds(undated)
    BY <2>1, Joined
  <2>3. \A n \in TakenIds : \E r \in accepted : r.play.id = n
    BY DEF TakenIds
  <2>4. QED
    BY <2>2, <2>3 DEF ScrobbleInv, IdsInv, AllKept, KeptIds, NothingVanishes
<1>3. SentOnce
  BY DEF ScrobbleInv, IdsInv, SentFresh, SentOnce
<1>4. ScrobbleTypeOK
  <2>1. Places /\ Names /\ Flags
    BY DEF ScrobbleInv, ScrobbleTyped
  <2>2. QED
    BY <2>1 DEF Places, Names, Flags, Senders, ScrobbleTypeOK
<1>5. OneSender /\ WaitingIsKnown
  BY DEF ScrobbleInv, ScrobbleTyped, SenderStages, Counted, OneSender, WaitingIsKnown
<1>6. QED
  BY <1>1, <1>2, <1>3, <1>4, <1>5 DEF EachPlayOnce, SenderInv

(* A counted play waits, was taken or was dropped by a rule; Last.fm gets it  *)
(* twice only when an answer or the drop after it was lost, and never for     *)
(* another account while no forgetting was cut short; whatever the cap, the   *)
(* size of a batch and the number of plays, sign-ins and crashes              *)
(* (scrobbling.rs, platform scrobble.rs and lastfm.rs).                       *)
THEOREM PlaysArriveOnce ==
  ASSUME ScrobbleAssumption
  PROVE  ScrobbleSpec => []EachPlayOnce
<1>1. ScrobbleInit => ScrobbleInv
  BY ScrobbleStart
<1>2. ScrobbleInv /\ [ScrobbleNext]_scrobbleVars => ScrobbleInv'
  BY ScrobbleSteps
<1>3. ScrobbleInv => EachPlayOnce
  BY ScrobblesAreSafe
<1>4. QED
  BY <1>1, <1>2, <1>3, PTL DEF ScrobbleSpec
==============================================================================
