----------------------------- MODULE Scrobbles -----------------------------
(***************************************************************************)
(* Counted plays on their way to Last.fm (scrobbling.rs, platform          *)
(* scrobble.rs and lastfm.rs): the file they wait in, the account they     *)
(* belong to, the sender thread, and crashes at any step.                  *)
(*                                                                         *)
(* The main thread works in steps where a crash can fall between two       *)
(* writes; the sender interleaves with it, one file operation or one       *)
(* answer a step.  Between two instructions of the sender no play is       *)
(* counted: a play takes at least 15 s of listening.  The settings that    *)
(* keep and send plays stay on.                                            *)
(***************************************************************************)
EXTENDS Naturals, Sequences

CONSTANTS
  Accounts, NoAccount,
  QueueMax,     \* QUEUE_MAX
  Batch,        \* BATCH
  MaxPlays,     \* bound: plays counted
  MaxSignIns,   \* bound: sign-ins, Disconnects and times set by hand
  MaxCrashes,   \* bound: crashes
  WritesFail,   \* whether a write of a file may fail
  LogToo        \* Settings.scrobble_log: plays count without an account too

ScrobbleAssumption ==
  /\ NoAccount \notin Accounts
  /\ QueueMax \in Nat \ {0} /\ Batch \in Nat \ {0}
  /\ MaxPlays \in Nat /\ MaxSignIns \in Nat /\ MaxCrashes \in Nat
  /\ WritesFail \in BOOLEAN /\ LogToo \in BOOLEAN

VARIABLES
  file, torn,       \* scrobbles.jsonl: its complete lines, and whether a torn one follows
  owner, key,       \* lastfm.json: the account it names, and whether with a key
  session,          \* LastFm.session
  waiting, flushing, failed, due,   \* LastFm: its counter, flag, failures, next_flush
  undated, clock,   \* scrobbles_unstamped, and whether the wall clock can be trusted
  login,            \* the account of the sign-in request under way
  mainPc,           \* the main thread: "run", or between two writes
  sender,           \* the sender thread
  flushed,          \* its answer on the channel
  plays, signIns, crashes,   \* counts
  accepted, doubled,          \* history: what Last.fm took, whether twice
  gone,                       \* history: plays dropped by a rule
  doubt, cut                  \* history: an answer or a drop was lost; a forgetting was cut short

onDisk  == <<file, torn, owner, key>>
memory  == <<session, waiting, flushing, failed, due, login>>
dates   == <<undated, clock>>
counts  == <<plays, signIns, crashes>>
history == <<accepted, doubled, gone, doubt, cut>>
scrobbleVars == <<onDisk, memory, dates, mainPc, sender, flushed, counts, history>>

Play == [id : Nat, owner : Accounts \cup {NoAccount}]
Idle == [pc |-> "idle", account |-> NoAccount, batch |-> <<>>, at |-> 0, then |-> "more"]
PlayIds(s) == {s[i].id : i \in DOMAIN s}

ScrobbleInit ==
  /\ file = <<>> /\ torn = FALSE /\ owner = NoAccount /\ key = FALSE
  /\ session = NoAccount /\ waiting = 0 /\ flushing = FALSE /\ failed = FALSE /\ due = TRUE
  /\ undated = <<>> /\ clock = FALSE
  /\ login = NoAccount /\ mainPc = "run" /\ sender = Idle /\ flushed = "none"
  /\ plays = 0 /\ signIns = 0 /\ crashes = 0
  /\ accepted = {} /\ doubled = FALSE /\ gone = {} /\ doubt = FALSE /\ cut = FALSE

-----------------------------------------------------------------------------
(* The main thread. *)

(* Queue::push: one appended line, on a line of its own after a torn one; at  *)
(* the cap a rewrite without the oldest.                                      *)
Push(p) == IF Len(file) >= QueueMax THEN Append(Tail(file), p) ELSE Append(file, p)

\* What is dated and without an account goes to the log alone.
Counting == mainPc = "run" /\ sender.pc # "load" /\ (session # NoAccount \/ (LogToo /\ ~clock))
\* keep_scrobble; a write that fails loses the play, and may leave a torn line.
KeepPlay(p) ==
  \/ /\ file' = Push(p) /\ torn' = FALSE
     /\ gone' = IF Len(file) >= QueueMax THEN gone \cup {Head(file).id} ELSE gone
     /\ doubt' = (doubt \/ (Len(file) >= QueueMax /\ sender.pc # "idle"))
     /\ waiting' = waiting + 1 /\ due' = (due \/ ~failed)
  \/ /\ WritesFail /\ torn' \in {torn, Len(file) < QueueMax} /\ gone' = gone \cup {p.id}
     /\ UNCHANGED <<file, doubt, waiting, due>>
(* scrobble_tick: a play that counts is kept for the account there is, or     *)
(* waits for the clock that dates it.                                         *)
Count ==
  /\ Counting /\ plays < MaxPlays /\ plays' = plays + 1
  /\ IF ~clock
       THEN /\ undated' = Append(undated, [id |-> plays + 1, owner |-> session])
            /\ UNCHANGED <<file, torn, gone, doubt, waiting, due>>
       ELSE KeepPlay([id |-> plays + 1, owner |-> session]) /\ UNCHANGED undated
  /\ UNCHANGED <<owner, key, session, flushing, failed, login, mainPc, sender, flushed, signIns, clock,
                 crashes, accepted, doubled, cut>>
(* The clock is set; each play that waited for it is kept, when there is an   *)
(* account, before anything else happens.                                     *)
ClockSet ==
  /\ mainPc = "run" /\ ~clock /\ clock' = TRUE /\ mainPc' = "date"
  /\ UNCHANGED <<onDisk, memory, undated, sender, flushed, counts, history>>
(* "A time set by hand is never trusted." *)
ClockLost ==
  /\ mainPc = "run" /\ clock /\ clock' = FALSE /\ signIns < MaxSignIns /\ signIns' = signIns + 1
  /\ UNCHANGED <<onDisk, memory, undated, mainPc, sender, flushed, plays, crashes, history>>
Date ==
  /\ mainPc = "date"
  /\ IF undated = <<>> THEN mainPc' = "run" /\ UNCHANGED <<undated, file, torn, gone, doubt, waiting, due>>
     ELSE /\ undated' = Tail(undated) /\ UNCHANGED mainPc
          /\ IF session # NoAccount THEN KeepPlay(Head(undated))
             ELSE gone' = gone \cup {Head(undated).id} /\ UNCHANGED <<file, torn, doubt, waiting, due>>
  /\ UNCHANGED <<owner, key, session, flushing, failed, login, clock, sender, flushed, counts, accepted,
                 doubled, cut>>
\* Without an account and without the log nothing is followed.
Dropped(s) == IF LogToo \/ s # NoAccount THEN <<>> ELSE undated
Followed(s) == IF LogToo \/ s # NoAccount THEN undated ELSE <<>>

(* lastfm_tick: whatever waits is sent, by one thread at a time. *)
MaySend == session # NoAccount /\ clock /\ waiting # 0 /\ due /\ ~flushing
StartSender ==
  /\ mainPc = "run" /\ MaySend
  /\ flushing' = TRUE
  /\ sender' = [Idle EXCEPT !.pc = "load", !.account = session]
  /\ UNCHANGED <<onDisk, session, waiting, failed, due, login, dates, mainPc, flushed, counts, history>>

(* lastfm_reply(Flushed): the file is counted again. *)
StillWaits == Len(file)
Flushed ==
  /\ mainPc = "run" /\ flushed # "none" /\ flushed' = "none"
  /\ flushing' = FALSE /\ waiting' = StillWaits
  /\ failed' = CASE flushed = "sent" -> FALSE [] flushed = "error" -> TRUE [] OTHER -> failed
  /\ due' = (due /\ flushed # "error")
  /\ IF flushed = "invalid" THEN key' = FALSE /\ session' = NoAccount ELSE UNCHANGED <<key, session>>
  /\ undated' = Followed(session') /\ gone' = gone \cup PlayIds(Dropped(session'))
  /\ UNCHANGED <<file, torn, owner, login, clock, mainPc, sender, counts, accepted, doubled, doubt, cut>>

BackoffOver ==
  /\ mainPc = "run" /\ ~due /\ due' = TRUE
  /\ UNCHANGED <<onDisk, session, waiting, flushing, failed, login, dates, mainPc, sender, flushed, counts,
                 history>>

SendNow ==
  /\ mainPc = "run" /\ session # NoAccount /\ failed
  /\ failed' = FALSE /\ due' = TRUE
  /\ UNCHANGED <<onDisk, session, waiting, flushing, login, dates, mainPc, sender, flushed, counts, history>>

(* Offered while no account is connected; certificates need the right date. *)
MaySignIn == session = NoAccount /\ login = NoAccount /\ clock
Login ==
  /\ mainPc = "run" /\ MaySignIn /\ signIns < MaxSignIns
  /\ signIns' = signIns + 1 /\ login' \in Accounts
  /\ UNCHANGED <<onDisk, session, waiting, flushing, failed, due, dates, mainPc, sender, flushed, plays, crashes,
                 history>>

(* lastfm_reply(Session): the plays of another account are dropped before the *)
(* sign-in is saved; an error of that drop is not looked at.                  *)
OtherOwner == owner \notin {NoAccount, login}
SignedIn ==
  /\ mainPc = "run" /\ login # NoAccount /\ mainPc' = "save"
  /\ IF OtherOwner
       THEN /\ waiting' = 0
            /\ \/ file' = <<>> /\ torn' = FALSE /\ gone' = gone \cup PlayIds(file) /\ UNCHANGED cut
               \/ WritesFail /\ file # <<>> /\ cut' = TRUE /\ UNCHANGED <<file, torn, gone>>
       ELSE UNCHANGED <<waiting, file, torn, gone, cut>>
  /\ UNCHANGED <<owner, key, session, flushing, failed, due, login, dates, sender, flushed, counts,
                 accepted, doubled, doubt>>
SessionSaved ==
  /\ mainPc = "save" /\ mainPc' = "run" /\ login' = NoAccount
  /\ \/ owner' = login /\ key' = TRUE /\ session' = login /\ failed' = FALSE
     \/ WritesFail /\ UNCHANGED <<owner, key, session, failed>>
  /\ UNCHANGED <<file, torn, waiting, flushing, due, dates, sender, flushed, counts, history>>
SignInFails ==
  /\ mainPc = "run" /\ login # NoAccount /\ login' = NoAccount
  /\ UNCHANGED <<onDisk, session, waiting, flushing, failed, due, dates, mainPc, sender, flushed, counts, history>>

(* lastfm_forget: the session file goes first, then the plays. *)
Disconnect ==
  /\ mainPc = "run" /\ session # NoAccount /\ signIns < MaxSignIns
  /\ signIns' = signIns + 1 /\ mainPc' = "forget"
  /\ \/ owner' = NoAccount /\ key' = FALSE
     \/ WritesFail /\ UNCHANGED <<owner, key>>
  /\ UNCHANGED <<file, torn, memory, dates, sender, flushed, plays, crashes, history>>
Forgotten ==
  /\ mainPc = "forget" /\ mainPc' = "run"
  /\ session' = NoAccount /\ waiting' = 0 /\ failed' = FALSE
  /\ undated' = Followed(NoAccount)
  /\ \/ file' = <<>> /\ torn' = FALSE /\ gone' = gone \cup PlayIds(file \o Dropped(NoAccount)) /\ UNCHANGED cut
     \/ WritesFail /\ file # <<>> /\ gone' = gone \cup PlayIds(Dropped(NoAccount)) /\ cut' = TRUE
        /\ UNCHANGED <<file, torn>>
  /\ UNCHANGED <<owner, key, clock, flushing, due, login, sender, flushed, counts, accepted, doubled, doubt>>

-----------------------------------------------------------------------------
(* The sender thread (flush). *)

SenderKeeps == UNCHANGED <<owner, key, memory, dates, mainPc, counts, cut>>
Answers(r) == flushed' = r /\ sender' = Idle

(* The plays at the front that are too old are dropped, else a batch is sent. *)
Load ==
  /\ sender.pc = "load"
  /\ \/ file = <<>> /\ Answers("sent")
     \/ \E stale \in 1..Len(file) :
          sender' = [sender EXCEPT !.pc = "expire", !.batch = SubSeq(file, 1, stale), !.then = "more"]
          /\ UNCHANGED flushed
     \/ /\ file # <<>>
        /\ sender' = [sender EXCEPT !.pc = "send", !.then = "more",
                                    !.batch = SubSeq(file, 1, IF Len(file) < Batch THEN Len(file)
                                                              ELSE Batch)]
        /\ UNCHANGED flushed
  /\ SenderKeeps /\ UNCHANGED <<file, torn, accepted, doubled, gone, doubt>>

(* Last.fm takes the plays. *)
Accept(s) ==
  /\ accepted' = accepted \cup {[play |-> s[i], account |-> sender.account] : i \in DOMAIN s}
  /\ doubled' = (doubled \/ \E r \in accepted : r.play.id \in PlayIds(s))

(* The answer to a batch: taken; taken but the answer lost; refused for the    *)
(* session, for now, or for a play in it, and then sent one by one.            *)
Send ==
  /\ sender.pc = "send"
  /\ \/ Accept(sender.batch) /\ sender' = [sender EXCEPT !.pc = "drop"] /\ UNCHANGED <<flushed, doubt>>
     \/ Accept(sender.batch) /\ Answers("error") /\ doubt' = TRUE
     \/ \E r \in {"error", "invalid"} : Answers(r) /\ UNCHANGED <<accepted, doubled, doubt>>
     \/ sender' = [sender EXCEPT !.pc = "each", !.at = 1]
        /\ UNCHANGED <<flushed, accepted, doubled, doubt>>
  /\ SenderKeeps /\ UNCHANGED <<file, torn, gone>>

(* One by one: what was answered before an error leaves the queue. *)
AnsweredPlays == SubSeq(sender.batch, 1, sender.at - 1)
SendEach ==
  /\ sender.pc = "each"
  /\ IF sender.at > Len(sender.batch)
       THEN sender' = [sender EXCEPT !.pc = "drop"] /\ UNCHANGED <<accepted, doubled, doubt, gone>>
       ELSE LET p == sender.batch[sender.at]
                failing(r) == [sender EXCEPT !.pc = "drop", !.batch = AnsweredPlays, !.then = r]
            IN \/ /\ Accept(<<p>>) /\ sender' = [sender EXCEPT !.at = @ + 1]
                  /\ UNCHANGED <<doubt, gone>>
               \/ /\ gone' = gone \cup {p.id} /\ sender' = [sender EXCEPT !.at = @ + 1]
                  /\ UNCHANGED <<accepted, doubled, doubt>>
               \/ /\ \E r \in {"error", "invalid"} : sender' = failing(r)
                  /\ UNCHANGED <<accepted, doubled, doubt, gone>>
               \/ /\ Accept(<<p>>) /\ sender' = failing("error") /\ doubt' = TRUE
                  /\ UNCHANGED gone
  /\ SenderKeeps /\ UNCHANGED <<file, torn, flushed>>

(* drop_sent: only while the front of the file still is what was sent. *)
\* Plausible bug: as many plays are dropped as were sent.
IsFront_Count(s) == Len(s) <= Len(file)
IsFront(s) == Len(s) <= Len(file) /\ SubSeq(file, 1, Len(s)) = s
DropSent ==
  /\ sender.pc \in {"drop", "expire"}
  /\ \/ /\ IsFront(sender.batch)
        /\ file' = SubSeq(file, Len(sender.batch) + 1, Len(file)) /\ torn' = FALSE
        /\ gone' = IF sender.pc = "expire" THEN gone \cup PlayIds(sender.batch) ELSE gone
        /\ IF sender.then = "more" THEN sender' = [sender EXCEPT !.pc = "load"] /\ UNCHANGED flushed
           ELSE Answers(sender.then)
        /\ UNCHANGED doubt
     \/ /\ ~IsFront(sender.batch) /\ Answers(IF sender.then = "more" THEN "sent" ELSE sender.then)
        /\ UNCHANGED <<file, torn, gone, doubt>>
     \/ /\ WritesFail /\ Answers(IF sender.then = "more" THEN "error" ELSE sender.then)
        /\ doubt' = TRUE /\ UNCHANGED <<file, torn, gone>>
  /\ SenderKeeps /\ UNCHANGED <<accepted, doubled>>

-----------------------------------------------------------------------------
(* A crash: the disk stays, perhaps with the torn line of a play being pushed; *)
(* LastFm::load reads it.                                                      *)
Crash ==
  /\ crashes < MaxCrashes /\ crashes' = crashes + 1
  /\ torn' \in {torn, (mainPc = "run" \/ mainPc = "date")}
  /\ session' = (IF key THEN owner ELSE NoAccount) /\ waiting' = Len(file)
  /\ flushing' = FALSE /\ failed' = FALSE /\ due' = TRUE /\ login' = NoAccount
  /\ undated' = <<>> /\ gone' = gone \cup PlayIds(undated) /\ clock' \in {clock, FALSE}
  /\ mainPc' = "run" /\ sender' = Idle /\ flushed' = "none"
  /\ cut' = (cut \/ (mainPc = "forget" /\ file # <<>>))
  /\ doubt' = (doubt \/ sender.pc \in {"each", "drop"})
  /\ UNCHANGED <<file, owner, key, plays, signIns, accepted, doubled>>

Sender == Load \/ Send \/ SendEach \/ DropSent
Listener == Count \/ ClockLost \/ Login \/ Disconnect \/ SendNow
Scrobbling == ClockSet \/ Date \/ StartSender \/ Flushed \/ BackoffOver \/ SignedIn \/ SessionSaved \/ SignInFails
                \/ Forgotten
ScrobbleNext == Listener \/ Scrobbling \/ Sender \/ Crash
ScrobbleSpec == ScrobbleInit /\ [][ScrobbleNext]_scrobbleVars

-----------------------------------------------------------------------------
ScrobbleTypeOK ==
  /\ file \in Seq(Play) /\ Len(file) <= QueueMax /\ torn \in BOOLEAN
  /\ owner \in Accounts \cup {NoAccount} /\ key \in BOOLEAN
  /\ session \in Accounts \cup {NoAccount} /\ login \in Accounts \cup {NoAccount}
  /\ waiting \in Nat /\ flushing \in BOOLEAN /\ failed \in BOOLEAN /\ due \in BOOLEAN
  /\ mainPc \in {"run", "date", "save", "forget"}
  /\ undated \in Seq(Play) /\ clock \in BOOLEAN
  /\ sender \in [pc : {"idle", "load", "send", "each", "drop", "expire"}, account : Accounts \cup {NoAccount},
                 batch : Seq(Play), at : Nat, then : {"more", "error", "invalid"}]
  /\ flushed \in {"none", "sent", "error", "invalid"}
  /\ plays \in Nat /\ signIns \in Nat /\ crashes \in Nat
  /\ accepted \subseteq [play : Play, account : Accounts]
  /\ doubled \in BOOLEAN /\ gone \subseteq Nat /\ doubt \in BOOLEAN /\ cut \in BOOLEAN

(* A play never goes to another account than the one it was counted for (one *)
(* that counted without an account goes to whichever comes)...               *)
OwnAccount == \A r \in accepted : r.play.owner \in {r.account, NoAccount}
(* ...as long as no forgetting of an account was cut short. *)
SentToOwner == cut \/ OwnAccount

(* A play that counted waits for its date or in the file, was taken by        *)
(* Last.fm, or dropped by a rule: the cap, its age, Last.fm's refusal, the    *)
(* account it was for, or a restart before it had a date.                     *)
NothingVanishes ==
  \A p \in 1..plays : p \in PlayIds(file \o undated) \/ p \in gone \/ \E r \in accepted : r.play.id = p

(* Last.fm gets a play twice only when an answer or the drop after it was lost. *)
SentOnce == doubled => doubt

(* One sender at a time, and the flag says so. *)
OneSender == (sender.pc # "idle" \/ flushed # "none") => flushing

(* The counter that starts the sender knows of the plays that wait. *)
WaitingIsKnown ==
  ~cut /\ mainPc = "run" /\ session # NoAccount /\ file # <<>> => waiting > 0

(* What the main loop believes of its sender and of the file is so. *)
SenderInv == ScrobbleTypeOK /\ OneSender /\ WaitingIsKnown

(* What is promised of a play: to its account, at most once, and never lost.  *)
(* It is kept by one sender at a time, which runs while plays wait.           *)
EachPlayOnce == SentToOwner /\ NothingVanishes /\ SentOnce /\ SenderInv
=============================================================================
