---------------------------- MODULE Sessions_proofs ----------------------------
(***************************************************************************)
(* One session's record, for every number of turns, restarts and failed    *)
(* writes and every limit: a spent native session is never resumed, a      *)
(* session that can go on is, and housekeeping spares the turns at work.   *)
(***************************************************************************)
EXTENDS Sessions, SequenceTheorems, TLAPS

\* The types.
Record ==
  [sid : Nat, at : Nat, turns : Nat, stuck : Nat, marked : BOOLEAN,
   harvested : BOOLEAN, compat : Nat]
Optional == Record \cup {None}
Ends == {"ok", "failed", "hang"}
Queued == [n : Nat, received : Nat, touched : BOOLEAN]
Working == {"setup", "spawn", "run", "mark"}
Turns ==
  [at : Working \cup {"none", "persist"}, n : Nat, received : Nat, touched : BOOLEAN,
   rec : Optional, fresh : BOOLEAN, resume : Nat, sid : Nat, end : Ends \cup {"none"}, size : Nat]
Collections == [at : {"none", "gate", "remove", "stamp"}, tracked : BOOLEAN, saw : SUBSET Nat]
Truths ==
  [turns : [Natives -> Nat], used : [Natives -> Nat], streak : Nat,
   condemned : SUBSET Nat, latest : Nat, compat : Nat, quiet : Nat]
Owners == {"touch", "turn", "stamp"}

TypeOK ==
  /\ now \in Nat /\ config \in Nat /\ mem \in Optional /\ disk \in Optional
  /\ dirty \in BOOLEAN /\ writes \in Seq(Owners) /\ queue \in Seq(Queued)
  /\ turn \in Turns /\ pid \in {"none", "pending", "written"}
  /\ dir \in Nat \cup {None} /\ gc \in Collections /\ ghosts \subseteq Natives
  /\ truth \in Truths
  /\ budget \in [turns : Nat, natives : Nat, crashes : Nat, faults : Nat]

Started == turn.at # "none"
Works   == turn.at \in Working

\* What a turn remembers of the record it began with.
Shape ==
  /\ turn.at = "none" => turn = NoTurn
  /\ Works => (turn.rec = None <=> mem = None)
  /\ Started /\ turn.rec # None => mem # None
  /\ turn.at = "run" => turn.resume = Resumed
  /\ turn.at \in {"run", "persist"} /\ turn.rec # None /\ turn.resume # 0 => turn.rec.sid = turn.resume
  /\ Works /\ turn.rec # None => (turn.rec.marked => turn.fresh)
  /\ Works /\ turn.rec # None /\ turn.rec.sid # 0 /\ ~turn.fresh => turn.rec.turns < TurnLimit
  /\ mem = None => disk = None

\* At most one write is awaited, by the turn; a turn that awaits none had no
\* record to write.
Awaited ==
  /\ \A i, j \in DOMAIN writes : writes[i] = "turn" /\ writes[j] = "turn" => i = j
  /\ \A i \in DOMAIN writes : writes[i] = "turn" => turn.at \in {"mark", "persist"}
  /\ turn.at = "persist" /\ (\A i \in DOMAIN writes : writes[i] # "turn") =>
       mem = None /\ (turn.sid = 0 \/ Poisoned(turn.end))

\* A turn is received in time, and the refresh it made stands.
Prompt ==
  /\ \A i \in DOMAIN queue :
       /\ queue[i].received <= now /\ now <= queue[i].received + MaxSpan
       /\ queue[i].touched => mem # None /\ mem.at >= queue[i].received
  /\ Started => turn.received <= now /\ now <= turn.received + MaxSpan
  /\ turn.touched => /\ Started /\ mem # None /\ mem.at >= turn.received
                     /\ turn.rec # None /\ turn.rec.at >= turn.received
  /\ gc.saw = {}

\* Native sessions are numbered as they are made, one a turn at most.
Numbered ==
  /\ budget.natives + budget.turns + Len(queue) + (IF Works THEN 1 ELSE 0) <= MaxTurns
  /\ \A s \in truth.condemned : s <= budget.natives
  /\ \A s \in Natives : s > budget.natives => truth.turns[s] = 0 /\ truth.used[s] = 0
  /\ truth.latest <= budget.natives /\ turn.resume <= budget.natives /\ turn.sid <= budget.natives
  /\ mem # None => mem.sid <= budget.natives
  /\ disk # None => disk.sid <= budget.natives
  /\ turn.rec # None => turn.rec.sid <= budget.natives

\* No record names a condemned session, and each counts at least the turns that
\* settled and at most those that ran, and at least the hangs that settled.
Clean(r) ==
  r # None /\ r.sid # 0 =>
    /\ r.sid \notin truth.condemned
    /\ truth.turns[r.sid] <= r.turns /\ r.turns <= truth.used[r.sid]
Hung(r) == truth.streak <= IF r = None THEN 0 ELSE r.stuck
Marked(r) == r # None /\ r.sid = 0 => r.marked

Spent ==
  /\ Clean(mem) /\ Clean(disk) /\ (Works => Clean(turn.rec))
  /\ Hung(mem) /\ Hung(disk) /\ (Started => Hung(turn.rec))
  /\ Marked(mem) /\ Marked(disk) /\ (Works => Marked(turn.rec))
  /\ turn.at = "persist" /\ mem = None => turn.sid = 0 \/ Poisoned(turn.end)
  /\ turn.at = "persist" /\ mem # None =>
       /\ Poisoned(turn.end) => mem.sid = 0
       /\ turn.sid # 0 /\ mem.sid # 0 =>
            mem.sid = turn.sid /\ truth.turns[turn.sid] + turn.size <= mem.turns
       /\ turn.end = "hang" /\ ~Poisoned("hang") => mem.stuck >= Stuck("hang")

\* While the session of the last settled turn can go on, every record has it.
Alive ==
  truth.latest # 0 /\ truth.compat = config /\ truth.used[truth.latest] < TurnLimit
Recent == \A i \in DOMAIN queue : mem.at >= queue[i].received
Has(r, s) == r # None /\ r.sid = s /\ r.compat = config /\ ~r.marked

Continued ==
  /\ truth.compat <= config
  /\ Alive => /\ Has(mem, truth.latest) /\ Has(disk, truth.latest) /\ Recent
              /\ Works => Has(turn.rec, truth.latest) /\ ~turn.fresh
  /\ turn.at = "persist" /\ turn.sid # 0 /\ ~Poisoned(turn.end) =>
       Has(mem, turn.sid) /\ Recent

-----------------------------------------------------------------------------
(* Sequences and records.                                                  *)

LEMMA Tails ==
  ASSUME NEW S, NEW q \in Seq(S), q # << >>
  PROVE  /\ Tail(q) \in Seq(S) /\ Len(q) > 0 /\ Len(Tail(q)) = Len(q) - 1 /\ Len(q) \in Nat
         /\ Head(q) \in S /\ 1 \in DOMAIN q /\ Head(q) = q[1]
         /\ \A i \in DOMAIN Tail(q) : i + 1 \in DOMAIN q /\ i \in Nat /\ Tail(q)[i] = q[i + 1]
<1>1. Len(q) \in Nat /\ Len(q) # 0 /\ DOMAIN q = 1..Len(q)
  BY EmptySeq, LenProperties
<1>2. /\ Head(q) \in S /\ Tail(q) \in Seq(S) /\ Len(Tail(q)) = Len(q) - 1
      /\ \A i \in 1..Len(Tail(q)) : Tail(q)[i] = q[i + 1]
  BY HeadTailProperties
<1>3. DOMAIN Tail(q) = 1..Len(Tail(q))
  BY <1>2, LenProperties
<1>4. Head(q) = q[1]
  BY DEF Head
<1> QED BY <1>1, <1>2, <1>3, <1>4

LEMMA Appends ==
  ASSUME NEW S, NEW q \in Seq(S), NEW e \in S
  PROVE  /\ Append(q, e) \in Seq(S) /\ Len(Append(q, e)) = Len(q) + 1 /\ Len(q) \in Nat
         /\ \A i \in DOMAIN q : i \in DOMAIN Append(q, e) /\ Append(q, e)[i] = q[i]
         /\ \A i \in DOMAIN Append(q, e) :
              (i \in DOMAIN q /\ Append(q, e)[i] = q[i]) \/ (i = Len(q) + 1 /\ Append(q, e)[i] = e)
         /\ Len(q) + 1 \in DOMAIN Append(q, e) /\ Append(q, e)[Len(q) + 1] = e
<1>1. Len(q) \in Nat /\ DOMAIN q = 1..Len(q)
  BY LenProperties
<1>2. /\ Append(q, e) \in Seq(S) /\ Len(Append(q, e)) = Len(q) + 1
      /\ \A i \in 1..Len(q) : Append(q, e)[i] = q[i]
      /\ Append(q, e)[Len(q) + 1] = e
  BY AppendProperties
<1>3. DOMAIN Append(q, e) = 1..(Len(q) + 1)
  BY <1>2, LenProperties
<1> QED BY <1>1, <1>2, <1>3

LEMMA CondemnIs ==
  ASSUME NEW r \in Record
  PROVE  /\ Condemn(r) \in Record
         /\ Condemn(r).sid = 0 /\ Condemn(r).stuck = 0 /\ Condemn(r).marked /\ Condemn(r).at = r.at
BY DEF Condemn, Record

LEMMA SizeIs == \A size \in Sizes : size \in Nat /\ size > 0
BY SessionsAssumption DEF Sizes

LEMMA NoneIsNoRecord == None \notin Record
BY SessionsAssumption DEF Record

LEMMA StuckIs ==
  ASSUME TypeOK, NEW end \in Ends
  PROVE  /\ Stuck(end) \in Nat
         /\ end = "ok" => Stuck(end) = 0
         /\ end = "failed" => Stuck(end) = IF turn.rec = None THEN 0 ELSE turn.rec.stuck
         /\ end = "hang" => Stuck(end) = IF turn.rec = None THEN 1 ELSE turn.rec.stuck + 1
<1>1. turn.rec \in Record \/ turn.rec = None
  BY DEF TypeOK, Turns, Optional
<1> QED BY <1>1, NoneIsNoRecord DEF Stuck, NextStuck, Record, Ends

\* What a finished turn writes.
LEMMA OutcomeIs ==
  ASSUME TypeOK, NEW sid \in Nat, NEW end \in Ends, NEW size \in Sizes, NEW r, r = Outcome(sid, end, size)
  PROVE  /\ r \in Optional
         /\ Poisoned(end) => r = IF mem = None THEN None ELSE Condemn(mem)
         /\ ~Poisoned(end) /\ sid = 0 /\ turn.rec = None => r = None
         /\ ~Poisoned(end) /\ sid = 0 /\ turn.rec # None =>
              /\ r \in Record
              /\ r.sid = turn.rec.sid /\ r.turns = turn.rec.turns /\ r.stuck = Stuck(end)
              /\ r.marked = turn.rec.marked /\ r.compat = turn.rec.compat
              /\ r.at = IF turn.fresh THEN turn.rec.at ELSE now
         /\ ~Poisoned(end) /\ sid # 0 =>
              /\ r \in Record
              /\ r.sid = sid /\ r.at = now /\ r.stuck = Stuck(end) /\ ~r.marked /\ r.compat = config
              /\ r.turns = IF turn.rec = None \/ turn.fresh \/ Incompatible THEN size ELSE turn.rec.turns + size
<1>1. /\ turn.rec \in Record \/ turn.rec = None
      /\ mem \in Record \/ mem = None
      /\ now \in Nat /\ config \in Nat /\ Stuck(end) \in Nat /\ turn.fresh \in BOOLEAN
      /\ size \in Nat
  BY StuckIs, SizeIs DEF TypeOK, Turns, Optional
<1>2. CASE Poisoned(end)
  BY <1>1, <1>2, CondemnIs DEF Outcome, Optional
<1>3. CASE ~Poisoned(end) /\ sid = 0
  <2>1. CASE turn.rec = None
    BY <1>3, <2>1 DEF Outcome, Optional
  <2>2. CASE turn.rec # None
    <3>1. r = [turn.rec EXCEPT !.at = IF turn.fresh THEN turn.rec.at ELSE now, !.stuck = Stuck(end)]
      BY <1>1, <1>3, <2>2 DEF Outcome, Kept
    <3>2. turn.rec \in Record
      BY <1>1, <2>2
    <3> QED BY <1>1, <1>3, <2>2, <3>1, <3>2 DEF Record, Optional
  <2> QED BY <2>1, <2>2
<1>4. CASE ~Poisoned(end) /\ sid # 0
  <2>1. CASE turn.rec = None
    <3>1. r = [sid |-> sid, at |-> now, turns |-> size, stuck |-> Stuck(end), marked |-> FALSE,
               harvested |-> FALSE, compat |-> config]
      BY <1>4, <2>1 DEF Outcome, Rec
    <3> QED BY <1>1, <1>4, <2>1, <3>1 DEF Record, Optional
  <2>2. CASE turn.rec # None
    <3> DEFINE ran == IF turn.fresh \/ Incompatible THEN size ELSE turn.rec.turns + size
               harvest == turn.rec.harvested /\ end # "ok"
    <3>1. r = [sid |-> sid, at |-> now, turns |-> ran, stuck |-> Stuck(end), marked |-> FALSE,
               harvested |-> harvest, compat |-> config]
      BY <1>4, <2>2 DEF Outcome, Rec
    <3>2. ran \in Nat /\ harvest \in BOOLEAN
      BY <1>1, <2>2 DEF Record
    <3>3. ran = IF turn.rec = None \/ turn.fresh \/ Incompatible THEN size ELSE turn.rec.turns + size
      BY <2>2
    <3> HIDE DEF ran, harvest
    <3>4. r \in Record
      BY <1>1, <3>1, <3>2 DEF Record
    <3>5. /\ r.sid = sid /\ r.at = now /\ r.turns = ran /\ r.stuck = Stuck(end)
          /\ r.marked = FALSE /\ r.compat = config
      BY <3>1
    <3> QED BY <1>4, <3>3, <3>4, <3>5 DEF Optional
  <2> QED BY <2>1, <2>2
<1> QED BY <1>2, <1>3, <1>4

LEMMA OutcomeNamed ==
  ASSUME TypeOK, NEW sid \in Nat, NEW end \in Ends, NEW size \in Sizes, sid # 0, ~Poisoned(end)
  PROVE  LET r == Outcome(sid, end, size)
         IN  r \in Record /\ r.sid = sid /\ r.compat = config /\ ~r.marked /\ r.at = now
BY OutcomeIs

-----------------------------------------------------------------------------
(* Type correctness.                                                       *)

LEMMA InitTypes == Init => TypeOK
<1> SUFFICES ASSUME Init PROVE TypeOK
  OBVIOUS
<1>1. NoTurn \in Turns /\ NoGc \in Collections
  BY DEF NoTurn, Turns, NoGc, Collections, Optional
<1>2. truth \in Truths
  BY DEF Init, Truths
<1>3. budget \in [turns : Nat, natives : Nat, crashes : Nat, faults : Nat]
  BY SessionsAssumption DEF Init
<1>4. writes \in Seq(Owners) /\ queue \in Seq(Queued)
  BY EmptySeq DEF Init
<1>5. ghosts \subseteq Natives /\ now \in Nat /\ config \in Nat /\ dirty \in BOOLEAN
  BY DEF Init
<1> QED BY <1>1, <1>2, <1>3, <1>4, <1>5 DEF Init, TypeOK, Optional

LEMMA RecordTypes ==
  ASSUME TypeOK, mem \in Record
  PROVE  /\ mem.at \in Nat
         /\ [mem EXCEPT !.at = now] \in Record /\ [mem EXCEPT !.harvested = TRUE] \in Record
BY DEF TypeOK, Record

LEMMA FaultTypes ==
  ASSUME TypeOK, CanFail, Fault
  PROVE  budget' \in [turns : Nat, natives : Nat, crashes : Nat, faults : Nat]
<1>1. budget.faults \in Nat /\ budget.faults > 0
  BY DEF TypeOK, CanFail
<1>2. budget.faults - 1 \in Nat
  BY <1>1
<1> QED BY <1>2 DEF TypeOK, Fault

LEMMA TurnTypes ==
  ASSUME TypeOK, Shape, FlushTouch \/ Receive \/ Begin \/ SetUp \/ Spawn \/ WritePid \/ GhostRetry \/ RunFails
  PROVE  TypeOK'
<1> USE DEF Optional
<1>0. NoTurn \in Turns
  BY DEF NoTurn, Turns
<1>1. CASE FlushTouch
  <2>1. writes' \in Seq(Owners)
    BY <1>1, Appends DEF FlushTouch, Flush, TypeOK, Owners
  <2> QED BY <1>1, <2>1 DEF FlushTouch, TypeOK
<1>2. CASE Receive
  <2>1. [n |-> budget.turns, received |-> now, touched |-> mem # None] \in Queued
    BY DEF Queued, TypeOK
  <2>2. queue' \in Seq(Queued)
    BY <1>2, <2>1, Appends DEF Receive, TypeOK
  <2>3. mem' \in Optional
    BY <1>2, RecordTypes DEF Receive, Touched, TypeOK
  <2>4. budget' \in [turns : Nat, natives : Nat, crashes : Nat, faults : Nat]
    <3>1. budget.turns \in Nat /\ budget.turns - 1 \in Nat
      BY <1>2 DEF Receive, TypeOK
    <3>2. budget' = [budget EXCEPT !.turns = budget.turns - 1]
      BY <1>2 DEF Receive
    <3> QED BY <3>1, <3>2 DEF TypeOK
  <2> QED BY <1>2, <2>2, <2>3, <2>4 DEF Receive, TypeOK
<1>3. CASE Begin
  <2>1. queue' \in Seq(Queued) /\ Head(queue) \in Queued
    BY <1>3, Tails DEF Begin, TypeOK
  <2>2. Reseeds(mem) \in BOOLEAN
    BY DEF Reseeds
  <2>3. turn' \in Turns
    BY <1>0, <1>3, <2>1, <2>2 DEF Begin, TypeOK, Turns, Queued, Working
  <2> QED BY <1>3, <2>1, <2>3 DEF Begin, TypeOK
<1>4. CASE SetUp
  BY <1>4 DEF SetUp, TypeOK, Turns, Working
<1>5. CASE Spawn
  <2>1. Resumed \in Nat
    BY NoneIsNoRecord DEF Resumed, TypeOK, Turns, Record
  <2> QED BY <1>5, <2>1 DEF Spawn, TypeOK, Turns, Working
<1>6. CASE WritePid
  BY <1>6 DEF WritePid, TypeOK
<1>7. CASE GhostRetry
  <2>1. writes' \in Seq(Owners)
    BY <1>7, Appends DEF GhostRetry, Flush, TypeOK, Owners
  <2>2. mem' \in Optional
    BY <1>7, CondemnIs DEF GhostRetry, TypeOK
  <2>3. turn.rec \in Record
    <3>1. turn.resume # 0
      BY <1>7 DEF GhostRetry, TypeOK, Natives
    <3> QED BY <1>7, <3>1 DEF GhostRetry, Shape, Resumed, TypeOK, Turns
  <2>4. Purged \in Record
    BY <2>3, CondemnIs DEF Purged, Record
  <2>5. turn' \in Turns
    BY <1>7, <2>4 DEF GhostRetry, TypeOK, Turns, Working
  <2>6. truth' \in Truths
    BY <1>7 DEF GhostRetry, TypeOK, Truths
  <2> QED BY <1>7, <2>1, <2>2, <2>5, <2>6 DEF GhostRetry, TypeOK
<1>8. CASE RunFails
  <2>1. truth' \in Truths
    BY <1>8 DEF RunFails, TypeOK, Truths
  <2>2. budget' \in [turns : Nat, natives : Nat, crashes : Nat, faults : Nat]
    BY <1>8, FaultTypes DEF RunFails
  <2> QED BY <1>0, <1>8, <2>1, <2>2 DEF RunFails, TypeOK
<1> QED BY <1>1, <1>2, <1>3, <1>4, <1>5, <1>6, <1>7, <1>8

LEMMA ReportTypes ==
  ASSUME TypeOK, NEW sid \in Reports
  PROVE  sid \in Nat /\ (sid = 0 \/ sid = turn.resume \/ sid = budget.natives + 1)
         /\ (turn.resume # 0 => sid \in {0, turn.resume})
BY DEF Reports, TypeOK, Turns

LEMMA FinishTypes ==
  ASSUME TypeOK, Shape, NEW sid \in Reports, NEW end \in {"ok", "failed", "hang"}, NEW size \in Sizes, Finish(sid, end, size)
  PROVE  TypeOK'
<1>1. sid \in Nat /\ end \in Ends /\ size \in Nat
  BY ReportTypes, SizeIs DEF Ends
<1>2. Outcome(sid, end, size) \in Optional
  BY <1>1, OutcomeIs
<1>3. mem' \in Optional /\ writes' \in Seq(Owners)
  <2>1. CASE Outcome(sid, end, size) = None
    BY <2>1 DEF Finish, TypeOK
  <2>2. CASE Outcome(sid, end, size) # None
    BY <1>2, <2>2, Appends DEF Finish, Flush, TypeOK, Owners
  <2> QED BY <2>1, <2>2
<1>4. turn' \in Turns
  BY <1>1 DEF Finish, TypeOK, Turns, Working, Ends
<1>5. truth' \in Truths
  <2> DEFINE streak == IF end = "ok" \/ Poisoned(end) THEN 0 ELSE truth.streak
             latest == IF Poisoned(end) THEN 0 ELSE truth.latest
             used == Counted(truth.used, sid, size)
  <2>1. truth' = [truth EXCEPT !.streak = streak, !.latest = latest, !.used = used]
    BY DEF Finish
  <2>2. streak \in Nat /\ latest \in Nat /\ used \in [Natives -> Nat]
    BY <1>1 DEF TypeOK, Truths, Counted
  <2> HIDE DEF streak, latest, used
  <2> QED BY <2>1, <2>2 DEF TypeOK, Truths
<1>6. budget' \in [turns : Nat, natives : Nat, crashes : Nat, faults : Nat]
  BY <1>1 DEF Finish, TypeOK
<1>7. queue' \in Seq(Queued)
  <2>1. CASE sid = 0 /\ turn.fresh
    <3>1. Len(queue) \in Nat /\ DOMAIN queue = 1..Len(queue)
          /\ \A i \in DOMAIN queue : queue[i] \in Queued
      BY LenProperties, ElementOfSeq DEF TypeOK
    <3>2. queue' = [i \in 1..Len(queue) |-> [queue[i] EXCEPT !.touched = FALSE]]
      BY <2>1, <3>1 DEF Finish
    <3>3. \A i \in 1..Len(queue) : [queue[i] EXCEPT !.touched = FALSE] \in Queued
      BY <3>1 DEF Queued
    <3> QED BY <3>1, <3>2, <3>3, IsASeq
  <2> QED BY <2>1 DEF Finish, TypeOK
<1> QED BY <1>3, <1>4, <1>5, <1>6, <1>7 DEF Finish, TypeOK

LEMMA SettleTypes ==
  ASSUME TypeOK, NEW ok \in BOOLEAN, Settle(ok)
  PROVE  truth' \in Truths
<1>1. CASE ~ok
  BY <1>1 DEF Settle, TypeOK, Truths
<1>2. CASE ok
  <2> DEFINE hung == IF turn.rec = None /\ turn.sid = 0 THEN 0 ELSE truth.streak + 1
             turns == Counted(truth.turns, turn.sid, turn.size)
             streak == IF turn.end # "hang" THEN truth.streak
                       ELSE IF hung >= StuckAfter \/ Poisoned(turn.end) THEN 0 ELSE hung
             condemned == IF turn.end # "hang" \/ hung < StuckAfter THEN truth.condemned
                          ELSE (truth.condemned \cup {turn.sid, turn.resume}) \ {0}
             latest == IF Poisoned(turn.end) THEN 0
                       ELSE IF turn.sid # 0 THEN turn.sid ELSE truth.latest
             compat == IF turn.sid # 0 THEN config ELSE truth.compat
  <2>1. truth' = [turns |-> turns, used |-> truth.used, streak |-> streak, condemned |-> condemned,
                  latest |-> latest, compat |-> compat, quiet |-> now]
    BY <1>2 DEF Settle
  <2>2. turns \in [Natives -> Nat]
    BY DEF TypeOK, Truths, Turns, Counted
  <2>3. truth.used \in [Natives -> Nat] /\ now \in Nat /\ streak \in Nat
    BY DEF TypeOK, Truths
  <2>4. latest \in Nat /\ compat \in Nat /\ turn.sid \in Nat /\ turn.resume \in Nat
    BY DEF TypeOK, Truths, Turns
  <2>5. condemned \subseteq Nat
    BY <2>4 DEF TypeOK, Truths
  <2> HIDE DEF turns, streak, condemned, latest, compat
  <2> QED BY <2>1, <2>2, <2>3, <2>4, <2>5 DEF Truths
<1> QED BY <1>1, <1>2

LEMMA OtherTypes ==
  ASSUME TypeOK, \/ FinishBare \/ Write(TRUE) \/ Write(FALSE)
                 \/ Scan \/ Gate \/ CleanupFails \/ Remove \/ Stamp
                 \/ Tick \/ Restart \/ \E s \in Natives : LoseNative(s)
                 \/ UNCHANGED vars
  PROVE  TypeOK'
<1> USE DEF Optional
<1>0. NoTurn \in Turns /\ NoGc \in Collections
  BY DEF NoTurn, Turns, NoGc, Collections
<1>1. CASE FinishBare
  BY <1>0, <1>1, SettleTypes DEF FinishBare, TypeOK
<1>2. ASSUME NEW ok \in BOOLEAN, Write(ok) PROVE TypeOK'
  <2>1. writes' \in Seq(Owners)
    BY <1>2, Tails DEF Write, TypeOK
  <2>2. disk' \in Optional
    BY <1>2 DEF Write, TypeOK
  <2>3. budget' \in [turns : Nat, natives : Nat, crashes : Nat, faults : Nat]
    BY <1>2, FaultTypes DEF Write, TypeOK
  <2>4. turn' \in Turns /\ truth' \in Truths
    <3>1. CASE Head(writes) # "turn"
      BY <1>2, <3>1 DEF Write, TypeOK
    <3>2. CASE Head(writes) = "turn" /\ turn.at = "mark"
      <4>1. turn' = [turn EXCEPT !.at = "spawn"] /\ truth' = truth
        BY <1>2, <3>2 DEF Write
      <4> QED BY <4>1 DEF TypeOK, Turns, Working
    <3>3. CASE Head(writes) = "turn" /\ turn.at # "mark"
      BY <1>0, <1>2, <3>3, SettleTypes DEF Write
    <3> QED BY <3>1, <3>2, <3>3
  <2> QED BY <1>2, <2>1, <2>2, <2>3, <2>4 DEF Write, TypeOK
<1>3. CASE Scan
  <2>1. Refreshed \subseteq Nat
    <3>1. \A i \in DOMAIN queue : queue[i] \in Queued
      BY ElementOfSeq, LenProperties DEF TypeOK
    <3> QED BY <3>1 DEF Refreshed, TypeOK, Turns, Queued
  <2>2. gc' \in Collections
    <3> DEFINE saw == Refreshed
    <3>1. \E b \in BOOLEAN : gc' = [at |-> "gate", tracked |-> b, saw |-> saw]
      BY <1>3 DEF Scan
    <3>2. saw \in SUBSET Nat
      BY <2>1
    <3> HIDE DEF saw
    <3> QED BY <3>1, <3>2 DEF Collections
  <2> QED BY <1>3, <2>2 DEF Scan, TypeOK
<1>4. CASE Gate
  <2>1. gc' \in Collections
    BY <1>0, <1>4 DEF Gate, TypeOK, Collections, Turns
  <2> QED BY <1>4, <2>1 DEF Gate, TypeOK
<1>5. CASE CleanupFails
  <2>1. budget' \in [turns : Nat, natives : Nat, crashes : Nat, faults : Nat]
    BY <1>5, FaultTypes DEF CleanupFails
  <2> QED BY <1>0, <1>5, <2>1 DEF CleanupFails, TypeOK
<1>6. CASE Remove
  <2>1. gc' \in Collections
    BY <1>0, <1>6 DEF Remove, TypeOK, Collections
  <2> QED BY <1>6, <2>1 DEF Remove, TypeOK
<1>7. CASE Stamp
  <2>1. mem' \in Optional
    BY <1>7, RecordTypes DEF Stamp, TypeOK
  <2>2. writes' \in Seq(Owners)
    BY <1>7, Appends DEF Stamp, Flush, TypeOK, Owners
  <2> QED BY <1>0, <1>7, <2>1, <2>2 DEF Stamp, TypeOK
<1>8. CASE Tick
  BY <1>8 DEF Tick, TypeOK
<1>9. CASE Restart
  <2>1. budget' \in [turns : Nat, natives : Nat, crashes : Nat, faults : Nat]
    BY <1>9 DEF Restart, TypeOK
  <2>2. truth' \in Truths
    BY <1>9 DEF Restart, TypeOK, Truths
  <2>3. << >> \in Seq(Owners) /\ << >> \in Seq(Queued)
    BY EmptySeq
  <2>4. config' \in Nat /\ mem' \in Optional
    BY <1>9 DEF Restart, TypeOK
  <2> QED BY <1>0, <1>9, <2>1, <2>2, <2>3, <2>4 DEF Restart, TypeOK
<1>10. CASE \E s \in Natives : LoseNative(s)
  BY <1>10 DEF LoseNative, TypeOK
<1>11. CASE UNCHANGED vars
  BY <1>11 DEF vars, TypeOK
<1> QED BY <1>1, <1>2, <1>3, <1>4, <1>5, <1>6, <1>7, <1>8, <1>9, <1>10, <1>11

LEMMA NextTypes == TypeOK /\ Shape /\ [Next]_vars => TypeOK'
BY TurnTypes, FinishTypes, OtherTypes DEF Next

-----------------------------------------------------------------------------
(* What a turn remembers, and the writes it awaits.                        *)

\* A step of housekeeping, the timers or the environment.
Quietly ==
  /\ UNCHANGED <<config, mem, disk, queue, turn, truth>>
  /\ budget'.natives = budget.natives /\ budget'.turns = budget.turns
Background ==
  \/ FlushTouch \/ WritePid \/ Scan \/ Gate \/ CleanupFails \/ Remove \/ Tick
  \/ (\E s \in Natives : LoseNative(s)) \/ UNCHANGED vars

LEMMA BackgroundIsQuiet == TypeOK /\ Background => Quietly
<1> SUFFICES ASSUME TypeOK, Background PROVE Quietly
  OBVIOUS
<1>1. CASE CleanupFails
  BY <1>1 DEF CleanupFails, Fault, Quietly, TypeOK
<1>2. CASE Background /\ ~CleanupFails
  <2>1. UNCHANGED <<config, mem, disk, queue, turn, truth, budget>>
    BY <1>2 DEF Background, FlushTouch, WritePid, Scan, Gate, Remove, Tick, LoseNative, vars
  <2> QED BY <2>1 DEF Quietly
<1> QED BY <1>1, <1>2

\* The steps of the turn at work, by what they change.
LEMMA TurnSteps ==
  ASSUME TypeOK
  PROVE  /\ NoTurn.at = "none" /\ NoTurn.rec = None /\ NoTurn.touched = FALSE
         /\ NoTurn.resume = 0 /\ NoTurn.sid = 0 /\ NoTurn.n = 0
         /\ SetUp => turn' = [turn EXCEPT !.at = "spawn"] /\ turn.at = "setup"
         /\ turn \in Turns
BY DEF NoTurn, SetUp, TypeOK

LEMMA MemSteps ==
  ASSUME TypeOK, Receive \/ Stamp
  PROVE  /\ mem = None => mem' = None
         /\ mem # None =>
              /\ mem' \in Record /\ mem \in Record
              /\ mem'.sid = mem.sid /\ mem'.turns = mem.turns /\ mem'.stuck = mem.stuck
              /\ mem'.marked = mem.marked /\ mem'.compat = mem.compat
              /\ Receive => mem'.at = now
              /\ Stamp => mem'.at = mem.at
         /\ UNCHANGED <<config, disk, turn, truth, now>>
<1>1. mem = None \/ mem \in Record
  BY DEF TypeOK, Optional
<1>2. CASE Receive
  <2>1. CASE mem = None
    BY <1>2, <2>1 DEF Receive, Touched
  <2>2. CASE mem # None
    <3>1. mem' = [mem EXCEPT !.at = now] /\ UNCHANGED <<config, disk, turn, truth, now>>
      BY <1>2, <2>2 DEF Receive, Touched
    <3>2. ~Stamp
      BY <1>2 DEF Receive, Stamp, TypeOK
    <3> QED BY <1>1, <2>2, <3>1, <3>2 DEF Record, TypeOK
  <2> QED BY <2>1, <2>2
<1>3. CASE Stamp
  <2>1. CASE mem = None
    BY <1>3, <2>1 DEF Stamp
  <2>2. CASE mem # None
    <3>1. mem' = [mem EXCEPT !.harvested = TRUE] /\ UNCHANGED <<config, disk, turn, truth, now>>
      BY <1>3, <2>2 DEF Stamp
    <3>2. ~Receive
      BY <1>3 DEF Receive, Stamp, TypeOK
    <3> QED BY <1>1, <2>2, <3>1, <3>2 DEF Record, TypeOK
  <2> QED BY <2>1, <2>2
<1> QED BY <1>2, <1>3

LEMMA BeginIs ==
  ASSUME TypeOK, Begin
  PROVE  /\ turn'.at = "setup" /\ turn'.rec = mem /\ turn'.fresh = Reseeds(mem)
         /\ turn'.received = queue[1].received /\ turn'.touched = queue[1].touched
         /\ turn'.resume = 0 /\ turn'.sid = 0 /\ turn.at = "none" /\ queue # << >>
         /\ UNCHANGED <<config, disk, mem, writes, truth, budget, now>>
<1>1. Head(queue) = queue[1]
  BY Tails DEF Begin, TypeOK
<1>2. turn' = [NoTurn EXCEPT !.at = "setup", !.n = queue[1].n, !.received = queue[1].received,
                 !.touched = queue[1].touched, !.rec = mem, !.fresh = Reseeds(mem)]
  BY <1>1 DEF Begin
<1> QED BY <1>2 DEF NoTurn, Begin

LEMMA GhostIs ==
  ASSUME TypeOK, Shape, GhostRetry
  PROVE  /\ turn.at = "run" /\ turn.resume # 0 /\ turn.rec \in Record /\ mem \in Record
         /\ mem' = Condemn(mem) /\ writes' = Append(writes, "turn")
         /\ turn'.at = "mark" /\ turn'.fresh /\ turn'.rec \in Record
         /\ turn'.rec.sid = 0 /\ turn'.rec.stuck = 0 /\ turn'.rec.marked /\ turn'.rec.at = turn.rec.at
         /\ turn'.received = turn.received /\ turn'.touched = turn.touched
         /\ turn'.resume = turn.resume /\ turn'.sid = turn.sid
         /\ truth' = [truth EXCEPT !.streak = 0, !.latest = 0]
         /\ UNCHANGED <<config, disk, queue, budget, now, gc>>
<1>1. turn.resume # 0 /\ turn.at = "run"
  BY DEF GhostRetry, TypeOK, Natives
<1>2. turn.rec \in Record
  BY <1>1 DEF Shape, Resumed, TypeOK, Turns, Optional
<1>3. mem \in Record
  BY <1>1, <1>2, NoneIsNoRecord DEF Shape, Working, TypeOK, Optional, Started
<1>4. Purged = [Condemn(turn.rec) EXCEPT !.at = turn.rec.at] /\ Condemn(turn.rec) \in Record
  BY <1>2, CondemnIs DEF Purged
<1>5. /\ Purged \in Record /\ Purged.sid = 0 /\ Purged.stuck = 0 /\ Purged.marked
      /\ Purged.at = turn.rec.at
  BY <1>2, <1>4, CondemnIs DEF Record
<1>6. turn' = [turn EXCEPT !.at = "mark", !.rec = Purged, !.fresh = TRUE]
  BY DEF GhostRetry
<1>7. /\ turn'.at = "mark" /\ turn'.rec = Purged /\ turn'.fresh = TRUE
      /\ turn'.received = turn.received /\ turn'.touched = turn.touched
      /\ turn'.resume = turn.resume /\ turn'.sid = turn.sid
  BY <1>6 DEF TypeOK, Turns
<1>8. mem' = Condemn(mem) /\ writes' = Append(writes, "turn")
  BY <1>3, NoneIsNoRecord DEF GhostRetry, Flush
<1>9. truth' = [truth EXCEPT !.streak = 0, !.latest = 0] /\ UNCHANGED <<config, disk, queue, budget, now, gc>>
  BY DEF GhostRetry
<1> QED BY <1>1, <1>2, <1>3, <1>5, <1>7, <1>8, <1>9

LEMMA FinishIs ==
  ASSUME TypeOK, NEW sid \in Reports, NEW end \in Ends, NEW size \in Sizes, Finish(sid, end, size)
  PROVE  /\ turn.at = "run" /\ turn'.at = "persist" /\ turn'.sid = sid /\ turn'.end = end
         /\ turn'.size = size
         /\ turn'.rec = turn.rec /\ turn'.fresh = turn.fresh /\ turn'.resume = turn.resume
         /\ turn'.received = turn.received /\ turn'.touched = turn.touched
         /\ Stuck("hang")' = Stuck("hang")
         /\ Poisoned("hang")' <=> Poisoned("hang")
         /\ Poisoned(turn.end)' <=> Poisoned(end)
         /\ Outcome(sid, end, size) = None => mem' = mem /\ writes' = writes
         /\ Outcome(sid, end, size) # None => mem' = Outcome(sid, end, size) /\ writes' = Append(writes, "turn")
         /\ UNCHANGED <<now, config, disk, gc>>
<1>1. turn' = [turn EXCEPT !.at = "persist", !.sid = sid, !.end = end, !.size = size]
  BY DEF Finish
<1>2. /\ turn.at = "run" /\ turn'.at = "persist" /\ turn'.sid = sid /\ turn'.end = end
      /\ turn'.size = size
      /\ turn'.rec = turn.rec /\ turn'.fresh = turn.fresh /\ turn'.resume = turn.resume
      /\ turn'.received = turn.received /\ turn'.touched = turn.touched
  BY <1>1 DEF Finish, TypeOK, Turns
<1>3. Stuck("hang")' = Stuck("hang") /\ (Poisoned("hang")' <=> Poisoned("hang"))
  BY <1>2 DEF Stuck, Poisoned
<1>4. Poisoned(turn.end)' <=> Poisoned(end)
  BY <1>2 DEF Stuck, Poisoned
<1> QED BY <1>2, <1>3, <1>4 DEF Finish, Flush

LEMMA FinishBooks ==
  ASSUME TypeOK, NEW sid \in Reports, NEW end \in Ends, NEW size \in Sizes, Finish(sid, end, size)
  PROVE  /\ truth'.streak = IF end = "ok" \/ Poisoned(end) THEN 0 ELSE truth.streak
         /\ truth'.latest = IF Poisoned(end) THEN 0 ELSE truth.latest
         /\ \A s \in Natives : truth'.used[s] = IF s = sid THEN truth.used[s] + size ELSE truth.used[s]
         /\ truth'.turns = truth.turns /\ truth'.condemned = truth.condemned
         /\ truth'.compat = truth.compat
         /\ budget'.natives = (IF sid > budget.natives THEN sid ELSE budget.natives)
         /\ budget'.turns = budget.turns
         /\ Len(queue') = Len(queue) /\ DOMAIN queue' = DOMAIN queue
         /\ \A i \in DOMAIN queue :
              /\ queue'[i].received = queue[i].received
              /\ queue'[i].touched => queue[i].touched /\ ~(sid = 0 /\ turn.fresh)
<1>1. /\ truth'.streak = IF end = "ok" \/ Poisoned(end) THEN 0 ELSE truth.streak
      /\ truth'.latest = IF Poisoned(end) THEN 0 ELSE truth.latest
      /\ truth'.used = Counted(truth.used, sid, size)
      /\ truth'.turns = truth.turns /\ truth'.condemned = truth.condemned
      /\ truth'.compat = truth.compat
  BY DEF Finish, TypeOK, Truths
<1>2. \A s \in Natives : truth'.used[s] = IF s = sid THEN truth.used[s] + size ELSE truth.used[s]
  BY <1>1 DEF Counted
<1>3. /\ budget'.natives = (IF sid > budget.natives THEN sid ELSE budget.natives)
      /\ budget'.turns = budget.turns
  BY DEF Finish, TypeOK
<1>4. /\ Len(queue) \in Nat /\ DOMAIN queue = 1..Len(queue)
      /\ \A i \in DOMAIN queue : queue[i] \in Queued
  BY LenProperties, ElementOfSeq DEF TypeOK
<1>5. CASE sid = 0 /\ turn.fresh
  <2>1. queue' = [i \in 1..Len(queue) |-> [queue[i] EXCEPT !.touched = FALSE]]
    BY <1>4, <1>5 DEF Finish
  <2>2. \A i \in 1..Len(queue) : [queue[i] EXCEPT !.touched = FALSE] \in Queued
    BY <1>4 DEF Queued
  <2>3. Len(queue') = Len(queue) /\ DOMAIN queue' = 1..Len(queue)
    BY <1>4, <2>1, <2>2, IsASeq, LenProperties
  <2>4. \A i \in 1..Len(queue) : queue'[i].received = queue[i].received /\ queue'[i].touched = FALSE
    BY <1>4, <2>1 DEF Queued
  <2> QED BY <1>1, <1>2, <1>3, <1>4, <2>3, <2>4
<1>6. CASE ~(sid = 0 /\ turn.fresh)
  <2>1. queue' = queue
    BY <1>6 DEF Finish
  <2> QED BY <1>1, <1>2, <1>3, <1>6, <2>1
<1> QED BY <1>5, <1>6

LEMMA SettleIs ==
  ASSUME TypeOK, Settle(TRUE)
  PROVE  /\ truth'.used = truth.used
         /\ \A s \in Natives :
              truth'.turns[s] = IF s = turn.sid THEN truth.turns[s] + turn.size ELSE truth.turns[s]
         /\ truth'.latest = IF Poisoned(turn.end) THEN 0
                            ELSE IF turn.sid # 0 THEN turn.sid ELSE truth.latest
         /\ truth'.compat = IF turn.sid # 0 THEN config ELSE truth.compat
         /\ truth'.condemned \subseteq (truth.condemned \cup {turn.sid, turn.resume}) \ {0}
            \/ truth'.condemned = truth.condemned
BY DEF Settle, Counted

LEMMA SettledHangs ==
  ASSUME TypeOK, NEW hung, hung = IF turn.rec = None /\ turn.sid = 0 THEN 0 ELSE truth.streak + 1,
         Settle(TRUE)
  PROVE  /\ truth'.streak = IF turn.end # "hang" THEN truth.streak
                            ELSE IF hung >= StuckAfter \/ Poisoned(turn.end) THEN 0 ELSE hung
         /\ truth'.condemned = IF turn.end # "hang" \/ hung < StuckAfter THEN truth.condemned
                               ELSE (truth.condemned \cup {turn.sid, turn.resume}) \ {0}
BY DEF Settle

LEMMA Unsettled ==
  ASSUME TypeOK, \/ truth' = [truth EXCEPT !.quiet = now] \/ truth' = truth
  PROVE  /\ truth'.used = truth.used /\ truth'.turns = truth.turns /\ truth'.streak = truth.streak
         /\ truth'.condemned = truth.condemned /\ truth'.latest = truth.latest
         /\ truth'.compat = truth.compat
BY DEF TypeOK, Truths

LEMMA WriteIs ==
  ASSUME TypeOK, Awaited, NEW ok \in BOOLEAN, Write(ok)
  PROVE  /\ (ok /\ disk' = mem) \/ (~ok /\ disk' = disk)
         /\ UNCHANGED <<config, mem, queue, now, gc>>
         /\ budget'.natives = budget.natives /\ budget'.turns = budget.turns
         /\ writes' = Tail(writes) /\ writes # << >>
         /\ \/ Head(writes) # "turn" /\ UNCHANGED <<turn, truth>>
            \/ /\ turn.at = "mark" /\ Head(writes) = "turn"
               /\ turn' = [turn EXCEPT !.at = "spawn"] /\ truth' = truth
            \/ turn.at = "persist" /\ Head(writes) = "turn" /\ turn' = NoTurn /\ Settle(ok)
<1>1. budget'.natives = budget.natives /\ budget'.turns = budget.turns
  BY DEF Write, Fault, TypeOK
<1>2. Head(writes) = "turn" => turn.at \in {"mark", "persist"}
  BY Tails DEF Write, Awaited, TypeOK
<1> QED BY <1>1, <1>2 DEF Write

-----------------------------------------------------------------------------
LEMMA ShapeKept ==
  ASSUME TypeOK, Shape, Awaited, TypeOK', [Next]_vars
  PROVE  Shape'
<1> USE DEF Working, Started, Works
<1>0. /\ turn \in Turns /\ turn.rec \in Record \cup {None} /\ mem \in Record \cup {None}
      /\ disk \in Record \cup {None} /\ None \notin Record
  BY NoneIsNoRecord DEF TypeOK, Turns, Optional
<1>1. CASE Background
  <2>1. Quietly
    BY <1>1, BackgroundIsQuiet
  <2> QED BY <2>1 DEF Quietly, Shape, Resumed, Incompatible
<1>2. CASE Receive \/ Stamp
  BY <1>0, <1>2, MemSteps DEF Shape, Resumed, Incompatible
<1>3. CASE Begin
  <2>1. mem # None /\ mem.marked => Reseeds(mem)
    BY DEF Reseeds
  <2>2. mem # None /\ mem.sid # 0 /\ ~Reseeds(mem) => mem.turns < TurnLimit
    <3>1. TurnLimit \in Nat /\ (mem # None => mem.turns \in Nat)
      BY <1>0, SessionsAssumption DEF Record
    <3> QED BY <3>1 DEF Reseeds
  <2> QED BY <1>3, <2>1, <2>2, BeginIs DEF Shape
<1>4. CASE SetUp
  <2>1. turn' = [turn EXCEPT !.at = "spawn"] /\ turn.at = "setup" /\ UNCHANGED <<mem, disk, config>>
    BY <1>4 DEF SetUp
  <2> QED BY <1>0, <2>1 DEF Shape, Turns
<1>5. CASE Spawn
  <2>1. /\ turn' = [turn EXCEPT !.at = "run", !.resume = Resumed] /\ turn.at = "spawn"
        /\ UNCHANGED <<mem, disk, config>>
    BY <1>5 DEF Spawn
  <2>2. /\ turn'.at = "run" /\ turn'.resume = Resumed /\ turn'.rec = turn.rec
        /\ turn'.fresh = turn.fresh
    BY <1>0, <2>1 DEF Turns
  <2>3. Resumed' = Resumed
    BY <2>1, <2>2 DEF Resumed, Incompatible
  <2>4. turn.rec # None /\ Resumed # 0 => turn.rec.sid = Resumed
    BY DEF Resumed
  <2> QED BY <2>1, <2>2, <2>3, <2>4 DEF Shape
<1>6. CASE GhostRetry
  BY <1>0, <1>6, GhostIs, CondemnIs DEF Shape
<1>7. CASE RunFails \/ FinishBare \/ Restart
  <2>1. turn' = NoTurn /\ (UNCHANGED <<mem, disk>> \/ (mem' = disk /\ disk' = disk))
    BY <1>7 DEF RunFails, FinishBare, Restart
  <2> QED BY <2>1, TurnSteps DEF Shape
<1>8. ASSUME NEW sid \in Reports, NEW end \in {"ok", "failed", "hang"}, NEW size \in Sizes, Finish(sid, end, size) PROVE Shape'
  <2>1. turn.rec # None /\ turn.resume # 0 => turn.rec.sid = turn.resume
    BY <1>8, FinishIs DEF Shape, Ends
  <2>2. mem # None => mem' # None
    BY <1>8, FinishIs DEF Ends
  <2> QED BY <1>8, <2>1, <2>2, FinishIs DEF Shape, Ends
<1>9. ASSUME NEW ok \in BOOLEAN, Write(ok) PROVE Shape'
  <2>1. (mem = None => disk' = None) /\ mem' = mem /\ config' = config
    BY <1>9, WriteIs DEF Shape
  <2>2. CASE turn' = turn
    BY <2>1, <2>2 DEF Shape, Resumed, Incompatible
  <2>3. CASE turn.at = "mark" /\ turn' = [turn EXCEPT !.at = "spawn"]
    BY <1>0, <2>1, <2>3 DEF Shape, Turns
  <2>4. CASE turn' = NoTurn
    BY <2>1, <2>4, TurnSteps DEF Shape
  <2> QED BY <1>9, <2>2, <2>3, <2>4, WriteIs
<1> QED BY <1>1, <1>2, <1>3, <1>4, <1>5, <1>6, <1>7, <1>8, <1>9 DEF Next, Background

LEMMA AwaitedKept ==
  ASSUME TypeOK, Shape, Awaited, TypeOK', [Next]_vars
  PROVE  Awaited'
<1> USE DEF Working, Started, Works
<1>0. /\ turn \in Turns /\ turn.rec \in Record \cup {None} /\ mem \in Record \cup {None}
      /\ None \notin Record /\ NoTurn.at = "none"
  BY NoneIsNoRecord, TurnSteps DEF TypeOK, Turns, Optional
\* A write nobody awaits.
<1>1. ASSUME NEW who \in {"touch", "stamp"}, writes' = Append(writes, who),
             UNCHANGED turn, mem = None => mem' = None
      PROVE  Awaited'
  <2>1. who \in Owners /\ who # "turn"
    BY DEF Owners
  <2>2. \A i \in DOMAIN writes' : writes'[i] = "turn" => i \in DOMAIN writes /\ writes[i] = "turn"
    BY <1>1, <2>1, Appends DEF TypeOK
  <2>3. \A i \in DOMAIN writes : i \in DOMAIN writes' /\ writes'[i] = writes[i]
    BY <1>1, <2>1, Appends DEF TypeOK
  <2> QED BY <1>1, <2>2, <2>3 DEF Awaited, Poisoned, Stuck
<1>2. CASE FlushTouch
  BY <1>1, <1>2 DEF FlushTouch, Flush
<1>3. CASE Stamp
  <2>1. CASE mem = None
    BY <1>3, <2>1 DEF Stamp, Awaited, Poisoned, Stuck
  <2>2. CASE mem # None
    BY <1>1, <1>3, <2>2 DEF Stamp, Flush
  <2> QED BY <2>1, <2>2
<1>4. CASE Background /\ ~FlushTouch
  <2>1. UNCHANGED <<writes, turn, mem>>
    BY <1>4 DEF Background, WritePid, Scan, Gate, CleanupFails, Remove, Tick, LoseNative, vars
  <2> QED BY <2>1 DEF Awaited, Poisoned, Stuck
<1>5. CASE Receive
  <2>1. writes' = writes /\ turn' = turn /\ (mem = None => mem' = None)
    BY <1>5, MemSteps DEF Receive
  <2> QED BY <2>1 DEF Awaited, Poisoned, Stuck
<1>6. CASE Begin \/ SetUp \/ Spawn \/ RunFails
  <2>1. writes' = writes /\ turn.at \notin {"mark", "persist"} /\ turn'.at \notin {"mark", "persist"}
    BY <1>0, <1>6, BeginIs DEF SetUp, Spawn, RunFails, Turns
  <2> QED BY <2>1 DEF Awaited
<1>7. CASE FinishBare \/ Restart
  <2>1. turn'.at = "none" /\ \A i \in DOMAIN writes' : writes'[i] # "turn"
    <3>1. CASE FinishBare
      BY <1>0, <3>1 DEF FinishBare
    <3>2. CASE Restart
      <4>1. DOMAIN writes' = {} /\ turn' = NoTurn
        BY <3>2 DEF Restart
      <4> QED BY <1>0, <4>1
    <3> QED BY <1>7, <3>1, <3>2
  <2> QED BY <2>1 DEF Awaited
\* The turn at work had awaited none.
<1>8. ASSUME turn.at = "run", writes' = Append(writes, "turn"), turn'.at \in {"mark", "persist"}
      PROVE  Awaited'
  <2>1. \A i \in DOMAIN writes : writes[i] # "turn"
    BY <1>8 DEF Awaited
  <2>2. \A i \in DOMAIN writes' : writes'[i] = "turn" => i = Len(writes) + 1
    BY <1>8, <2>1, Appends DEF TypeOK, Owners
  <2>3. Len(writes) + 1 \in DOMAIN writes' /\ writes'[Len(writes) + 1] = "turn"
    BY <1>8, Appends DEF TypeOK, Owners
  <2> QED BY <1>8, <2>2, <2>3 DEF Awaited
<1>9. CASE GhostRetry
  BY <1>8, <1>9, GhostIs
<1>10. ASSUME NEW sid \in Reports, NEW end \in {"ok", "failed", "hang"}, NEW size \in Sizes, Finish(sid, end, size) PROVE Awaited'
  <2>0. end \in Ends /\ sid \in Nat
    BY ReportTypes DEF Ends
  <2>1. CASE Outcome(sid, end, size) # None
    BY <1>8, <1>10, <2>0, <2>1, FinishIs
  <2>2. CASE Outcome(sid, end, size) = None
    <3>1. turn.at = "run" /\ turn'.at = "persist" /\ turn'.sid = sid /\ mem' = mem /\ writes' = writes
          /\ (Poisoned(turn.end)' <=> Poisoned(end))
      BY <1>10, <2>0, <2>2, FinishIs
    <3>2. \A i \in DOMAIN writes : writes[i] # "turn"
      BY <3>1 DEF Awaited
    <3>3. mem = None /\ (sid = 0 \/ Poisoned(end))
      <4>1. CASE Poisoned(end)
        <5>1. mem # None => Condemn(mem) \in Record
          BY <1>0, CondemnIs
        <5> QED BY <1>0, <2>0, <2>2, <4>1, <5>1, OutcomeIs
      <4>2. CASE ~Poisoned(end)
        <5>1. sid = 0 /\ turn.rec = None
          BY <1>0, <2>0, <2>2, <4>2, OutcomeIs
        <5> QED BY <3>1, <5>1 DEF Shape
      <4> QED BY <4>1, <4>2
    <3> QED BY <3>1, <3>2, <3>3 DEF Awaited
  <2> QED BY <2>1, <2>2
<1>11. ASSUME NEW ok \in BOOLEAN, Write(ok) PROVE Awaited'
  <2>1. /\ writes' = Tail(writes) /\ mem' = mem /\ writes # << >>
    BY <1>11, WriteIs
  <2>2. /\ Head(writes) = writes[1] /\ 1 \in DOMAIN writes
        /\ \A i \in DOMAIN writes' : i + 1 \in DOMAIN writes /\ i \in Nat /\ writes'[i] = writes[i + 1]
    BY <2>1, Tails DEF TypeOK
  <2>3. \A i \in DOMAIN writes : i \in Nat /\ (i # 1 => i - 1 \in DOMAIN writes')
    <3>1. Len(writes) \in Nat /\ DOMAIN writes = 1..Len(writes) /\ Len(writes') = Len(writes) - 1
      BY <2>1, Tails, LenProperties DEF TypeOK
    <3>2. DOMAIN writes' = 1..Len(writes')
      BY LenProperties DEF TypeOK
    <3> QED BY <3>1, <3>2
  <2>4. CASE Head(writes) # "turn" /\ UNCHANGED turn
    <3>1. \A i, j \in DOMAIN writes' : writes'[i] = "turn" /\ writes'[j] = "turn" => i = j
      BY <2>2 DEF Awaited
    <3>2. \A i \in DOMAIN writes' : writes'[i] = "turn" => turn'.at \in {"mark", "persist"}
      BY <2>2, <2>4 DEF Awaited
    <3>3. (\A i \in DOMAIN writes' : writes'[i] # "turn") => \A i \in DOMAIN writes : writes[i] # "turn"
      <4> SUFFICES ASSUME \A i \in DOMAIN writes' : writes'[i] # "turn", NEW i \in DOMAIN writes
                   PROVE  writes[i] # "turn"
        OBVIOUS
      <4>1. CASE i = 1
        BY <2>2, <2>4, <4>1
      <4>2. CASE i # 1
        <5>1. i - 1 \in DOMAIN writes' /\ (i - 1) + 1 = i
          BY <2>3, <4>2
        <5>2. writes'[i - 1] = writes[i]
          BY <2>2, <5>1
        <5> QED BY <5>1, <5>2
      <4> QED BY <4>1, <4>2
    <3> QED BY <2>1, <2>4, <3>1, <3>2, <3>3 DEF Awaited, Poisoned, Stuck
  <2>5. CASE Head(writes) = "turn" /\ turn'.at \in {"spawn", "none"}
    <3>1. \A i \in DOMAIN writes' : writes'[i] # "turn"
      <4> SUFFICES ASSUME NEW i \in DOMAIN writes', writes'[i] = "turn" PROVE FALSE
        OBVIOUS
      <4>1. writes[i + 1] = "turn" /\ writes[1] = "turn" /\ i + 1 # 1 /\ i + 1 \in DOMAIN writes
        <5>1. i # 0
          BY LenProperties DEF TypeOK
        <5> QED BY <2>2, <2>5, <5>1
      <4> QED BY <2>2, <4>1 DEF Awaited
    <3> QED BY <2>5, <3>1 DEF Awaited
  <2> QED BY <1>0, <1>11, <2>4, <2>5, WriteIs DEF Turns
<1> QED BY <1>2, <1>3, <1>4, <1>5, <1>6, <1>7, <1>9, <1>10, <1>11 DEF Next, Background

-----------------------------------------------------------------------------
(* Housekeeping.                                                           *)

\* A collection starts when no turn holds a refresh.
LEMMA NobodyRefreshed ==
  ASSUME TypeOK, Prompt, Scan
  PROVE  Refreshed = {}
<1>1. /\ now \in Nat /\ (mem # None => mem.at \in Nat /\ mem \in Record)
      /\ MaxSpan \in Nat /\ IdleCleanup \in Nat /\ MaxSpan < IdleCleanup
  <2>1. MaxSpan \in Nat /\ IdleCleanup \in Nat /\ 2 * MaxSpan < IdleCleanup
    BY SessionsAssumption
  <2> QED BY <2>1 DEF TypeOK, Optional, Record
<1>2. mem = None \/ now - mem.at >= IdleCleanup
  BY DEF Scan
<1>3. ASSUME NEW r \in Nat, now <= r + MaxSpan, mem # None, mem.at >= r PROVE FALSE
  BY <1>1, <1>2, <1>3
<1>4. \A i \in DOMAIN queue : ~queue[i].touched
  <2> SUFFICES ASSUME NEW i \in DOMAIN queue, queue[i].touched PROVE FALSE
    OBVIOUS
  <2>1. queue[i] \in Queued
    BY ElementOfSeq, LenProperties DEF TypeOK
  <2>2. queue[i].received \in Nat
    BY <2>1 DEF Queued
  <2> QED BY <1>3, <2>2 DEF Prompt
<1>5. ~turn.touched
  <2>1. turn.received \in Nat
    BY DEF TypeOK, Turns
  <2> QED BY <1>3, <2>1 DEF Prompt
<1> QED BY <1>4, <1>5 DEF Refreshed

LEMMA PromptKept ==
  ASSUME TypeOK, Shape, Awaited, Prompt, TypeOK', [Next]_vars
  PROVE  Prompt'
<1> USE DEF Started
<1>0. /\ turn \in Turns /\ turn.rec \in Record \cup {None} /\ mem \in Record \cup {None}
      /\ None \notin Record /\ NoTurn.at = "none" /\ ~NoTurn.touched
      /\ now \in Nat /\ MaxSpan \in Nat /\ (mem # None => mem.at \in Nat)
      /\ turn.received \in Nat /\ turn.touched \in BOOLEAN
  BY NoneIsNoRecord, TurnSteps, SessionsAssumption DEF TypeOK, Turns, Optional, Record
<1>q. \A i \in DOMAIN queue : queue[i] \in Queued /\ queue[i].received \in Nat
  <2>1. \A i \in DOMAIN queue : queue[i] \in Queued
    BY ElementOfSeq, LenProperties DEF TypeOK
  <2> QED BY <2>1 DEF Queued
<1>1. CASE UNCHANGED <<now, mem, queue, turn>> /\ gc'.saw = {}
  BY <1>1 DEF Prompt
<1>2. CASE Gate \/ Remove \/ CleanupFails
  <2>1. UNCHANGED <<now, mem, queue, turn>>
    BY <1>2 DEF Gate, Remove, CleanupFails
  <2>2. gc'.saw = {}
    <3>1. CASE Gate
      <4>1. CASE gc' = NoGc
        BY <4>1 DEF NoGc
      <4>2. CASE gc' = [gc EXCEPT !.at = "stamp"]
        BY <4>2 DEF Prompt, TypeOK, Collections
      <4>3. CASE pid # "written" /\ gc' = [gc EXCEPT !.at = "remove", !.saw = gc.saw \cup {}]
        BY <4>3 DEF Prompt, TypeOK, Collections
      <4>4. Gate => \/ gc' = NoGc \/ gc' = [gc EXCEPT !.at = "stamp"]
                    \/ pid # "written" /\ gc' = [gc EXCEPT !.at = "remove", !.saw = gc.saw \cup {}]
        <5>1. pid = "written" \/ (IF pid = "written" THEN {turn.n} ELSE {}) = {}
          OBVIOUS
        <5> QED BY <5>1 DEF Gate, Live
      <4> QED BY <3>1, <4>1, <4>2, <4>3, <4>4
    <3>2. CASE Remove
      BY <3>2 DEF Remove, NoGc, Prompt, TypeOK, Collections
    <3>3. CASE CleanupFails
      BY <3>3 DEF CleanupFails, NoGc
    <3> QED BY <1>2, <3>1, <3>2, <3>3
  <2> QED BY <1>1, <2>1, <2>2
<1>3. CASE Scan
  <2>1. Refreshed = {} /\ UNCHANGED <<now, mem, queue, turn>>
    BY <1>3, NobodyRefreshed DEF Scan
  <2>2. gc'.saw = Refreshed
    BY <1>3 DEF Scan
  <2> QED BY <1>1, <2>1, <2>2
<1>4. CASE FlushTouch \/ WritePid \/ (\E s \in Natives : LoseNative(s)) \/ UNCHANGED vars
  <2>1. UNCHANGED <<now, mem, queue, turn, gc>>
    BY <1>4 DEF FlushTouch, WritePid, LoseNative, vars
  <2> QED BY <1>1, <2>1 DEF Prompt
<1>5. CASE Tick
  <2>1. /\ now' = now + 1 /\ UNCHANGED <<mem, queue, turn, gc>> /\ turn.at \in {"none", "run"}
        /\ \A i \in DOMAIN queue : now - queue[i].received < MaxSpan
        /\ turn.at = "run" => now - turn.received < MaxSpan
    BY <1>5 DEF Tick
  <2>2. \A i \in DOMAIN queue : queue[i].received <= now' /\ now' <= queue[i].received + MaxSpan
    BY <1>0, <1>q, <2>1 DEF Prompt
  <2>3. Started => turn.received <= now' /\ now' <= turn.received + MaxSpan
    BY <1>0, <2>1 DEF Prompt
  <2> QED BY <2>1, <2>2, <2>3 DEF Prompt
<1>6. CASE Stamp
  <2>1. (mem # None => mem' # None /\ mem'.at = mem.at) /\ UNCHANGED <<now, turn, queue>> /\ gc' = NoGc
    BY <1>0, <1>6, MemSteps DEF Stamp
  <2> QED BY <2>1 DEF Prompt, NoGc
<1>7. CASE Receive
  <2>1. (mem # None => mem' # None /\ mem'.at = now) /\ UNCHANGED <<now, turn, gc>>
    BY <1>0, <1>7, MemSteps DEF Receive
  <2> DEFINE q == [n |-> budget.turns, received |-> now, touched |-> mem # None]
  <2>2. q \in Queued /\ queue' = Append(queue, q) /\ q.received = now /\ (q.touched <=> mem # None)
    BY <1>7 DEF Receive, Queued, TypeOK
  <2> HIDE DEF q
  <2>3. ASSUME NEW i \in DOMAIN queue'
        PROVE  /\ queue'[i].received <= now /\ now <= queue'[i].received + MaxSpan
               /\ queue'[i].touched => mem' # None /\ mem'.at >= queue'[i].received
    <3>1. CASE i \in DOMAIN queue /\ queue'[i] = queue[i]
      BY <1>0, <1>q, <2>1, <3>1 DEF Prompt
    <3>2. CASE queue'[i] = q
      BY <1>0, <2>1, <2>2, <3>2
    <3> QED BY <2>2, <3>1, <3>2, Appends DEF TypeOK
  <2>4. turn.touched => mem' # None /\ mem'.at >= turn.received
    BY <2>1 DEF Prompt
  <2> QED BY <2>1, <2>3, <2>4 DEF Prompt
<1>8. CASE Begin
  <2>1. /\ turn'.rec = mem /\ turn'.received = queue[1].received /\ turn'.touched = queue[1].touched
        /\ turn'.at = "setup" /\ queue # << >> /\ UNCHANGED <<mem, now, gc>> /\ queue' = Tail(queue)
    BY <1>8, BeginIs DEF Begin
  <2>2. 1 \in DOMAIN queue
        /\ \A i \in DOMAIN queue' : i + 1 \in DOMAIN queue /\ queue'[i] = queue[i + 1]
    BY <2>1, Tails DEF TypeOK
  <2> QED BY <2>1, <2>2 DEF Prompt
<1>9. CASE SetUp \/ Spawn
  <2>1. /\ turn'.rec = turn.rec /\ turn'.received = turn.received /\ turn'.touched = turn.touched
        /\ turn.at # "none" /\ turn'.at # "none" /\ UNCHANGED <<mem, now, gc, queue>>
    BY <1>0, <1>9 DEF SetUp, Spawn, Turns
  <2> QED BY <2>1 DEF Prompt
<1>10. CASE GhostRetry
  <2>1. /\ mem' \in Record /\ mem'.at = mem.at /\ mem # None /\ turn.rec # None
        /\ turn'.rec \in Record /\ turn'.rec.at = turn.rec.at
        /\ turn'.received = turn.received /\ turn'.touched = turn.touched /\ turn.at = "run"
        /\ turn'.at = "mark" /\ UNCHANGED <<now, gc, queue>>
    BY <1>0, <1>10, GhostIs, CondemnIs
  <2> QED BY <1>0, <2>1 DEF Prompt
<1>11. CASE RunFails \/ FinishBare
  <2>1. turn' = NoTurn /\ UNCHANGED <<mem, now, gc, queue>>
    BY <1>11 DEF RunFails, FinishBare
  <2> QED BY <1>0, <2>1 DEF Prompt
<1>12. CASE Restart
  <2>1. turn' = NoTurn /\ DOMAIN queue' = {} /\ gc' = NoGc /\ now' = now
    BY <1>12 DEF Restart
  <2> QED BY <1>0, <2>1 DEF Prompt, NoGc
<1>13. ASSUME NEW ok \in BOOLEAN, Write(ok) PROVE Prompt'
  <2>1. UNCHANGED <<mem, now, gc, queue>>
    BY <1>13, WriteIs
  <2>2. CASE turn' = turn
    BY <2>1, <2>2 DEF Prompt
  <2>3. CASE turn.at = "mark" /\ turn' = [turn EXCEPT !.at = "spawn"]
    <3>1. /\ turn'.rec = turn.rec /\ turn'.received = turn.received /\ turn'.touched = turn.touched
          /\ turn'.at = "spawn"
      BY <1>0, <2>3 DEF Turns
    <3> QED BY <2>1, <2>3, <3>1 DEF Prompt
  <2>4. CASE turn' = NoTurn
    BY <1>0, <2>1, <2>4 DEF Prompt
  <2> QED BY <1>13, <2>2, <2>3, <2>4, WriteIs
<1>14. ASSUME NEW sid \in Reports, NEW end \in {"ok", "failed", "hang"}, NEW size \in Sizes, Finish(sid, end, size) PROVE Prompt'
  <2>0. end \in Ends /\ sid \in Nat
    BY ReportTypes DEF Ends
  <2>1. /\ turn.at = "run" /\ turn'.at = "persist" /\ turn'.rec = turn.rec
        /\ turn'.received = turn.received /\ turn'.touched = turn.touched
        /\ UNCHANGED <<now, gc>>
    BY <1>14, <2>0, FinishIs
  <2>2. /\ DOMAIN queue' = DOMAIN queue
        /\ \A i \in DOMAIN queue :
             /\ queue'[i].received = queue[i].received
             /\ queue'[i].touched => queue[i].touched /\ ~(sid = 0 /\ turn.fresh)
    BY <1>14, <2>0, FinishBooks
  \* The time the record has now: as before, now, or what the turn began with.
  <2>3. mem # None =>
          /\ mem' # None
          /\ mem'.at = mem.at \/ mem'.at = now
             \/ (sid = 0 /\ turn.fresh /\ turn.rec # None /\ mem'.at = turn.rec.at)
    <3> SUFFICES ASSUME mem # None PROVE
          /\ mem' # None
          /\ mem'.at = mem.at \/ mem'.at = now
             \/ (sid = 0 /\ turn.fresh /\ turn.rec # None /\ mem'.at = turn.rec.at)
      OBVIOUS
    <3>1. CASE Outcome(sid, end, size) = None
      BY <1>14, <2>0, <3>1, FinishIs
    <3>2. CASE Outcome(sid, end, size) # None /\ Poisoned(end)
      <4>1. mem' = Condemn(mem)
        BY <1>14, <2>0, <3>2, FinishIs, OutcomeIs
      <4> QED BY <1>0, <4>1, CondemnIs
    <3>3. CASE Outcome(sid, end, size) # None /\ ~Poisoned(end)
      <4>1. mem' = Outcome(sid, end, size)
        BY <1>14, <2>0, <3>3, FinishIs
      <4>2. CASE sid = 0
        BY <1>0, <2>0, <3>3, <4>1, <4>2, OutcomeIs
      <4>3. CASE sid # 0
        BY <1>0, <2>0, <3>3, <4>1, <4>3, OutcomeIs
      <4> QED BY <4>2, <4>3
    <3> QED BY <3>1, <3>2, <3>3
  <2>4. \A i \in DOMAIN queue : queue'[i].touched => mem' # None /\ mem'.at >= queue[i].received
    BY <1>0, <1>q, <2>2, <2>3 DEF Prompt
  <2>5. turn.touched => mem' # None /\ mem'.at >= turn.received
    BY <1>0, <2>1, <2>3 DEF Prompt
  <2> QED BY <2>1, <2>2, <2>4, <2>5 DEF Prompt
<1> QED BY <1>2, <1>3, <1>4, <1>5, <1>6, <1>7, <1>8, <1>9, <1>10, <1>11, <1>12, <1>13, <1>14 DEF Next

LEMMA GcStep ==
  ASSUME TypeOK, Prompt, [Next]_vars
  PROVE  [dir # None /\ dir' = None => turn.n \notin gc.saw]_vars
BY DEF Prompt

-----------------------------------------------------------------------------
(* The kinds of steps.                                                     *)

\* The turn stays where it is or moves on with what it has.
WorkOn ==
  /\ UNCHANGED <<config, mem, queue, truth>> /\ disk' \in {disk, mem}
  /\ budget'.natives = budget.natives /\ budget'.turns = budget.turns
  /\ \/ turn' = turn
     \/ /\ Works /\ Works'
        /\ turn'.rec = turn.rec /\ turn'.fresh = turn.fresh /\ turn'.sid = turn.sid
        /\ turn'.resume \in {turn.resume, Resumed}

\* Its outcome is decided: the write it awaited is done or failed, or it had none.
Settlement ==
  /\ UNCHANGED <<config, mem, queue>>
  /\ budget'.natives = budget.natives /\ budget'.turns = budget.turns
  /\ turn.at = "persist" /\ turn' = NoTurn
  /\ \/ disk' = mem /\ Settle(TRUE)
     \/ disk' = disk /\ truth' = [truth EXCEPT !.quiet = now]
     \/ disk' = disk /\ Settle(TRUE) /\ mem = None /\ (turn.sid = 0 \/ Poisoned(turn.end))

\* It is given up, alone or with the process.
GivenUp ==
  /\ turn' = NoTurn /\ truth' = [truth EXCEPT !.quiet = now]
  /\ budget'.natives = budget.natives /\ budget'.turns = budget.turns
  /\ disk' = disk
  /\ \/ UNCHANGED <<config, mem, queue>>
     \/ config' \in {config, config + 1} /\ mem' = disk /\ queue' = << >>

LEMMA StepKinds ==
  ASSUME TypeOK, Awaited, [Next]_vars
  PROVE  \/ WorkOn \/ Settlement \/ GivenUp
         \/ Receive \/ Stamp \/ Begin \/ GhostRetry
         \/ \E sid \in Reports, end \in Ends, size \in Sizes : Finish(sid, end, size)
<1>0. turn \in Turns
  BY DEF TypeOK
<1>1. CASE Background
  BY <1>1, BackgroundIsQuiet DEF Quietly, WorkOn
<1>2. CASE SetUp \/ Spawn
  <2>1. /\ Works /\ Works'
        /\ turn'.rec = turn.rec /\ turn'.fresh = turn.fresh /\ turn'.sid = turn.sid
        /\ turn'.resume \in {turn.resume, Resumed}
    BY <1>0, <1>2 DEF SetUp, Spawn, Turns, Works, Working
  <2>2. UNCHANGED <<config, mem, disk, queue, truth, budget>>
    BY <1>2 DEF SetUp, Spawn
  <2> QED BY <2>1, <2>2 DEF WorkOn
<1>3. CASE FinishBare
  <2>1. mem = None /\ (turn.sid = 0 \/ Poisoned(turn.end)) /\ turn.at = "persist"
    BY <1>3 DEF FinishBare, Awaited
  <2> QED BY <1>3, <2>1 DEF FinishBare, Settlement
<1>4. CASE RunFails
  BY <1>4 DEF RunFails, Fault, GivenUp, TypeOK
<1>5. CASE Restart
  BY <1>5 DEF Restart, GivenUp, TypeOK
<1>6. ASSUME NEW ok \in BOOLEAN, Write(ok) PROVE WorkOn \/ Settlement
  <2>1. /\ (ok /\ disk' = mem) \/ (~ok /\ disk' = disk)
        /\ UNCHANGED <<config, mem, queue>>
        /\ budget'.natives = budget.natives /\ budget'.turns = budget.turns
    BY <1>6, WriteIs
  <2>2. CASE UNCHANGED <<turn, truth>>
    BY <2>1, <2>2 DEF WorkOn
  <2>3. CASE turn.at = "mark" /\ turn' = [turn EXCEPT !.at = "spawn"] /\ truth' = truth
    <3>1. /\ Works /\ Works'
          /\ turn'.rec = turn.rec /\ turn'.fresh = turn.fresh /\ turn'.sid = turn.sid
          /\ turn'.resume = turn.resume
      BY <1>0, <2>3 DEF Turns, Works, Working
    <3> QED BY <2>1, <2>3, <3>1 DEF WorkOn
  <2>4. CASE turn.at = "persist" /\ turn' = NoTurn /\ Settle(ok)
    <3>1. CASE ok
      <4>1. ok = TRUE
        BY <3>1
      <4> QED BY <2>1, <2>4, <4>1 DEF Settlement
    <3>2. CASE ~ok
      BY <2>1, <2>4, <3>2 DEF Settlement, Settle
    <3> QED BY <3>1, <3>2
  <2> QED BY <1>6, <2>2, <2>3, <2>4, WriteIs
<1> QED BY <1>1, <1>2, <1>3, <1>4, <1>5, <1>6 DEF Next, Background, Ends

-----------------------------------------------------------------------------
(* The native sessions.                                                    *)

LEMMA NumberedKept ==
  ASSUME TypeOK, Shape, Awaited, Numbered, TypeOK', [Next]_vars
  PROVE  Numbered'
<1>0. /\ turn \in Turns /\ turn.rec \in Record \cup {None} /\ mem \in Record \cup {None}
      /\ disk \in Record \cup {None} /\ None \notin Record
      /\ NoTurn.at = "none" /\ NoTurn.rec = None /\ NoTurn.resume = 0 /\ NoTurn.sid = 0
      /\ budget.natives \in Nat /\ budget.turns \in Nat /\ MaxTurns \in Nat
      /\ turn.resume \in Nat /\ turn.sid \in Nat /\ Len(queue) \in Nat
  BY NoneIsNoRecord, TurnSteps, SessionsAssumption, LenProperties DEF TypeOK, Turns, Optional
<1>n. budget.natives \in Nat /\ budget.turns \in Nat /\ MaxTurns \in Nat /\ Len(queue) \in Nat
  BY <1>0
<1>1. CASE WorkOn
  <2>1. Resumed <= budget.natives
    BY <1>0 DEF Numbered, Resumed
  <2> QED BY <2>1, <1>1 DEF WorkOn, Numbered, Works
<1>2. CASE Receive \/ Stamp
  <2>1. /\ (mem' # None => mem # None /\ mem'.sid = mem.sid)
        /\ UNCHANGED <<config, disk, turn, truth>>
    BY <1>0, <1>2, MemSteps
  <2>2. /\ budget'.natives = budget.natives
        /\ budget'.turns + Len(queue') = budget.turns + Len(queue)
    <3>1. CASE Stamp
      BY <3>1 DEF Stamp
    <3>2. CASE Receive
      <4>1. budget' = [budget EXCEPT !.turns = budget.turns - 1]
        BY <3>2 DEF Receive
      <4>2. budget'.natives = budget.natives /\ budget'.turns = budget.turns - 1
        BY <4>1 DEF TypeOK
      <4>3. [n |-> budget.turns, received |-> now, touched |-> mem # None] \in Queued
        BY DEF Queued, TypeOK
      <4>4. Len(queue') = Len(queue) + 1
        BY <3>2, <4>3, Appends DEF Receive, TypeOK
      <4> QED BY <1>n, <4>2, <4>4
    <3> QED BY <1>2, <3>1, <3>2
  <2>3. budget'.turns \in Nat /\ Len(queue') \in Nat
    BY LenProperties DEF TypeOK
  <2>4. budget'.natives + budget'.turns + Len(queue') + (IF Works' THEN 1 ELSE 0) <= MaxTurns
    BY <1>0, <2>1, <2>2, <2>3 DEF Numbered, Works
  <2> QED BY <2>1, <2>2, <2>4 DEF Numbered
<1>3. CASE Begin
  <2>1. /\ turn'.rec = mem /\ turn'.at = "setup" /\ turn'.resume = 0 /\ turn'.sid = 0
        /\ turn.at = "none" /\ queue # << >> /\ UNCHANGED <<mem, disk, truth, budget>>
        /\ queue' = Tail(queue)
    BY <1>3, BeginIs DEF Begin
  <2>2. Len(queue') = Len(queue) - 1 /\ Works' /\ ~Works
    BY <2>1, Tails DEF TypeOK, Works, Working
  <2> QED BY <1>0, <2>1, <2>2 DEF Numbered
<1>4. CASE GhostRetry
  <2>1. /\ turn.at = "run" /\ turn'.at = "mark" /\ mem' # None /\ mem'.sid = 0
        /\ turn'.rec.sid = 0 /\ turn'.resume = turn.resume /\ turn'.sid = turn.sid
        /\ UNCHANGED <<disk, budget, queue>>
    BY <1>0, <1>4, GhostIs, CondemnIs
  <2>2. /\ truth'.turns = truth.turns /\ truth'.used = truth.used /\ truth'.latest = 0
        /\ truth'.condemned = truth.condemned
    BY <1>4, GhostIs DEF TypeOK, Truths
  <2>3. Works /\ Works'
    BY <2>1 DEF Works, Working
  <2> QED BY <1>0, <2>1, <2>2, <2>3 DEF Numbered
<1>5. CASE GivenUp
  <2>1. /\ truth'.turns = truth.turns /\ truth'.used = truth.used /\ truth'.latest = truth.latest
        /\ truth'.condemned = truth.condemned
    BY <1>5, Unsettled DEF GivenUp
  <2>2. /\ turn' = NoTurn /\ budget'.natives = budget.natives /\ budget'.turns = budget.turns
        /\ disk' = disk /\ mem' \in {mem, disk} /\ (queue' = queue \/ queue' = << >>) /\ ~Works'
    BY <1>0, <1>5 DEF GivenUp, Works, Working
  <2>3. Len(queue') <= Len(queue) /\ Len(queue') \in Nat
    <3>1. Len(<< >>) = 0
      BY EmptySeq
    <3> QED BY <1>0, <2>2, <3>1
  <2>4. budget.natives + budget.turns + Len(queue') <= MaxTurns
    BY <1>0, <2>3 DEF Numbered
  <2> QED BY <1>0, <2>1, <2>2, <2>4 DEF Numbered
<1>6. CASE Settlement
  <2>1. /\ turn' = NoTurn /\ turn.at = "persist" /\ ~Works /\ ~Works' /\ UNCHANGED <<mem, queue>>
        /\ budget'.natives = budget.natives /\ budget'.turns = budget.turns /\ disk' \in {disk, mem}
    BY <1>0, <1>6 DEF Settlement, Works, Working
  <2>2. CASE truth' = [truth EXCEPT !.quiet = now]
    BY <1>0, <2>1, <2>2, Unsettled DEF Numbered
  <2>3. CASE Settle(TRUE)
    <3>0. turn.sid <= budget.natives /\ turn.resume <= budget.natives /\ truth.latest <= budget.natives
          /\ \A s \in truth.condemned : s <= budget.natives
      BY DEF Numbered
    <3>1. /\ \A s \in truth'.condemned : s <= budget.natives
          /\ truth'.latest <= budget.natives
      <4>1. truth'.latest \in {0, turn.sid, truth.latest}
        BY <2>3, SettleIs
      <4>2. \A s \in truth'.condemned : s \in truth.condemned \/ s \in {turn.sid, turn.resume}
        BY <2>3, SettleIs
      <4> QED BY <1>n, <3>0, <4>1, <4>2
    <3>2. \A s \in Natives : s > budget.natives => truth'.turns[s] = 0 /\ truth'.used[s] = 0
      <4> SUFFICES ASSUME NEW s \in Natives, s > budget.natives
                   PROVE  truth'.turns[s] = 0 /\ truth'.used[s] = 0
        OBVIOUS
      <4>1. s # turn.sid
        BY <1>n, <3>0 DEF Natives
      <4> QED BY <2>3, <4>1, SettleIs DEF Numbered
    <3> QED BY <1>0, <2>1, <3>1, <3>2 DEF Numbered
  <2> QED BY <1>6, <2>2, <2>3 DEF Settlement
<1>7. ASSUME NEW sid \in Reports, NEW end \in Ends, NEW size \in Sizes, Finish(sid, end, size) PROVE Numbered'
  <2>0. sid \in Nat /\ (sid = 0 \/ sid = turn.resume \/ sid = budget.natives + 1)
    BY ReportTypes
  <2>1. /\ turn.at = "run" /\ turn'.at = "persist" /\ turn'.sid = sid /\ turn'.rec = turn.rec
        /\ turn'.resume = turn.resume /\ disk' = disk /\ Works /\ ~Works'
    BY <1>7, FinishIs DEF Works, Working
  <2>2. /\ budget'.natives = (IF sid > budget.natives THEN sid ELSE budget.natives)
        /\ budget'.turns = budget.turns /\ Len(queue') = Len(queue)
        /\ truth'.turns = truth.turns /\ truth'.condemned = truth.condemned
        /\ truth'.latest \in {0, truth.latest}
        /\ \A s \in Natives : truth'.used[s] = IF s = sid THEN truth.used[s] + size ELSE truth.used[s]
    BY <1>7, FinishBooks
  <2>3. budget'.natives <= budget.natives + 1 /\ budget.natives <= budget'.natives
        /\ sid <= budget'.natives /\ budget'.natives \in Nat
    BY <1>0, <2>0, <2>2 DEF Numbered
  <2>4. mem' # None => mem'.sid <= budget'.natives /\ mem'.sid \in Nat
    <3>1. CASE Outcome(sid, end, size) = None
      BY <1>0, <1>7, <2>3, <3>1, FinishIs DEF Numbered, Record
    <3>2. CASE Outcome(sid, end, size) # None /\ Poisoned(end)
      <4>1. mem # None /\ mem' = Condemn(mem)
        BY <1>7, <2>0, <3>2, FinishIs, OutcomeIs
      <4> QED BY <1>0, <2>3, <4>1, CondemnIs
    <3>3. CASE Outcome(sid, end, size) # None /\ ~Poisoned(end)
      <4>1. mem' = Outcome(sid, end, size) /\ (sid = 0 => turn.rec # None)
        BY <1>7, <2>0, <3>3, FinishIs, OutcomeIs
      <4>2. mem'.sid = IF sid = 0 THEN turn.rec.sid ELSE sid
        BY <2>0, <3>3, <4>1, OutcomeIs
      <4>3. turn.rec # None => turn.rec.sid \in Nat /\ turn.rec.sid <= budget.natives
        BY <1>0 DEF Numbered, Record
      <4> QED BY <1>0, <2>0, <2>3, <4>1, <4>2, <4>3
    <3> QED BY <3>1, <3>2, <3>3
  <2>5. \A s \in Natives : s > budget'.natives => truth'.turns[s] = 0 /\ truth'.used[s] = 0
    BY <1>0, <2>0, <2>2, <2>3 DEF Numbered, Natives
  <2>6. budget'.natives + budget'.turns + Len(queue') <= MaxTurns
    BY <1>0, <2>1, <2>2, <2>3 DEF Numbered
  <2>7. /\ \A s \in truth'.condemned : s <= budget'.natives
        /\ truth'.latest <= budget'.natives /\ turn'.resume <= budget'.natives
        /\ turn'.sid <= budget'.natives
        /\ disk' # None => disk'.sid <= budget'.natives
        /\ turn'.rec # None => turn'.rec.sid <= budget'.natives
    <3>1. truth.condemned \subseteq Nat /\ truth.latest \in Nat
      BY DEF TypeOK, Truths
    <3>2. (disk # None => disk.sid \in Nat) /\ (turn.rec # None => turn.rec.sid \in Nat)
      BY <1>0 DEF Record
    <3>3. ASSUME NEW x \in Nat, x <= budget.natives PROVE x <= budget'.natives
      BY <1>n, <2>3, <3>3
    <3>4. turn.resume \in Nat /\ turn.resume <= budget.natives
      BY <1>0 DEF Numbered
    <3>5. \A s \in truth'.condemned : s <= budget'.natives
      BY <2>2, <3>1, <3>3 DEF Numbered
    <3>6. truth'.latest <= budget'.natives
      BY <2>2, <2>3, <3>1, <3>3 DEF Numbered
    <3>7. disk' # None => disk'.sid <= budget'.natives
      BY <2>1, <3>2, <3>3 DEF Numbered
    <3>8. turn'.rec # None => turn'.rec.sid <= budget'.natives
      BY <2>1, <3>2, <3>3 DEF Numbered
    <3> QED BY <2>1, <2>3, <3>3, <3>4, <3>5, <3>6, <3>7, <3>8
  <2> QED BY <1>0, <2>1, <2>2, <2>3, <2>4, <2>5, <2>6, <2>7 DEF Numbered
<1> QED BY <1>1, <1>2, <1>3, <1>4, <1>5, <1>6, <1>7, StepKinds

-----------------------------------------------------------------------------
(* Spent sessions.                                                         *)

\* A turn that resumes a session goes on with the record's; a new one has a
\* number of its own.
LEMMA ReportedIs ==
  ASSUME TypeOK, Shape, Numbered, Spent, turn.at = "run", NEW sid \in Reports, sid # 0
  PROVE  /\ sid \in Natives /\ sid \notin truth.condemned
         /\ \/ /\ turn.rec # None /\ ~turn.fresh /\ ~Incompatible /\ turn.rec.sid = sid
               /\ sid = turn.resume
            \/ /\ turn.rec = None \/ turn.fresh \/ Incompatible
               /\ truth.turns[sid] = 0 /\ truth.used[sid] = 0 /\ turn.resume = 0
<1>0. /\ turn.resume \in Nat /\ budget.natives \in Nat /\ budget.turns \in Nat /\ MaxTurns \in Nat
      /\ Len(queue) \in Nat /\ truth.condemned \subseteq Nat
      /\ turn.rec \in Record \cup {None}
  BY SessionsAssumption, LenProperties DEF TypeOK, Turns, Truths, Optional
<1>1. budget.natives + 1 <= MaxTurns /\ turn.resume <= budget.natives
  BY <1>0 DEF Numbered, Works, Working
<1>2. turn.resume = Resumed
  BY DEF Shape
<1>3. CASE turn.resume # 0
  <2>1. sid = turn.resume
    BY <1>3, ReportTypes
  <2>2. turn.rec # None /\ ~turn.fresh /\ ~Incompatible /\ turn.rec.sid = sid
    BY <1>2, <1>3, <2>1 DEF Resumed
  <2>3. sid \notin truth.condemned
    BY <2>2 DEF Spent, Clean, Works, Working
  <2> QED BY <1>0, <1>1, <2>1, <2>2, <2>3 DEF Natives
<1>4. CASE turn.resume = 0
  <2>1. sid = budget.natives + 1
    BY <1>4, ReportTypes
  <2>2. sid \in Natives
    BY <1>0, <1>1, <2>1 DEF Natives
  <2>3. sid \notin truth.condemned /\ truth.turns[sid] = 0 /\ truth.used[sid] = 0
    BY <1>0, <2>1, <2>2 DEF Numbered
  <2>4. turn.rec = None \/ turn.fresh \/ Incompatible
    <3> SUFFICES ASSUME turn.rec # None, ~turn.fresh, ~Incompatible PROVE FALSE
      OBVIOUS
    <3>1. turn.rec.sid = 0
      BY <1>2, <1>4 DEF Resumed
    <3>2. turn.rec.marked
      BY <3>1 DEF Spent, Marked, Works, Working
    <3> QED BY <3>2 DEF Shape, Works, Working
  <2> QED BY <1>4, <2>2, <2>3, <2>4
<1> QED BY <1>3, <1>4

\* The turn at work has hung as often as the settled ones, and once more.
LEMMA HangCounts ==
  ASSUME TypeOK, Spent, Started, NEW hung,
         hung = IF turn.rec = None /\ turn.sid = 0 THEN 0 ELSE truth.streak + 1
  PROVE  hung \in Nat /\ Stuck("hang") \in Nat /\ hung <= Stuck("hang")
<1>1. Stuck("hang") = IF turn.rec = None THEN 1 ELSE turn.rec.stuck + 1
  BY StuckIs DEF Ends
<1>2. truth.streak \in Nat /\ (turn.rec # None => turn.rec.stuck \in Nat)
  BY DEF TypeOK, Truths, Turns, Optional, Record
<1>3. truth.streak <= IF turn.rec = None THEN 0 ELSE turn.rec.stuck
  BY DEF Spent, Hung
<1> QED BY <1>1, <1>2, <1>3

LEMMA SpentFinish ==
  ASSUME TypeOK, Shape, Numbered, Spent, NEW sid \in Reports, NEW end \in Ends, NEW size \in Sizes, Finish(sid, end, size)
  PROVE  Spent'
<1>0. /\ turn.rec \in Record \cup {None} /\ mem \in Record \cup {None}
      /\ disk \in Record \cup {None} /\ None \notin Record
      /\ truth.streak \in Nat /\ Stuck(end) \in Nat /\ sid \in Nat /\ size \in Nat
      /\ \A s \in Natives : truth.turns[s] \in Nat /\ truth.used[s] \in Nat
  BY NoneIsNoRecord, StuckIs, ReportTypes, SizeIs DEF TypeOK, Turns, Optional, Truths
<1>1. /\ turn.at = "run" /\ turn'.at = "persist" /\ turn'.sid = sid /\ turn'.end = end
      /\ turn'.size = size
      /\ turn'.rec = turn.rec /\ disk' = disk
      /\ Stuck("hang")' = Stuck("hang") /\ (Poisoned("hang")' <=> Poisoned("hang"))
      /\ (Poisoned(turn.end)' <=> Poisoned(end))
  BY FinishIs
<1>2. /\ truth'.streak = IF end = "ok" \/ Poisoned(end) THEN 0 ELSE truth.streak
      /\ truth'.turns = truth.turns /\ truth'.condemned = truth.condemned
      /\ \A s \in Natives : truth'.used[s] = IF s = sid THEN truth.used[s] + size ELSE truth.used[s]
  BY FinishBooks
<1>3. truth'.streak <= truth.streak /\ truth'.streak \in Nat
  BY <1>0, <1>2
<1>4. \A r : r \in Record \cup {None} /\ Hung(r) => Hung(r)'
  <2> TAKE r
  <2>1. r # None /\ r \in Record => r.stuck \in Nat
    BY DEF Record
  <2> QED BY <1>0, <1>3, <2>1 DEF Hung
\* A record that is not written now stays as clean as it was.
<1>5. ASSUME NEW r \in Record \cup {None}, Clean(r), r # None => r.sid <= budget.natives PROVE Clean(r)'
  <2> SUFFICES ASSUME r # None, r.sid # 0
               PROVE  r.sid \notin truth'.condemned /\ truth'.turns[r.sid] <= r.turns
                      /\ r.turns <= truth'.used[r.sid]
    BY DEF Clean
  <2>1. r.sid \in Natives /\ r.turns \in Nat
    <3>1. budget.natives <= MaxTurns
      <4>1. /\ budget.natives \in Nat /\ budget.turns \in Nat /\ MaxTurns \in Nat
            /\ Len(queue) \in Nat
        BY SessionsAssumption, LenProperties DEF TypeOK
      <4> QED BY <1>1, <4>1 DEF Numbered, Works, Working
    <3>2. r.sid \in Nat /\ r.sid <= budget.natives /\ budget.natives \in Nat /\ MaxTurns \in Nat
          /\ r.turns \in Nat
      BY <1>5, SessionsAssumption DEF Record, TypeOK
    <3> QED BY <3>1, <3>2 DEF Natives
  <2>2. r.sid \notin truth.condemned /\ truth.turns[r.sid] <= r.turns /\ r.turns <= truth.used[r.sid]
    BY <1>5 DEF Clean
  <2>3. truth.used[r.sid] <= truth'.used[r.sid] /\ truth'.used[r.sid] \in Nat
    BY <1>0, <1>2, <2>1
  <2> QED BY <1>0, <1>2, <2>1, <2>2, <2>3
<1>6. Clean(disk)' /\ Hung(disk)' /\ Marked(disk)'
  <2>1. Clean(disk) /\ Hung(disk) /\ Marked(disk) /\ (disk # None => disk.sid <= budget.natives)
    BY DEF Spent, Numbered
  <2>2. disk' \in Record \cup {None} /\ disk' = disk
    BY <1>0, <1>1
  <2>3. \A r \in Record \cup {None} : Clean(r) /\ (r # None => r.sid <= budget.natives) =>
          (r # None /\ r.sid # 0 =>
             r.sid \notin truth'.condemned /\ truth'.turns[r.sid] <= r.turns
             /\ r.turns <= truth'.used[r.sid])
    BY <1>5 DEF Clean
  <2>4. Clean(disk)'
    BY <1>0, <2>1, <2>2, <2>3 DEF Clean
  <2>5. Hung(disk)'
    <3>1. disk # None => disk.stuck \in Nat
      BY <1>0 DEF Record
    <3> QED BY <1>0, <1>3, <2>1, <2>2, <3>1 DEF Hung
  <2> QED BY <2>1, <2>2, <2>4, <2>5 DEF Marked
<1>7. Hung(turn.rec)'
  <2>1. Hung(turn.rec) /\ (turn.rec # None => turn.rec.stuck \in Nat)
    BY <1>0, <1>1 DEF Spent, Started, Record
  <2> QED BY <1>0, <1>1, <1>3, <2>1 DEF Hung
\* The record the turn writes.
<1>8. /\ Clean(mem)' /\ Hung(mem)' /\ Marked(mem)'
      /\ mem' = None => sid = 0 \/ Poisoned(end)
      /\ mem' # None => /\ Poisoned(end) => mem'.sid = 0
                        /\ sid # 0 /\ mem'.sid # 0 =>
                             mem'.sid = sid /\ truth'.turns[sid] + size <= mem'.turns
                        /\ end = "hang" /\ ~Poisoned("hang") => mem'.stuck >= Stuck("hang")
  <2>1. CASE Poisoned(end) /\ mem # None
    <3>1. mem' = Condemn(mem) /\ Condemn(mem) \in Record /\ Condemn(mem).sid = 0
          /\ Condemn(mem).stuck = 0 /\ Condemn(mem).marked
      BY <1>0, <2>1, FinishIs, OutcomeIs, CondemnIs
    <3>2. truth'.streak = 0 /\ (end = "hang" => Poisoned("hang"))
      BY <1>2, <2>1
    <3> QED BY <1>0, <3>1, <3>2, <2>1 DEF Clean, Hung, Marked
  <2>2. CASE Outcome(sid, end, size) = None
    <3>1. mem' = None /\ (sid = 0 \/ Poisoned(end))
      <4>1. CASE Poisoned(end)
        <5>1. mem = None
          BY <1>0, <2>2, <4>1, OutcomeIs, CondemnIs
        <5> QED BY <2>2, <4>1, <5>1, FinishIs
      <4>2. CASE ~Poisoned(end)
        <5>1. sid = 0 /\ turn.rec = None
          BY <1>0, <2>2, <4>2, OutcomeIs
        <5>2. mem = None
          BY <1>1, <5>1 DEF Shape, Works, Working
        <5> QED BY <2>2, <5>1, <5>2, FinishIs
      <4> QED BY <4>1, <4>2
    <3>2. mem = None \/ mem = mem
      OBVIOUS
    <3>3. truth'.streak <= 0
      <4>1. mem = None
        BY <2>2, <3>1, FinishIs
      <4> QED BY <1>0, <1>3, <4>1 DEF Spent, Hung
    <3> QED BY <3>1, <3>3 DEF Clean, Hung, Marked
  <2>3. CASE ~Poisoned(end) /\ Outcome(sid, end, size) # None
    <3> DEFINE r == Outcome(sid, end, size)
    <3>1. mem' = r /\ r.stuck = Stuck(end) /\ r \in Record
      BY <1>0, <2>3, FinishIs, OutcomeIs
    <3>2. Hung(mem)'
      <4>1. CASE turn.rec = None
        <5>1. truth'.streak <= 0
          BY <1>0, <1>3, <1>7, <4>1, <1>1 DEF Hung
        <5> QED BY <1>0, <1>3, <3>1, <5>1 DEF Hung
      <4>2. CASE turn.rec # None
        <5>1. truth.streak <= turn.rec.stuck /\ turn.rec.stuck \in Nat
          BY <1>0, <1>1, <4>2 DEF Spent, Hung, Started, Record
        <5>2. end = "ok" \/ turn.rec.stuck <= Stuck(end)
          BY <4>2, <5>1, StuckIs DEF Ends
        <5>3. truth'.streak <= Stuck(end)
          BY <1>0, <1>2, <1>3, <5>1, <5>2
        <5> QED BY <1>0, <3>1, <5>3 DEF Hung
      <4> QED BY <4>1, <4>2
    <3>3. CASE sid = 0
      <4>1. turn.rec # None
        BY <1>0, <2>3, <3>3, OutcomeIs
      <4>2. /\ r.sid = turn.rec.sid /\ r.turns = turn.rec.turns /\ r.marked = turn.rec.marked
        BY <1>0, <2>3, <3>3, <4>1, OutcomeIs
      <4>3. Clean(turn.rec) /\ Marked(turn.rec) /\ turn.rec.sid <= budget.natives
        BY <1>1, <4>1 DEF Spent, Numbered, Works, Working
      <4>4. turn.rec \in Record
        BY <1>0, <4>1
      <4>5. turn.rec.sid # 0 =>
              turn.rec.sid \notin truth'.condemned /\ truth'.turns[turn.rec.sid] <= turn.rec.turns
              /\ turn.rec.turns <= truth'.used[turn.rec.sid]
        BY <1>5, <4>1, <4>3, <4>4 DEF Clean
      <4> HIDE DEF r
      <4>6. Clean(mem)'
        BY <3>1, <4>2, <4>5 DEF Clean
      <4>7. Marked(mem)'
        BY <3>1, <4>1, <4>2, <4>3 DEF Marked
      <4>8. r # None /\ (end = "hang" => r.stuck >= Stuck("hang"))
        BY <1>0, <3>1
      <4> QED BY <2>3, <3>1, <3>2, <3>3, <4>6, <4>7, <4>8
    <3>4. CASE sid # 0
      <4>1. /\ r.sid = sid /\ ~r.marked
            /\ r.turns = IF turn.rec = None \/ turn.fresh \/ Incompatible THEN size ELSE turn.rec.turns + size
        BY <1>0, <2>3, <3>4, OutcomeIs
      <4>2. sid \in Natives /\ sid \notin truth.condemned
        BY <1>1, <3>4, ReportedIs
      <4>3. truth.turns[sid] + size <= r.turns /\ r.turns <= truth.used[sid] + size /\ r.turns \in Nat
        <5>1. CASE /\ turn.rec # None /\ ~turn.fresh /\ ~Incompatible /\ turn.rec.sid = sid
          <6>1. Clean(turn.rec) /\ turn.rec.turns \in Nat
            BY <1>0, <1>1, <5>1 DEF Spent, Works, Working, Record
          <6>2. truth.turns[sid] <= turn.rec.turns /\ turn.rec.turns <= truth.used[sid]
            BY <3>4, <5>1, <6>1 DEF Clean
          <6>3. r.turns = turn.rec.turns + size
            BY <4>1, <5>1
          <6> HIDE DEF r
          <6> QED BY <1>0, <4>2, <6>1, <6>2, <6>3
        <5>2. CASE /\ turn.rec = None \/ turn.fresh \/ Incompatible
                   /\ truth.turns[sid] = 0 /\ truth.used[sid] = 0
          <6>1. r.turns = size
            BY <4>1, <5>2
          <6> HIDE DEF r
          <6> QED BY <1>0, <5>2, <6>1
        <5> QED BY <1>1, <3>4, <5>1, <5>2, ReportedIs
      <4> HIDE DEF r
      <4>4. truth'.used[sid] = truth.used[sid] + size /\ truth'.turns = truth.turns
        BY <1>2, <4>2
      <4>5. truth.turns[sid] \in Nat /\ truth.used[sid] \in Nat
        BY <1>0, <4>2
      <4>6. truth'.turns[sid] <= r.turns /\ r.turns <= truth'.used[sid]
            /\ truth'.turns[sid] + size <= r.turns
        BY <1>0, <4>3, <4>4, <4>5
      <4>7. Clean(mem)'
        BY <1>2, <3>1, <4>1, <4>2, <4>6 DEF Clean
      <4>8. Marked(mem)'
        BY <3>1, <3>4, <4>1 DEF Marked
      <4>9. r # None /\ (end = "hang" => r.stuck >= Stuck("hang"))
        BY <1>0, <3>1
      <4> QED BY <2>3, <3>1, <3>2, <4>1, <4>6, <4>7, <4>8, <4>9
    <3> QED BY <3>3, <3>4
  <2>4. Poisoned(end) /\ mem = None => Outcome(sid, end, size) = None
    BY <1>0, OutcomeIs
  <2> QED BY <2>1, <2>2, <2>3, <2>4
<1>9. ~Works' /\ Started'
  BY <1>1 DEF Works, Working, Started
<1> QED BY <1>1, <1>6, <1>7, <1>8, <1>9 DEF Spent

LEMMA NumbersAreNatives ==
  ASSUME TypeOK, Numbered
  PROVE  \A s \in Nat : s # 0 /\ s <= budget.natives => s \in Natives
<1>1. /\ budget.natives \in Nat /\ budget.turns \in Nat /\ MaxTurns \in Nat /\ Len(queue) \in Nat
  BY SessionsAssumption, LenProperties DEF TypeOK
<1>2. budget.natives <= MaxTurns
  BY <1>1 DEF Numbered
<1> QED BY <1>1, <1>2 DEF Natives

LEMMA SpentSettlement ==
  ASSUME TypeOK, Shape, Numbered, Spent, Settlement
  PROVE  Spent'
<1>0. /\ turn.rec \in Record \cup {None} /\ mem \in Record \cup {None}
      /\ disk \in Record \cup {None} /\ None \notin Record
      /\ NoTurn.at = "none" /\ truth.streak \in Nat /\ StuckAfter \in Nat /\ StuckAfter > 0
      /\ \A s \in Natives : truth.turns[s] \in Nat /\ truth.used[s] \in Nat
  BY NoneIsNoRecord, TurnSteps, SessionsAssumption DEF TypeOK, Turns, Optional, Truths
<1>1. /\ turn.at = "persist" /\ turn'.at = "none" /\ mem' = mem
      /\ Started /\ ~Started' /\ ~Works'
  BY <1>0 DEF Settlement, Started, Works, Working
<1>2. CASE disk' = disk /\ truth' = [truth EXCEPT !.quiet = now]
  BY <1>1, <1>2, Unsettled DEF Spent, Clean, Hung, Marked
<1>3. CASE disk' = mem /\ Settle(TRUE)
  <2> DEFINE hung == IF turn.rec = None /\ turn.sid = 0 THEN 0 ELSE truth.streak + 1
  <2>1. hung \in Nat /\ Stuck("hang") \in Nat /\ hung <= Stuck("hang")
    BY <1>1, HangCounts
  <2>2. /\ truth'.streak = IF turn.end # "hang" THEN truth.streak
                           ELSE IF hung >= StuckAfter \/ Poisoned(turn.end) THEN 0 ELSE hung
        /\ truth'.condemned = IF turn.end # "hang" \/ hung < StuckAfter THEN truth.condemned
                              ELSE (truth.condemned \cup {turn.sid, turn.resume}) \ {0}
    BY <1>3, SettledHangs
  <2>3. hung # 0 => ~(turn.rec = None /\ turn.sid = 0)
    OBVIOUS
  <2>4. turn.rec = None /\ turn.sid = 0 => hung = 0
    OBVIOUS
  <2> HIDE DEF hung
  <2>5. truth'.condemned = truth.condemned \/ Poisoned(turn.end)
    BY <1>0, <2>1, <2>2 DEF Poisoned
  <2>6. CASE mem = None
    <3>1. truth.streak = 0 /\ turn.rec = None
      BY <1>0, <1>1, <2>6 DEF Spent, Hung, Shape
    <3>2. turn.sid = 0 \/ Poisoned(turn.end)
      BY <1>1, <2>6 DEF Spent
    <3>3. truth'.streak = 0
      BY <2>2, <2>4, <3>1, <3>2
    <3> QED BY <1>1, <1>3, <2>6, <3>3 DEF Spent, Clean, Hung, Marked
  <2>7. CASE mem # None
    <3>0. mem \in Record /\ mem.stuck \in Nat /\ mem.turns \in Nat
      BY <1>0, <2>7 DEF Record
    <3>1. Hung(mem)'
      <4>1. truth.streak <= mem.stuck
        BY <2>7 DEF Spent, Hung
      <4>2. turn.end = "hang" /\ ~Poisoned(turn.end) => hung <= mem.stuck
        <5>1. turn.end = "hang" /\ ~Poisoned("hang") => mem.stuck >= Stuck("hang")
          BY <1>1, <2>7 DEF Spent
        <5> QED BY <2>1, <3>0, <5>1
      <4>3. truth'.streak <= mem.stuck
        BY <1>0, <2>1, <2>2, <3>0, <4>1, <4>2
      <4> QED BY <1>1, <2>7, <4>3 DEF Hung
    <3>2. Clean(mem)'
      <4> SUFFICES ASSUME mem.sid # 0
                   PROVE  mem.sid \notin truth'.condemned /\ truth'.turns[mem.sid] <= mem.turns
                          /\ mem.turns <= truth'.used[mem.sid]
        BY <1>1 DEF Clean
      <4>1. ~Poisoned(turn.end)
        BY <1>1, <2>7 DEF Spent
      <4>2. /\ mem.sid \notin truth.condemned /\ truth.turns[mem.sid] <= mem.turns
            /\ mem.turns <= truth.used[mem.sid]
        BY <2>7 DEF Spent, Clean
      <4>3. truth'.used = truth.used /\ truth'.condemned = truth.condemned
        BY <1>3, <2>5, <4>1, SettleIs
      <4>4. CASE turn.sid = 0
        <5>1. truth'.turns = truth.turns
          <6>1. truth'.turns = Counted(truth.turns, 0, turn.size)
            BY <1>3, <4>4 DEF Settle
          <6>2. \A s \in Natives : s # 0
            BY DEF Natives
          <6> QED BY <6>1, <6>2 DEF Counted, TypeOK, Truths
        <5> QED BY <4>2, <4>3, <5>1
      <4>5. CASE turn.sid # 0
        <5>1. mem.sid = turn.sid /\ truth.turns[turn.sid] + turn.size <= mem.turns
          BY <1>1, <2>7, <4>5 DEF Spent
        <5>2. truth'.turns[mem.sid] <= mem.turns
          <6>1. mem.sid \in Nat /\ mem.sid <= budget.natives
            BY <2>7, <3>0 DEF Numbered, Record
          <6> QED BY <1>3, <5>1, <6>1, NumbersAreNatives, SettleIs
        <5> QED BY <4>2, <4>3, <5>2
      <4> QED BY <4>4, <4>5
    <3>3. Marked(mem)
      BY DEF Spent
    <3> QED BY <1>1, <1>3, <3>1, <3>2, <3>3 DEF Spent, Clean, Hung, Marked
  <2> QED BY <2>6, <2>7
<1>4. CASE disk' = disk /\ Settle(TRUE) /\ mem = None /\ (turn.sid = 0 \/ Poisoned(turn.end))
  <2>1. disk = None
    BY <1>4 DEF Shape
  <2> QED BY <1>3, <1>4, <2>1
<1> QED BY <1>2, <1>3, <1>4 DEF Settlement

LEMMA SpentKept ==
  ASSUME TypeOK, Shape, Awaited, Numbered, Spent, TypeOK', [Next]_vars
  PROVE  Spent'
<1>0. /\ turn.rec \in Record \cup {None} /\ mem \in Record \cup {None}
      /\ disk \in Record \cup {None} /\ None \notin Record
      /\ NoTurn.at = "none" /\ NoTurn.rec = None
      /\ (disk # None => disk.stuck \in Nat) /\ (mem # None => mem.stuck \in Nat)
  BY NoneIsNoRecord, TurnSteps DEF TypeOK, Turns, Optional, Record
<1>1. CASE WorkOn
  BY <1>1 DEF WorkOn, Spent, Clean, Hung, Marked, Works, Working, Started, Poisoned, Stuck
<1>2. CASE Receive \/ Stamp
  <2>1. /\ mem = None => mem' = None
        /\ mem # None => /\ mem' # None
                         /\ mem'.sid = mem.sid /\ mem'.turns = mem.turns /\ mem'.stuck = mem.stuck
                         /\ mem'.marked = mem.marked
        /\ UNCHANGED <<disk, turn, truth>>
    BY <1>0, <1>2, MemSteps
  <2>2. (Poisoned(turn.end)' <=> Poisoned(turn.end)) /\ (Poisoned("hang")' <=> Poisoned("hang"))
        /\ Stuck("hang")' = Stuck("hang")
    BY <2>1 DEF Poisoned, Stuck
  <2>3. Clean(mem)' /\ Hung(mem)' /\ Marked(mem)'
    BY <2>1 DEF Spent, Clean, Hung, Marked
  <2>4. /\ Clean(disk)' /\ (Works' => Clean(turn.rec)') /\ Hung(disk)' /\ (Started' => Hung(turn.rec)')
        /\ Marked(disk)' /\ (Works' => Marked(turn.rec)')
    BY <2>1 DEF Spent, Clean, Hung, Marked, Works, Started
  <2> QED BY <2>1, <2>2, <2>3, <2>4 DEF Spent
<1>3. CASE Begin
  <2>1. turn'.rec = mem /\ turn'.at = "setup" /\ UNCHANGED <<disk, mem, truth>>
    BY <1>3, BeginIs
  <2> QED BY <2>1 DEF Spent, Clean, Hung, Marked
<1>4. CASE GhostRetry
  <2>1. /\ mem' # None /\ mem'.sid = 0 /\ mem'.stuck = 0 /\ mem'.marked
        /\ turn'.rec # None /\ turn'.rec.sid = 0 /\ turn'.rec.stuck = 0 /\ turn'.rec.marked
        /\ turn'.at = "mark" /\ disk' = disk
    BY <1>0, <1>4, GhostIs, CondemnIs
  <2>2. /\ truth'.turns = truth.turns /\ truth'.used = truth.used
        /\ truth'.condemned = truth.condemned /\ truth'.streak = 0
    BY <1>4, GhostIs DEF TypeOK, Truths
  <2>3. Hung(disk)'
    BY <1>0, <2>1, <2>2 DEF Hung
  <2> QED BY <2>1, <2>2, <2>3 DEF Spent, Clean, Hung, Marked
<1>5. CASE GivenUp
  <2>1. /\ truth'.turns = truth.turns /\ truth'.used = truth.used /\ truth'.streak = truth.streak
        /\ truth'.condemned = truth.condemned
    BY <1>5, Unsettled DEF GivenUp
  <2>2. turn'.at = "none" /\ disk' = disk /\ mem' \in {mem, disk}
    BY <1>0, <1>5 DEF GivenUp
  <2> QED BY <2>1, <2>2 DEF Spent, Clean, Hung, Marked, Works, Working, Started
<1> QED BY <1>1, <1>2, <1>3, <1>4, <1>5, StepKinds, SpentSettlement, SpentFinish

\* Only Spawn starts a run.
LEMMA OnlySpawnStarts ==
  ASSUME TypeOK, Awaited, [Next]_vars, Starts
  PROVE  turn'.resume = Resumed
<1>0. turn \in Turns /\ NoTurn.at = "none"
  BY TurnSteps DEF TypeOK
<1>1. CASE Spawn
  <2>1. turn' = [turn EXCEPT !.at = "run", !.resume = Resumed]
    BY <1>1 DEF Spawn
  <2> QED BY <1>0, <2>1 DEF Turns
<1>2. CASE Background
  BY <1>2, BackgroundIsQuiet DEF Quietly, Starts
<1>3. CASE Receive \/ Stamp \/ SetUp \/ RunFails \/ FinishBare \/ Restart
  <2>1. turn' = turn \/ turn.at = "setup" \/ turn' = NoTurn
    BY <1>3 DEF Receive, Stamp, SetUp, RunFails, FinishBare, Restart
  <2> QED BY <1>0, <2>1 DEF Starts
<1>4. CASE Begin \/ GhostRetry
  BY <1>4 DEF Begin, GhostRetry, Starts
<1>5. ASSUME NEW sid \in Reports, NEW end \in {"ok", "failed", "hang"}, NEW size \in Sizes, Finish(sid, end, size) PROVE FALSE
  BY <1>5 DEF Finish, Starts
<1>6. ASSUME NEW ok \in BOOLEAN, Write(ok) PROVE FALSE
  BY <1>0, <1>6, WriteIs DEF Starts
<1> QED BY <1>1, <1>2, <1>3, <1>4, <1>5, <1>6 DEF Next, Background

LEMMA SpentStep ==
  ASSUME TypeOK, Shape, Awaited, Numbered, Spent, [Next]_vars
  PROVE  [Starts /\ turn'.resume # 0 =>
            turn'.resume \notin truth.condemned /\ truth.turns[turn'.resume] < TurnLimit]_vars
<1> SUFFICES ASSUME Starts, turn'.resume # 0
             PROVE  turn'.resume \notin truth.condemned /\ truth.turns[turn'.resume] < TurnLimit
  OBVIOUS
<1>1. turn.rec # None /\ ~turn.fresh /\ turn'.resume = turn.rec.sid
  BY OnlySpawnStarts DEF Resumed
<1>2. Works
  BY DEF Starts, Works, Working
<1>3. Clean(turn.rec) /\ turn.rec.turns < TurnLimit
  BY <1>1, <1>2 DEF Spent, Shape
<1>4. turn.rec.sid \notin truth.condemned /\ truth.turns[turn.rec.sid] <= turn.rec.turns
  BY <1>1, <1>3 DEF Clean
<1>5. turn.rec.turns \in Nat /\ TurnLimit \in Nat
  BY <1>1, SessionsAssumption DEF TypeOK, Turns, Optional, Record
<1>6. truth.turns[turn.rec.sid] \in Nat
  <2>1. turn.rec.sid \in Nat /\ turn.rec.sid <= budget.natives
    BY <1>1 DEF Numbered, TypeOK, Turns, Optional, Record
  <2> QED BY <1>1, <2>1, NumbersAreNatives DEF TypeOK, Truths
<1> QED BY <1>1, <1>3, <1>4, <1>5, <1>6

-----------------------------------------------------------------------------
(* Sessions that can go on.                                                *)

\* No turn waits longer than a direct chat may be idle (the default, no idle
\* limit, is a horizon out of reach).
StartsInTime == Sticky => StickyIdle >= MaxSpan

LEMMA ContinuedFinish ==
  ASSUME TypeOK, Shape, Prompt, Numbered, Continued, NEW sid \in Reports, NEW end \in Ends, NEW size \in Sizes, Finish(sid, end, size)
  PROVE  Continued'
<1>0. /\ turn.rec \in Record \cup {None} /\ None \notin Record /\ now \in Nat /\ config \in Nat
      /\ sid \in Nat /\ TurnLimit \in Nat /\ truth.latest \in Nat /\ size \in Nat
      /\ \A s \in Natives : truth.used[s] \in Nat
  BY NoneIsNoRecord, ReportTypes, SizeIs, SessionsAssumption DEF TypeOK, Turns, Optional, Truths
<1>1. /\ turn.at = "run" /\ turn'.at = "persist" /\ turn'.sid = sid /\ turn'.rec = turn.rec
      /\ UNCHANGED <<disk, config, now>> /\ (Poisoned(turn.end)' <=> Poisoned(end))
  BY FinishIs
<1>2. /\ truth'.latest = IF Poisoned(end) THEN 0 ELSE truth.latest
      /\ truth'.compat = truth.compat
      /\ \A s \in Natives : truth'.used[s] = IF s = sid THEN truth.used[s] + size ELSE truth.used[s]
      /\ DOMAIN queue' = DOMAIN queue
      /\ \A i \in DOMAIN queue : queue'[i].received = queue[i].received
  BY FinishBooks
<1>3. \A i \in DOMAIN queue' : queue'[i].received <= now
  BY <1>2 DEF Prompt
<1>4. ASSUME Alive' PROVE Alive /\ ~Poisoned(end) /\ truth'.latest = truth.latest
  <2>1. truth.latest # 0 /\ ~Poisoned(end) /\ truth'.latest = truth.latest /\ truth.compat = config
    BY <1>1, <1>2, <1>4 DEF Alive
  <2>2. truth.latest \in Natives
    BY <1>0, <2>1, NumbersAreNatives DEF Numbered
  <2>3. truth.used[truth.latest] < TurnLimit
    <3>1. truth'.used[truth.latest] < TurnLimit
      BY <1>4, <2>1 DEF Alive
    <3>2. truth.used[truth.latest] \in Nat
      BY <1>0, <2>2
    <3> QED BY <1>0, <1>2, <2>2, <3>1, <3>2
  <2> QED BY <2>1, <2>3 DEF Alive
<1>5. ASSUME Alive' PROVE Has(mem, truth.latest)' /\ Has(disk, truth.latest)' /\ Recent'
  <2>1. /\ Has(turn.rec, truth.latest) /\ ~turn.fresh /\ Has(disk, truth.latest) /\ truth.latest # 0
    BY <1>1, <1>4, <1>5 DEF Continued, Alive, Works, Working
  <2>2. turn.rec # None /\ turn.rec.sid = truth.latest /\ turn.rec.compat = config /\ ~turn.rec.marked
    BY <2>1 DEF Has
  <2>3. turn.resume = truth.latest
    BY <1>1, <2>1, <2>2 DEF Shape, Resumed, Incompatible
  <2>4. sid \in {0, truth.latest}
    BY <2>1, <2>3, ReportTypes
  <2> DEFINE r == Outcome(sid, end, size)
  <2>5. r \in Record /\ r.sid = truth.latest /\ r.compat = config /\ ~r.marked /\ r.at = now
    <3>1. CASE sid = 0
      BY <1>0, <1>4, <1>5, <2>1, <2>2, <3>1, OutcomeIs
    <3>2. CASE sid # 0
      BY <1>0, <1>4, <1>5, <2>4, <3>2, OutcomeIs
    <3> QED BY <3>1, <3>2
  <2>6. mem' = r
    BY <1>0, <2>5, FinishIs
  <2> HIDE DEF r
  <2>7. Recent'
    BY <1>0, <1>3, <2>5, <2>6 DEF Recent
  <2>8. Has(mem, truth.latest)' /\ Has(disk, truth.latest)'
    BY <1>0, <1>1, <1>4, <1>5, <2>1, <2>5, <2>6 DEF Has
  <2> QED BY <2>7, <2>8
<1>6. ASSUME sid # 0, ~Poisoned(end) PROVE Has(mem, turn.sid)' /\ Recent'
  <2> DEFINE r == Outcome(sid, end, size)
  <2>1. r \in Record /\ r.sid = sid /\ r.compat = config /\ ~r.marked /\ r.at = now
    BY <1>0, <1>6, OutcomeNamed
  <2>2. mem' = r
    BY <1>0, <2>1, FinishIs
  <2> HIDE DEF r
  <2> QED BY <1>0, <1>1, <1>3, <2>1, <2>2 DEF Recent, Has
<1>7. truth'.compat <= config'
  BY <1>1, <1>2 DEF Continued
<1> QED BY <1>1, <1>5, <1>6, <1>7 DEF Continued, Works, Working

LEMMA ContinuedSettlement ==
  ASSUME TypeOK, Continued, Settlement
  PROVE  Continued'
<1>1. /\ turn.at = "persist" /\ turn'.at = "none" /\ UNCHANGED <<config, mem, queue>>
      /\ disk' \in {disk, mem} /\ config \in Nat
  BY TurnSteps DEF Settlement, TypeOK
<1>2. CASE truth' = [truth EXCEPT !.quiet = now] /\ disk' = disk
  BY <1>1, <1>2, Unsettled DEF Continued, Alive, Has, Recent, Works, Working
<1>3. CASE Settle(TRUE) /\ (disk' = mem \/ (mem = None /\ (turn.sid = 0 \/ Poisoned(turn.end))))
  <2>1. /\ truth'.used = truth.used
        /\ truth'.latest = IF Poisoned(turn.end) THEN 0
                           ELSE IF turn.sid # 0 THEN turn.sid ELSE truth.latest
        /\ truth'.compat = IF turn.sid # 0 THEN config ELSE truth.compat
    BY <1>3, SettleIs
  <2>2. truth'.compat <= config'
    BY <1>1, <2>1 DEF Continued
  <2>3. CASE Poisoned(turn.end)
    BY <1>1, <2>1, <2>2, <2>3 DEF Continued, Alive, Works, Working
  <2>4. CASE ~Poisoned(turn.end) /\ turn.sid # 0
    <3>1. Has(mem, turn.sid) /\ Recent
      BY <1>1, <2>4 DEF Continued
    <3>2. disk' = mem
      BY <1>3, <2>4, <3>1 DEF Has
    <3> QED BY <1>1, <2>1, <2>2, <2>4, <3>1, <3>2 DEF Continued, Alive, Has, Recent, Works, Working
  <2>5. CASE ~Poisoned(turn.end) /\ turn.sid = 0
    BY <1>1, <2>1, <2>2, <2>5 DEF Continued, Alive, Has, Recent, Works, Working
  <2> QED BY <2>3, <2>4, <2>5
<1> QED BY <1>2, <1>3 DEF Settlement

\* A turn that starts in time is not reseeded.
LEMMA NotReseeded ==
  ASSUME TypeOK, Prompt, Numbered, Spent, Continued, StartsInTime, Alive, Begin
  PROVE  ~Reseeds(mem)
<1>1. Has(mem, truth.latest) /\ Recent /\ truth.latest # 0
  BY DEF Continued, Alive
<1>2. /\ mem \in Record /\ mem.at \in Nat /\ mem.turns \in Nat /\ mem.sid = truth.latest /\ ~mem.marked
      /\ now \in Nat /\ truth.latest \in Nat
  BY <1>1 DEF Has, TypeOK, Optional, Record, Truths
<1>3. mem.turns < TurnLimit
  <2>1. mem.turns <= truth.used[truth.latest] /\ truth.used[truth.latest] < TurnLimit
    BY <1>1, <1>2, NoneIsNoRecord DEF Spent, Clean, Alive
  <2>2. truth.latest \in Natives
    BY <1>1, <1>2, NumbersAreNatives DEF Numbered
  <2>3. truth.used[truth.latest] \in Nat /\ TurnLimit \in Nat
    BY <2>2, SessionsAssumption DEF TypeOK, Truths
  <2> QED BY <1>2, <2>1, <2>3
<1>4. Sticky => now - mem.at <= StickyIdle
  <2>1. 1 \in DOMAIN queue
    BY Tails DEF Begin, TypeOK
  <2>2. queue[1] \in Queued
    BY <2>1, ElementOfSeq, LenProperties DEF TypeOK
  <2>3. queue[1].received \in Nat
    BY <2>2 DEF Queued
  <2>4. mem.at >= queue[1].received /\ now <= queue[1].received + MaxSpan
    BY <1>1, <2>1 DEF Recent, Prompt
  <2>5. MaxSpan \in Nat /\ StickyIdle \in Nat
    BY SessionsAssumption
  <2> QED BY <1>2, <2>3, <2>4, <2>5 DEF StartsInTime
<1>5. TurnLimit \in Nat /\ StickyIdle \in Nat
  BY SessionsAssumption
<1>6. ~(mem.turns >= TurnLimit) /\ ~(Sticky /\ now - mem.at > StickyIdle)
  BY <1>2, <1>3, <1>4, <1>5
<1> QED BY <1>2, <1>6 DEF Reseeds

LEMMA ContinuedKept ==
  ASSUME TypeOK, Shape, Awaited, Prompt, Numbered, Spent, Continued, TypeOK', [Next]_vars, StartsInTime
  PROVE  Continued'
<1>0. /\ mem \in Record \cup {None} /\ None \notin Record /\ NoTurn.at = "none"
      /\ now \in Nat /\ config \in Nat /\ truth.compat \in Nat
      /\ (mem # None => mem.at \in Nat)
  BY NoneIsNoRecord, TurnSteps DEF TypeOK, Optional, Record, Truths
<1>1. CASE WorkOn
  <2>1. UNCHANGED <<config, mem, queue, truth>> /\ disk' \in {disk, mem}
    BY <1>1 DEF WorkOn
  <2>2. (Alive' <=> Alive) /\ (Recent' <=> Recent) /\ truth'.compat <= config'
    BY <2>1 DEF Alive, Recent, Continued
  <2>3. Alive => Has(mem, truth.latest)' /\ Has(disk, truth.latest)'
    BY <2>1 DEF Continued, Has
  <2>4. CASE turn' = turn
    BY <2>1, <2>2, <2>3, <2>4 DEF Continued, Has, Works, Poisoned, Stuck
  <2>5. CASE Works /\ Works' /\ turn'.rec = turn.rec /\ turn'.fresh = turn.fresh
    BY <2>1, <2>2, <2>3, <2>5 DEF Continued, Has, Works, Working
  <2> QED BY <1>1, <2>4, <2>5 DEF WorkOn
<1>2. CASE Receive \/ Stamp
  <2>1. /\ mem # None => /\ mem' # None
                         /\ mem'.sid = mem.sid /\ mem'.marked = mem.marked /\ mem'.compat = mem.compat
        /\ UNCHANGED <<config, disk, turn, truth>>
    BY <1>0, <1>2, MemSteps
  <2>2. mem # None /\ Recent => Recent'
    <3>1. CASE Stamp
      BY <1>0, <3>1, MemSteps DEF Stamp, Recent
    <3>2. CASE Receive
      <4> DEFINE q == [n |-> budget.turns, received |-> now, touched |-> mem # None]
      <4>1. q \in Queued /\ queue' = Append(queue, q) /\ q.received = now
        BY <3>2 DEF Receive, Queued, TypeOK
      <4> HIDE DEF q
      <4>2. \A i \in DOMAIN queue' : (i \in DOMAIN queue /\ queue'[i] = queue[i]) \/ queue'[i] = q
        BY <4>1, Appends DEF TypeOK
      <4>3. \A i \in DOMAIN queue' : queue'[i].received <= now
        BY <1>0, <4>1, <4>2 DEF Prompt
      <4>4. mem # None => mem'.at = now
        BY <3>2, MemSteps
      <4>5. \A i \in DOMAIN queue' : queue'[i].received \in Nat
        <5>1. \A i \in DOMAIN queue' : queue'[i] \in Queued
          BY ElementOfSeq, LenProperties DEF TypeOK
        <5> QED BY <5>1 DEF Queued
      <4> QED BY <1>0, <4>3, <4>4, <4>5 DEF Recent
    <3> QED BY <1>2, <3>1, <3>2
  <2>3. (Alive' <=> Alive) /\ (Poisoned(turn.end)' <=> Poisoned(turn.end)) /\ truth'.compat <= config'
    BY <2>1 DEF Alive, Poisoned, Stuck, Continued
  <2>4. Alive' => /\ Has(mem, truth.latest)' /\ Has(disk, truth.latest)' /\ Recent'
                  /\ (Works' => Has(turn.rec, truth.latest)' /\ ~turn'.fresh)
    BY <2>1, <2>2, <2>3 DEF Continued, Has, Works
  <2>5. turn'.at = "persist" /\ turn'.sid # 0 /\ ~Poisoned(turn.end)' => Has(mem, turn.sid)' /\ Recent'
    BY <2>1, <2>2, <2>3 DEF Continued, Has
  <2> QED BY <2>3, <2>4, <2>5 DEF Continued
<1>3. CASE Begin
  <2>1. /\ turn'.rec = mem /\ turn'.fresh = Reseeds(mem) /\ turn'.at = "setup" /\ queue # << >>
        /\ UNCHANGED <<config, disk, mem, truth>> /\ queue' = Tail(queue)
    BY <1>3, BeginIs DEF Begin
  <2>2. \A i \in DOMAIN queue' : i + 1 \in DOMAIN queue /\ queue'[i] = queue[i + 1]
    BY <2>1, Tails DEF TypeOK
  <2>3. Recent => Recent'
    BY <2>1, <2>2 DEF Recent
  <2>4. Alive' <=> Alive
    BY <2>1 DEF Alive
  <2>5. Alive => ~Reseeds(mem)
    BY <1>3, NotReseeded
  <2> QED BY <2>1, <2>3, <2>4, <2>5 DEF Continued, Has
<1>4. CASE GhostRetry
  <2>1. turn'.at = "mark" /\ config' = config
    BY <1>4, GhostIs
  <2>2. truth'.latest = 0 /\ truth'.compat = truth.compat
    BY <1>4, GhostIs DEF TypeOK, Truths
  <2> QED BY <2>1, <2>2 DEF Continued, Alive
<1>5. CASE GivenUp
  <2>1. truth'.used = truth.used /\ truth'.latest = truth.latest /\ truth'.compat = truth.compat
    BY <1>5, Unsettled DEF GivenUp
  <2>2. turn'.at = "none" /\ disk' = disk
    BY <1>0, <1>5 DEF GivenUp
  <2>3. CASE UNCHANGED <<config, mem, queue>>
    BY <2>1, <2>2, <2>3 DEF Continued, Alive, Has, Recent, Works, Working
  <2>4. CASE config' \in {config, config + 1} /\ mem' = disk /\ queue' = << >>
    <3>1. truth'.compat <= config' /\ (Alive' => Alive /\ config' = config)
      BY <1>0, <2>1, <2>4 DEF Continued, Alive
    <3>2. DOMAIN queue' = {}
      BY <2>4
    <3> QED BY <2>1, <2>2, <2>4, <3>1, <3>2 DEF Continued, Has, Recent, Works, Working
  <2> QED BY <1>5, <2>3, <2>4 DEF GivenUp
<1> QED BY <1>1, <1>2, <1>3, <1>4, <1>5, StepKinds, ContinuedSettlement, ContinuedFinish

LEMMA ContinuedStep ==
  ASSUME TypeOK, Shape, Awaited, Numbered, Continued, [Next]_vars
  PROVE  [Starts /\ turn'.resume = 0 =>
            \/ truth.latest = 0 \/ truth.compat # config
            \/ truth.used[truth.latest] >= TurnLimit
            \/ Sticky /\ now - truth.quiet > StickyIdle]_vars
<1> SUFFICES ASSUME Starts, turn'.resume = 0, truth.latest # 0, truth.compat = config
             PROVE  truth.used[truth.latest] >= TurnLimit
  OBVIOUS
<1>1. Works
  BY DEF Starts, Works, Working
<1>2. ~Alive
  <2> SUFFICES ASSUME Alive PROVE FALSE
    OBVIOUS
  <2>1. Has(turn.rec, truth.latest) /\ ~turn.fresh
    BY <1>1 DEF Continued
  <2>2. Resumed = truth.latest
    BY <2>1 DEF Has, Resumed, Incompatible
  <2> QED BY <2>2, OnlySpawnStarts
<1>3. truth.latest \in Natives
  BY NumbersAreNatives DEF Numbered, TypeOK, Truths
<1>4. truth.used[truth.latest] \in Nat /\ TurnLimit \in Nat
  BY <1>3, SessionsAssumption DEF TypeOK, Truths
<1> QED BY <1>2, <1>4 DEF Alive

-----------------------------------------------------------------------------
(* The theorems.                                                           *)

IInv == TypeOK /\ Shape /\ Awaited /\ Prompt /\ Numbered /\ Spent

LEMMA InitIInv == Init => IInv /\ Continued
<1> SUFFICES ASSUME Init PROVE IInv /\ Continued
  OBVIOUS
<1>1. /\ TypeOK /\ turn = NoTurn /\ mem = None /\ disk = None /\ writes = << >> /\ queue = << >>
      /\ turn.at = "none" /\ turn.rec = None /\ turn.resume = 0 /\ turn.sid = 0 /\ ~turn.touched
      /\ DOMAIN writes = {} /\ DOMAIN queue = {} /\ gc.saw = {}
  BY InitTypes, TurnSteps DEF Init, NoTurn, NoGc
<1>2. /\ truth.streak = 0 /\ truth.condemned = {} /\ truth.latest = 0 /\ truth.compat = 0
      /\ \A s \in Natives : truth.turns[s] = 0 /\ truth.used[s] = 0
  BY DEF Init
<1>3. budget.natives = 0 /\ budget.turns \in 0..MaxTurns /\ MaxTurns \in Nat
  BY SessionsAssumption DEF Init
<1>4. Shape /\ Awaited /\ Prompt /\ Spent
  BY <1>1, <1>2 DEF Shape, Awaited, Prompt, Spent, Clean, Hung, Marked, Works, Working, Started
<1>5. Numbered
  <2>1. Len(queue) = 0 /\ ~Works
    BY <1>1, EmptySeq DEF Works, Working
  <2> QED BY <1>1, <1>2, <1>3, <2>1 DEF Numbered
<1>6. Continued
  BY <1>1, <1>2 DEF Init, Continued, Alive
<1> QED BY <1>1, <1>4, <1>5, <1>6 DEF IInv

LEMMA NextIInv == IInv /\ [Next]_vars => IInv'
BY NextTypes, ShapeKept, AwaitedKept, PromptKept, NumberedKept, SpentKept DEF IInv

\* Every variable keeps its type (SessionStore and handleOne).
THEOREM TypeCorrect == Spec => []TypeOK
<1>1. IInv => TypeOK
  BY DEF IInv
<1> QED BY InitIInv, NextIInv, <1>1, PTL DEF Spec

\* A condemned or full native session is never resumed (the stuck-session reset
\* and the history-limit reseed of handleOne), whatever restarts, failed writes
\* and lost sessions come in between.
THEOREM CondemnedStayAside == Spec => SpentNotResumed
<1>1. IInv /\ [Next]_vars =>
        [Starts /\ turn'.resume # 0 =>
           turn'.resume \notin truth.condemned /\ truth.turns[turn'.resume] < TurnLimit]_vars
  BY SpentStep DEF IInv
<1> QED BY InitIInv, NextIInv, <1>1, PTL DEF Spec, SpentNotResumed

\* A conversation that can go on does, if no turn waits longer than a direct chat
\* may be idle (load, the resume gate and the reseed decision of handleOne).
THEOREM ConversationsGoOn ==
  ASSUME StartsInTime
  PROVE  Spec => ConversationKept
<1>1. IInv /\ Continued /\ [Next]_vars => Continued'
  BY NextIInv, ContinuedKept DEF IInv
<1>2. IInv /\ Continued /\ [Next]_vars =>
        [Starts /\ turn'.resume = 0 =>
           \/ truth.latest = 0 \/ truth.compat # config
           \/ truth.used[truth.latest] >= TurnLimit
           \/ Sticky /\ now - truth.quiet > StickyIdle]_vars
  BY ContinuedStep DEF IInv
<1> QED BY InitIInv, NextIInv, <1>1, <1>2, PTL DEF Spec, ConversationKept

\* Housekeeping removes no directory under a turn that refreshed the record
\* before the scan (cleanupAgentSession).
THEOREM LiveSessionsStay == Spec => GcSparesTurns
<1>1. IInv /\ [Next]_vars => [dir # None /\ dir' = None => turn.n \notin gc.saw]_vars
  BY GcStep DEF IInv
<1> QED BY InitIInv, NextIInv, <1>1, PTL DEF Spec, GcSparesTurns
================================================================================
