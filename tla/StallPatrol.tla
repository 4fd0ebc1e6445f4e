----------------------------- MODULE StallPatrol -----------------------------
(***************************************************************************)
(* The task handle of one thread: its claim (TaskHandleStore and           *)
(* applyVerifiedClaim in src/src/tasklist), what the turns of the thread   *)
(* write back to it (applyTaskHandleWriteback) and the StallDetector that  *)
(* wakes the agent when a claimed task goes quiet and, when that does not  *)
(* help, tells the humans.                                                 *)
(*                                                                         *)
(* A time is an instant of the clock and 0 stands for undefined.  Events   *)
(* whose times the code compares never share an instant.  Operators marked *)
(* "mutant" are plausible bugs of the definition below them.               *)
(***************************************************************************)
EXTENDS Naturals

CONSTANTS
  Guids, Root,    \* tasks; the one whose card is the root of the topic
  Normal, Fast, Handoff,          \* stall thresholds: quiet, crashed, handed off
  Grace, StartupQuiet,            \* trust in a peer's receipt, and after a boot
  Cooldown, DueFloor,             \* least time between wake-ups
  PendTimeout, EscalateAfter,
  MaxTime, Allowances,            \* bounds
  Nothing        \* no claim, no task

ASSUME PatrolAssumption ==
  /\ Root \in Guids /\ Nothing \notin Guids
  /\ {Normal, Fast, Handoff, Grace, StartupQuiet, Cooldown, DueFloor,
      PendTimeout, EscalateAfter, MaxTime} \subseteq Nat
  /\ EscalateAfter > 0 /\ Handoff < Fast /\ Cooldown <= DueFloor
  /\ Allowances \subseteq
       [asks : Nat, claims : Nat, human : Nat, crashes : Nat, peer : Nat, due : Nat,
        clock : 1..MaxTime]
  /\ Nothing \notin [guid : Guids, at : Nat, mode : {"comment", "full"}, failed : BOOLEAN,
                     mention : Nat, suppress : Nat, done : BOOLEAN,
                     nudge : [count : Nat, sent : Nat, seen : Nat, escalated : BOOLEAN,
                              pending : Nat]]

VARIABLES
  now,
  last,     \* lastActiveTs of the thread's session, 0 without a session record
  recv,     \* threadReceivedAt
  rec,      \* the claim in the store, which writes it to its file at once
  wire,     \* wake-up events queued for the bridge
  inbox,    \* events received and waiting for a turn
  turn,     \* the turn of the thread
  task,     \* what the platform says of each task
  peer,     \* the other bot in the thread: received, last active, failed
  due,      \* when the root task is due, as far as the tasklist poller knows
  started,  \* when the process was started
  patrol,   \* what the detector waits for, with its local variables
  mark,     \* the wake-up last sent, and how many were followed by activity since
            \* the detector last began to count
  allowance \* what the environment may still do

patrolVars == <<now, last, recv, rec, wire, inbox, turn, task, peer, due,
                started, patrol, mark, allowance>>

NoNudge == [count |-> 0, sent |-> 0, seen |-> 0, escalated |-> FALSE, pending |-> 0]
NoTurn  == [at |-> "none", how |-> "ok", received |-> 0, guid |-> Nothing, call |-> "none"]
Asleep  == [at |-> "idle", guid |-> Nothing, t |-> 0, active |-> 0, due |-> FALSE]
NoPeer  == [recv |-> 0, active |-> 0, failed |-> FALSE]

NewClaim(g, mode) ==
  [guid |-> g, at |-> now, mode |-> mode, failed |-> FALSE, mention |-> 0,
   suppress |-> 0, done |-> FALSE, nudge |-> NoNudge]

PatrolInit ==
  /\ now = 1 /\ last = 0 /\ recv = 0 /\ rec = Nothing
  /\ wire = 0 /\ inbox = 0 /\ turn = NoTurn /\ task = [g \in Guids |-> "open"]
  /\ peer = NoPeer /\ due = 0 /\ started = 1 /\ patrol = Asleep
  /\ mark = [sent |-> 0, due |-> FALSE, heard |-> TRUE, answered |-> 0]
  /\ allowance \in Allowances

Has(what) == allowance[what] > 0
Spend(what) == allowance' = [allowance EXCEPT ![what] = @ - 1]

\* Nothing the detector compares with this instant carries it already.
Unstamped ==
  /\ now > last /\ now > recv /\ now > patrol.t
  /\ rec # Nothing => now > rec.nudge.pending /\ now > rec.at

\* What the detector takes for the last activity.
Activity == IF last # 0 THEN last ELSE rec.at

-----------------------------------------------------------------------------
(* Turns.                                                                  *)

\* The activity time moves: the wake-up last sent has been followed by it.
Moved == IF mark.heard THEN mark
         ELSE [mark EXCEPT !.heard = TRUE, !.answered = @ + 1]

\* The counting starts over.
Anew == [mark EXCEPT !.heard = TRUE, !.answered = 0]

\* run() stamps the receipt and refreshes the session record, if there is one.
Receive ==
  /\ Unstamped /\ inbox' = inbox + 1 /\ recv' = now
  /\ IF last = 0 THEN UNCHANGED <<last, mark>> ELSE last' = now /\ mark' = Moved
  /\ UNCHANGED <<now, rec, turn, task, peer, due, started, patrol>>

Ask == Has("asks") /\ Spend("asks") /\ Receive /\ UNCHANGED wire

WakeArrives == wire > 0 /\ wire' = wire - 1 /\ Receive /\ UNCHANGED allowance

\* autoClaimTaskRoot; the lookup of the task may fail.
Rooted(found) ==
  IF rec = Nothing /\ found /\ task[Root] # "gone" THEN NewClaim(Root, "comment") ELSE rec

\* A turn begins: its receipt is to be written back before the agent runs.
Begin(found) ==
  /\ turn.at = "none" /\ inbox > 0 /\ inbox' = inbox - 1
  /\ turn' = [NoTurn EXCEPT !.at = "back", !.how = "received", !.received = recv]
  /\ rec' = Rooted(found) /\ mark' = IF rec' # rec THEN Anew ELSE mark
  /\ UNCHANGED <<now, last, recv, wire, task, peer, due, started, patrol, allowance>>

\* The agent declares a task; one that cannot be read is refused.
Declare(g) ==
  IF rec # Nothing /\ rec.guid = g THEN UNCHANGED <<rec, allowance>>
  ELSE Has("claims") /\ Spend("claims")
       /\ rec' = IF task[g] = "gone" THEN rec
                 ELSE NewClaim(g, IF g = Root THEN "comment" ELSE "full")

\* The turn ends and its session is saved, but not by a turn that threw, nor
\* by the first one of a thread that failed before it had a session id.
Finish(how, saved, g) ==
  /\ turn.at = "run" /\ Unstamped
  /\ turn' = [turn EXCEPT !.at = "back", !.how = how]
  /\ saved \/ how = "threw" \/ (how = "failed" /\ last = 0)
  /\ saved => how # "threw"
  /\ IF g = Nothing THEN UNCHANGED <<rec, allowance>> ELSE how # "threw" /\ Declare(g)
  /\ last' = IF saved THEN now ELSE last
  /\ mark' = IF rec' # rec THEN Anew ELSE IF saved THEN Moved ELSE mark
  /\ UNCHANGED <<now, recv, wire, inbox, task, peer, due, started, patrol>>

\* The record written back: patrol resumes with a turn; after one, its outcome,
\* the peer it mentioned and whether it has delivered.
Ended(r, mentions, done) ==
  CASE turn.how = "received" -> [r EXCEPT !.done = FALSE]
    [] turn.how = "ok" ->
         [r EXCEPT !.failed = FALSE, !.mention = IF mentions THEN turn.received ELSE 0,
                   !.done = @ \/ done]
    [] OTHER -> [r EXCEPT !.failed = TRUE, !.mention = 0]

\* After the write-back the agent runs, or the turn is over.
WrittenBack ==
  turn' = IF turn.how = "received" THEN [turn EXCEPT !.at = "run"] ELSE NoTurn

\* In comment mode only a failed turn looks the task up.
Local == rec # Nothing => rec.mode = "comment" /\ turn.how \in {"received", "ok"}

WriteLocally(mentions, done) ==
  /\ turn.at = "back" /\ Local /\ (mentions => Has("peer"))
  /\ rec' = IF rec = Nothing THEN Nothing ELSE Ended(rec, mentions, done)
  /\ WrittenBack
  /\ UNCHANGED <<now, last, recv, wire, inbox, task, peer, due, started, patrol, mark, allowance>>

\* The status to set: a completed task is reopened for a turn that begins and
\* for one that failed, an open one completed by a turn that is done.
CallFor(r, done) ==
  IF r.mode = "comment" \/ (turn.how = "ok" /\ ~done) THEN "none"
  ELSE IF turn.how = "ok" THEN "complete"
  ELSE IF task[r.guid] = "complete" THEN "open" ELSE "none"

\* getTask: a task that is gone takes the claim with it.
LookUp(read, done) ==
  /\ turn.at = "back" /\ ~Local
  /\ IF read /\ task[rec.guid] # "gone"
     THEN turn' = [turn EXCEPT !.at = "keep", !.guid = rec.guid, !.call = CallFor(rec, done)]
     ELSE WrittenBack
  /\ rec' = IF read /\ task[rec.guid] = "gone" THEN Nothing ELSE rec
  /\ UNCHANGED <<now, last, recv, wire, inbox, task, peer, due, started, patrol, mark, allowance>>

\* The outcome is on record before the platform is called.
KeepOutcome(mentions) ==
  /\ turn.at = "keep" /\ (mentions => Has("peer"))
  /\ rec' = IF rec = Nothing \/ turn.how = "received" THEN rec ELSE Ended(rec, mentions, FALSE)
  /\ IF turn.call = "none" THEN WrittenBack ELSE turn' = [turn EXCEPT !.at = "call"]
  /\ UNCHANGED <<now, last, recv, wire, inbox, task, peer, due, started, patrol, mark, allowance>>

\* The description, the comment and the status: one that throws ends them all.
CallPlatform(ok) ==
  /\ turn.at = "call" /\ WrittenBack
  /\ task' = IF ok /\ task[turn.guid] # "gone" THEN [task EXCEPT ![turn.guid] = turn.call] ELSE task
  /\ UNCHANGED <<now, last, recv, rec, wire, inbox, peer, due, started, patrol, mark, allowance>>

-----------------------------------------------------------------------------
(* The stall threshold and its reason.                                     *)

Base(r) == IF r.failed THEN [ms |-> Fast, why |-> "failed"] ELSE [ms |-> Normal, why |-> "normal"]

\* mutant of Broken: a peer that was heard of needs no look at how it ended
ReceiptTrusted(r) ==
  \/ peer.recv <= r.mention /\ peer.active <= r.mention /\ now - r.mention >= Handoff
  \/ peer.recv > r.mention /\ now - peer.recv >= Grace /\ peer.active <= peer.recv

\* The handoff to the peer is broken: it failed; it was never reached; or it
\* was reached and did not finish in time.
Broken(r) ==
  \/ peer.failed /\ peer.active > r.mention
  \/ peer.recv <= r.mention /\ peer.active <= r.mention /\ now - r.mention >= Handoff
  \/ peer.recv > r.mention /\ now - peer.recv >= Grace /\ peer.active <= peer.recv

\* How long the detector waited before it called the handoff broken.
Floor(r) ==
  IF peer.recv <= r.mention \/ (peer.failed /\ peer.active > r.mention)
  THEN Handoff ELSE Grace

PastDue(r) == r.guid = Root /\ due # 0 /\ now >= due

Threshold(r) ==
  IF PastDue(r) THEN [ms |-> 0, why |-> "due"]
  ELSE IF /\ r.mention # 0 /\ now - started >= StartupQuiet
          /\ Broken(r) /\ Floor(r) < Base(r).ms
  THEN [ms |-> Floor(r), why |-> "handoff"]
  ELSE Base(r)

CooldownFor(why) == IF why = "due" THEN DueFloor ELSE Cooldown

-----------------------------------------------------------------------------
(* One look of the detector at the claim.                                  *)

Others == <<now, last, recv, inbox, turn, peer, due, started, allowance>>

Looks == rec # Nothing /\ ~rec.done /\ (rec.suppress # 0 => Activity > rec.suppress)

\* mutant of Sent: the count moves when the wake-up is sent
SentCounted(r, t) ==
  [r EXCEPT !.nudge = [count |-> @.count + 1, sent |-> IF @.sent = 0 THEN t ELSE @.sent,
                       seen |-> @.seen, escalated |-> FALSE, pending |-> t]]

\* The wake-up is on its way; it counts only when activity follows it.
Sent(r, t) ==
  [r EXCEPT !.nudge = [count |-> @.count, sent |-> IF @.sent = 0 THEN t ELSE @.sent,
                       seen |-> @.seen, escalated |-> FALSE, pending |-> t]]

Confirmed(r, active) ==
  [r EXCEPT !.nudge = [count |-> @.count + 1, sent |-> @.pending, seen |-> active,
                       escalated |-> FALSE, pending |-> 0]]

\* mutant of Progressed: the time of the last wake-up goes with the count
AnchorLost(r, why) == [r EXCEPT !.nudge = NoNudge]

\* Progress: the counting starts over, and under a due date the time of the
\* last wake-up is kept.
Progressed(r, why) ==
  [r EXCEPT !.nudge = IF why = "due" THEN [NoNudge EXCEPT !.sent = r.nudge.sent] ELSE NoNudge]

\* The claim was escalated: only new activity clears it.
Unescalate ==
  /\ patrol.at = "idle" /\ Looks /\ rec.nudge.escalated
  /\ rec.nudge.seen # 0 /\ Activity > rec.nudge.seen
  /\ rec' = [rec EXCEPT !.nudge = NoNudge, !.suppress = 0] /\ mark' = Anew
  /\ UNCHANGED <<Others, wire, task, patrol>>

Watching == patrol.at = "idle" /\ Looks /\ ~rec.nudge.escalated

Confirm ==
  /\ Watching /\ rec.nudge.pending # 0 /\ Activity > rec.nudge.pending
  /\ rec' = Confirmed(rec, Activity)
  /\ UNCHANGED <<Others, wire, task, patrol, mark>>

\* Given up as lost, unless the bridge has received it; the look goes on
\* after the store's write with the times it started from.
GiveUp ==
  /\ Watching /\ rec.nudge.pending # 0 /\ Activity <= rec.nudge.pending
  /\ now - rec.nudge.pending > PendTimeout /\ recv <= rec.nudge.pending
  /\ rec' = [rec EXCEPT !.nudge.pending = 0]
  /\ patrol' = [Asleep EXCEPT !.at = "lost", !.active = Activity]
  /\ mark' = [mark EXCEPT !.due = FALSE, !.heard = TRUE]
  /\ UNCHANGED <<Others, wire, task>>

\* Where the look goes on: active is the activity it judges by.
Judging(active) ==
  \/ Watching /\ rec.nudge.pending = 0 /\ active = Activity
  \/ patrol.at = "lost" /\ active = patrol.active

\* sendNudge and escalate read the task first.
ReadTask(what, why) ==
  patrol' = [at |-> what, guid |-> rec.guid, t |-> now, active |-> 0, due |-> why = "due"]

Wakes(active) ==
  LET th == Threshold(rec) IN
  /\ rec.nudge.count = 0 /\ now - active >= th.ms
  /\ th.why = "due" /\ patrol.at # "lost" /\ rec.nudge.sent # 0 =>
       now - rec.nudge.sent >= CooldownFor("due")

WakesAgain(active) ==
  /\ rec.nudge.count > 0 /\ active <= rec.nudge.seen
  /\ now - rec.nudge.sent >= CooldownFor(Threshold(rec).why)

Judge(active) ==
  /\ rec # Nothing /\ Judging(active) /\ now > last /\ now > recv
  /\ \/ /\ Wakes(active) \/ (WakesAgain(active) /\ rec.nudge.count < EscalateAfter)
        /\ ReadTask("nudge", Threshold(rec).why) /\ UNCHANGED <<rec, mark>>
     \/ /\ WakesAgain(active) /\ rec.nudge.count >= EscalateAfter
        /\ ReadTask("escalate", Threshold(rec).why) /\ UNCHANGED <<rec, mark>>
     \/ /\ rec.nudge.count > 0 /\ active > rec.nudge.seen
        /\ rec' = Progressed(rec, Threshold(rec).why) /\ mark' = Anew /\ patrol' = Asleep
  /\ UNCHANGED <<Others, wire, task>>

\* Nothing to do, the hourly fuse, or a task that cannot be read just now.
StandDown ==
  /\ patrol.at # "idle" /\ patrol' = Asleep
  /\ UNCHANGED <<Others, rec, wire, task, mark>>

\* The task is there and open: the wake-up is queued and noted.
SendNudge ==
  /\ patrol.at = "nudge" /\ task[patrol.guid] = "open"
  /\ wire' = wire + 1 /\ patrol' = Asleep
  /\ rec' = IF rec = Nothing THEN Nothing ELSE Sent(rec, patrol.t)
  /\ LET heard == rec # Nothing /\ Activity > patrol.t IN
     mark' = [sent |-> patrol.t, due |-> patrol.due, heard |-> heard,
              answered |-> mark.answered + IF heard THEN 1 ELSE 0]
  /\ UNCHANGED <<Others, task>>

\* The task is complete: silence until there is activity.
FindComplete ==
  /\ patrol.at = "nudge" /\ task[patrol.guid] = "complete" /\ patrol' = Asleep
  /\ IF rec = Nothing THEN UNCHANGED <<rec, mark>>
     ELSE rec' = [rec EXCEPT !.nudge = NoNudge, !.suppress = Activity] /\ mark' = Anew
  /\ UNCHANGED <<Others, wire, task>>

\* The task is gone, and with it whatever claim the thread has now.
FindGone ==
  /\ patrol.at \in {"nudge", "escalate"} /\ task[patrol.guid] = "gone"
  /\ rec' = Nothing /\ patrol' = Asleep
  /\ UNCHANGED <<Others, wire, task, mark>>

\* escalate does not ask whether the task is complete.
PostEscalation ==
  /\ patrol.at = "escalate" /\ task[patrol.guid] # "gone" /\ patrol' = Asleep
  /\ rec' = IF rec = Nothing \/ rec.nudge = NoNudge THEN rec
            ELSE [rec EXCEPT !.nudge.escalated = TRUE, !.nudge.pending = 0]
  /\ UNCHANGED <<Others, wire, task, mark>>

-----------------------------------------------------------------------------
(* The peer, the platform, the clock and crashes.                         *)

\* A peer that has a session of its own refreshes it on receipt.
PeerReceives ==
  /\ Has("peer") /\ Spend("peer")
  /\ peer' = [peer EXCEPT !.recv = now, !.active = IF @ = 0 THEN 0 ELSE now]
  /\ UNCHANGED <<now, last, recv, rec, wire, inbox, turn, task, due,
                 started, patrol, mark>>

PeerEnds(failed) ==
  /\ Has("peer") /\ Spend("peer") /\ peer.recv # 0 /\ now > peer.recv
  /\ peer' = [peer EXCEPT !.active = now, !.failed = failed]
  /\ UNCHANGED <<now, last, recv, rec, wire, inbox, turn, task, due,
                 started, patrol, mark>>

HumanMoves(g, to) ==
  /\ Has("human") /\ Spend("human") /\ task[g] \notin {"gone", to}
  /\ task' = [task EXCEPT ![g] = to]
  /\ UNCHANGED <<now, last, recv, rec, wire, inbox, turn, peer, due,
                 started, patrol, mark>>

LearnDue ==
  /\ due # allowance.due /\ due' = allowance.due
  /\ UNCHANGED <<now, last, recv, rec, wire, inbox, turn, task, peer,
                 started, patrol, mark, allowance>>

\* What is queued in memory is lost; the session record is on disk.
Restart ==
  /\ Has("crashes") /\ Spend("crashes")
  /\ recv' = 0 /\ wire' = 0 /\ inbox' = 0 /\ turn' = NoTurn
  /\ peer' = [peer EXCEPT !.recv = 0, !.failed = FALSE]
  /\ due' = 0 /\ started' = now /\ patrol' = Asleep
  /\ UNCHANGED <<now, last, rec, task, mark>>

Elapse ==
  /\ now < allowance.clock /\ now' = now + 1
  /\ UNCHANGED <<last, recv, rec, wire, inbox, turn, task, peer, due,
                 started, patrol, mark, allowance>>

-----------------------------------------------------------------------------
Look == Unescalate \/ Confirm \/ GiveUp \/ \E active \in 1..MaxTime : Judge(active)
Act == SendNudge \/ FindComplete \/ FindGone \/ PostEscalation

PatrolNext ==
  \/ Ask \/ WakeArrives
  \/ \E found \in BOOLEAN : Begin(found)
  \/ \E how \in {"ok", "failed", "threw"}, saved \in BOOLEAN, g \in Guids \cup {Nothing} :
       Finish(how, saved, g)
  \/ \E mentions, done \in BOOLEAN : WriteLocally(mentions, done)
  \/ \E read, done \in BOOLEAN : LookUp(read, done)
  \/ \E mentions \in BOOLEAN : KeepOutcome(mentions)
  \/ \E ok \in BOOLEAN : CallPlatform(ok)
  \/ Look \/ Act \/ StandDown
  \/ PeerReceives \/ LearnDue \/ Restart \/ Elapse
  \/ \E failed \in BOOLEAN : PeerEnds(failed)
  \/ \E g \in Guids, to \in {"open", "complete", "gone"} : HumanMoves(g, to)

PatrolSpec == PatrolInit /\ [][PatrolNext]_patrolVars

\* The timer fires again and again, and a task that is there can be read again
\* and again.
Fairness == WF_patrolVars(Look) /\ SF_patrolVars(Act) /\ WF_patrolVars(LearnDue)

FairPatrol == PatrolSpec /\ Fairness

-----------------------------------------------------------------------------
(* What must hold.                                                         *)

\* The humans are told only after EscalateAfter wake-ups of the counting that
\* is on were each followed by activity of the topic.  That activity need not
\* be the wake-up's own turn: one that a crash swallowed counts once somebody
\* else has spoken, but never by itself.
EscalatesAfterAnswered ==
  [][patrol.at # "escalate" /\ patrol'.at = "escalate" => mark.answered >= EscalateAfter]_patrolVars

\* An overdue task is called overdue at most once in DueFloor, whatever
\* progress there is in between, unless the last call was lost or the process
\* or the claim is no older than that call.
DueSpaced ==
  [][mark'.sent # mark.sent /\ mark'.due /\ mark.due
       /\ started < mark.sent /\ rec # Nothing /\ rec.at < mark.sent
       => mark'.sent - mark.sent >= DueFloor]_patrolVars

\* How long the topic may be quiet: least when the bot it handed over to has
\* failed since.
Patience ==
  IF /\ rec.mention # 0 /\ now - started >= StartupQuiet
     /\ peer.failed /\ peer.active > rec.mention
  THEN Handoff ELSE IF rec.failed THEN Fast ELSE Normal

\* Without a session record the answer to a wake-up leaves no trace: once it
\* was received the detector waits for ever.
Untraced == last = 0 /\ rec.nudge.pending # 0 /\ recv > rec.nudge.pending

Stalled ==
  /\ now = allowance.clock /\ rec # Nothing /\ Looks /\ task[rec.guid] = "open"
  /\ ~Untraced /\ now > recv /\ now - Activity >= Patience

Noticed ==
  \/ rec.nudge.escalated
  \/ mark.sent # 0 /\ now - mark.sent < CooldownFor(IF due # 0 THEN "due" ELSE "normal")

\* A claimed task that is open and quiet for too long does not stay so without
\* a wake-up of a moment ago or an escalation: no lost wake-up, restart, failed
\* peer or overdue date leaves it unwatched.  Three cases are left out: one the
\* agent declared done; one found complete, until there is activity, even when
\* it was reopened meanwhile; and a thread without a session record whose
\* wake-up was received (Untraced).
StalledIsNoticed == []<>(Stalled => Noticed)
==============================================================================
