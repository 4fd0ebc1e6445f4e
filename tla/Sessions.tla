------------------------------ MODULE Sessions ------------------------------
(***************************************************************************)
(* The life of one session record: sessions.json (SessionStore in          *)
(* src/src/claude/sessionStore.ts), the decisions a turn takes from it and *)
(* writes back to it (handleOne in src/src/bridge/handler.ts), and the     *)
(* housekeeping scan that reclaims its directory (src/src/housekeeping).   *)
(*                                                                         *)
(* The turns of one session run one at a time; store writes, the scan and  *)
(* the arrival of messages interleave with them.  A native session is a    *)
(* number, 0 is none.  Operators marked "mutant" are plausible bugs of the *)
(* definition below them.                                                  *)
(***************************************************************************)
EXTENDS Naturals, FiniteSets, Sequences

CONSTANTS
  Sticky,        \* the key is a direct chat's synthetic p2p-<chat_id>
  TurnLimit,     \* sessionReseedTurns; a turn that takes the history over
                 \* sessionReseedChars counts for TurnLimit turns (Sizes)
  StickyIdle,    \* p2pStickyIdleMs, in units of the clock
  StuckAfter,    \* LARKWAY_STUCK_SESSION_RESET_AFTER
  IdleCleanup,   \* the housekeeping horizon
  MaxSpan,       \* bound on the time from a turn's receipt to its end
  MaxTime, MaxTurns, MaxGhosts,   \* bounds
  Budgets,       \* how many turns, restarts and faults a behaviour may have
  None

ASSUME SessionsAssumption ==
  /\ Sticky \in BOOLEAN
  /\ {TurnLimit, StuckAfter, StickyIdle, IdleCleanup, MaxSpan, MaxTime,
      MaxTurns, MaxGhosts} \subseteq Nat
  /\ Budgets \subseteq [turns : 0..MaxTurns, natives : {0}, crashes : Nat, faults : Nat]
  /\ TurnLimit > 0 /\ StuckAfter > 0 /\ 2 * MaxSpan < IdleCleanup
  /\ None \notin [sid : Nat, at : Nat, turns : Nat, stuck : Nat, marked : BOOLEAN,
                  harvested : BOOLEAN, compat : Nat]

VARIABLES
  now,       \* the clock
  config,    \* the backend and workspace the running process is configured for
  mem,       \* the record in SessionStore's map
  disk,      \* the record in sessions.json
  dirty,     \* a touch waits for the debounce timer
  writes,    \* #flushChain: who asked for each snapshot not yet written
  queue,     \* turns received and not started
  turn,      \* the turn in progress
  pid,       \* the session's runner.pid: "none", "written" or "pending"
  dir,       \* when the session's directory was made, None when there is none
  gc,        \* the cleanup in progress
  ghosts,    \* native sessions the backend has lost
  truth,     \* what settled turns did, whatever the store remembers of it
  budget     \* native sessions made; turns, restarts and faults left

vars == <<now, config, mem, disk, dirty, writes, queue, turn, pid, dir, gc,
          ghosts, truth, budget>>

Natives == 1..MaxTurns

\* A record: the fields the decisions read.
Rec(sid, at, turns, stuck, marked, harvested, compat) ==
  [sid |-> sid, at |-> at, turns |-> turns, stuck |-> stuck, marked |-> marked,
   harvested |-> harvested, compat |-> compat]

NoTurn == [at |-> "none", n |-> 0, received |-> 0, touched |-> FALSE, rec |-> None,
           fresh |-> FALSE, resume |-> 0, sid |-> 0, end |-> "none", size |-> 0]
NoGc   == [at |-> "none", tracked |-> FALSE, saw |-> {}]

Init ==
  /\ now = 0 /\ config = 0 /\ mem = None /\ disk = None /\ dirty = FALSE
  /\ writes = << >> /\ queue = << >> /\ turn = NoTurn
  /\ pid = "none" /\ dir = None /\ gc = NoGc /\ ghosts = {}
  /\ truth = [turns |-> [s \in Natives |-> 0], used |-> [s \in Natives |-> 0], streak |-> 0, condemned |-> {},
              latest |-> 0, compat |-> 0, quiet |-> 0]
  /\ budget \in Budgets

CanFail == budget.faults > 0
Fault   == budget' = [budget EXCEPT !.faults = @ - 1]

-----------------------------------------------------------------------------
(* SessionStore.                                                           *)

\* mutant of Flush: a busy chain is left to write the change as well
FlushIdle(who) == writes' = IF writes = << >> THEN <<who>> ELSE writes

Flush(who) == writes' = Append(writes, who)

\* The debounce timer of touch().
FlushTouch ==
  /\ dirty /\ \A i \in DOMAIN writes : writes[i] # "touch"
  /\ dirty' = FALSE /\ Flush("touch")
  /\ UNCHANGED <<now, config, mem, disk, queue, turn, pid, dir, gc, ghosts, truth, budget>>

\* markNeedsFreshStart: the session is condemned, the record is kept.
Condemn(r) == [r EXCEPT !.sid = 0, !.stuck = 0, !.marked = TRUE]

-----------------------------------------------------------------------------
(* A turn.                                                                 *)

\* mutant of Touched: only the end of a turn refreshes the record
Untouched == mem

Touched == IF mem = None THEN None ELSE [mem EXCEPT !.at = now]

\* run(): the receipt refreshes an existing record, then the turn queues.
Receive ==
  /\ budget.turns > 0
  /\ budget' = [budget EXCEPT !.turns = @ - 1]
  /\ queue' = Append(queue, [n |-> budget.turns, received |-> now, touched |-> mem # None])
  /\ mem' = Touched /\ dirty' = (dirty \/ mem # None)
  /\ UNCHANGED <<now, config, disk, writes, turn, pid, dir, gc, ghosts, truth>>

\* The reseed decision on the record found at the start.
Reseeds(r) ==
  /\ r # None
  /\ \/ r.marked
     \/ r.sid # 0 /\ r.turns >= TurnLimit
     \/ r.sid # 0 /\ Sticky /\ now - r.at > StickyIdle

Begin ==
  /\ turn.at = "none" /\ queue # << >>
  /\ LET q == Head(queue) IN
     turn' = [NoTurn EXCEPT !.at = "setup", !.n = q.n, !.received = q.received,
                            !.touched = q.touched, !.rec = mem, !.fresh = Reseeds(mem)]
  /\ queue' = Tail(queue)
  /\ UNCHANGED <<now, config, mem, disk, dirty, writes, pid, dir, gc, ghosts, truth, budget>>

\* ensureSessionArtifacts: the directory and this turn's transcript entry.
SetUp ==
  /\ turn.at = "setup"
  /\ dir' = IF dir = None THEN now ELSE dir
  /\ turn' = [turn EXCEPT !.at = "spawn"]
  /\ UNCHANGED <<now, config, mem, disk, dirty, writes, queue, pid, gc, ghosts, truth, budget>>

Incompatible == turn.rec # None /\ turn.rec.compat # config
Resumed == IF turn.rec = None \/ turn.fresh \/ Incompatible THEN 0 ELSE turn.rec.sid

Spawn ==
  /\ turn.at = "spawn"
  /\ turn' = [turn EXCEPT !.at = "run", !.resume = Resumed]
  /\ pid' = "pending"
  /\ UNCHANGED <<now, config, mem, disk, dirty, writes, queue, dir, gc, ghosts, truth, budget>>

WritePid ==
  /\ pid = "pending" /\ pid' = "written"
  /\ UNCHANGED <<now, config, mem, disk, dirty, writes, queue, turn, dir, gc, ghosts, truth, budget>>

\* What the retry after a lost session goes on with.
Purged == [Condemn(turn.rec) EXCEPT !.at = turn.rec.at]

\* The resumed session is gone: mark the record, then run once more, fresh.
GhostRetry ==
  /\ turn.at = "run" /\ turn.resume \in ghosts
  /\ mem' = IF mem = None THEN None ELSE Condemn(mem)
  /\ Flush("turn")
  /\ turn' = [turn EXCEPT !.at = "mark", !.rec = Purged, !.fresh = TRUE]
  /\ truth' = [truth EXCEPT !.streak = 0, !.latest = 0]
  /\ UNCHANGED <<now, config, disk, dirty, queue, pid, dir, gc, ghosts, budget>>

\* Any other error of the run: nothing is persisted.
RunFails ==
  /\ turn.at \in {"setup", "spawn", "run"} /\ CanFail /\ Fault
  /\ turn' = NoTurn /\ pid' = "none"
  /\ truth' = [truth EXCEPT !.quiet = now]
  /\ UNCHANGED <<now, config, mem, disk, dirty, writes, queue, dir, gc, ghosts>>

NextStuck(prev, end) == IF end = "hang" THEN prev + 1 ELSE IF end = "ok" THEN 0 ELSE prev

\* The session a turn reports: what it resumed, a new one, or none at all.
Reports == {0} \cup {IF turn.resume # 0 THEN turn.resume ELSE budget.natives + 1}

Stuck(end) == NextStuck(IF turn.rec = None THEN 0 ELSE turn.rec.stuck, end)
Poisoned(end) == end = "hang" /\ Stuck(end) >= StuckAfter

\* What a turn adds to the history of its session: turnCount goes up by one, and
\* approxChars by a volume that reaches sessionReseedChars at some turn or never.
\* Both start over and are kept under the same conditions, so one count that goes
\* up by TurnLimit at that turn stands for the two; a session that is at the limit
\* of turns anyway needs no such turn.
Sizes == {1, TurnLimit}
Unsized(sid) == sid # 0 /\ (turn.resume # 0 => turn.rec.turns + 1 < TurnLimit)

\* mutant of Kept: the count starts over with the reseed that was tried
KeptFresh(end) == [turn.rec EXCEPT !.at = now, !.turns = 1, !.stuck = Stuck(end)]

Kept(end) == [turn.rec EXCEPT !.at = IF turn.fresh THEN @ ELSE now, !.stuck = Stuck(end)]
\* The record a finished turn writes, None when there is nothing to write: the
\* mark of a poisoned session, a new record, the next turn of an existing one,
\* or, when the run named no session, what there was (Kept).
Outcome(sid, end, size) ==
  IF Poisoned(end) THEN IF mem = None THEN None ELSE Condemn(mem)
  ELSE IF sid = 0 THEN IF turn.rec = None THEN None ELSE Kept(end)
  ELSE IF turn.rec = None THEN Rec(sid, now, size, Stuck(end), FALSE, FALSE, config)
  ELSE Rec(sid, now, IF turn.fresh \/ Incompatible THEN size ELSE turn.rec.turns + size,
           Stuck(end), FALSE, turn.rec.harvested /\ end # "ok", config)

\* A turn of session s counted, of none when s is 0.
Counted(f, s, size) == [x \in Natives |-> IF x = s THEN f[x] + size ELSE f[x]]

Settle(ok) ==
  LET hung == IF turn.rec = None /\ turn.sid = 0 THEN 0 ELSE truth.streak + 1 IN
  truth' = IF ~ok THEN [truth EXCEPT !.quiet = now]
           ELSE [turns |-> Counted(truth.turns, turn.sid, turn.size),
                 used |-> truth.used,
                 streak |-> IF turn.end # "hang" THEN truth.streak
                            ELSE IF hung >= StuckAfter \/ Poisoned(turn.end) THEN 0 ELSE hung,
                 condemned |->
                   IF turn.end # "hang" \/ hung < StuckAfter THEN truth.condemned
                   ELSE (truth.condemned \cup {turn.sid, turn.resume}) \ {0},
                 latest |-> IF Poisoned(turn.end) THEN 0
                            ELSE IF turn.sid # 0 THEN turn.sid ELSE truth.latest,
                 compat |-> IF turn.sid # 0 THEN config ELSE truth.compat,
                 quiet |-> now]

\* The runner is done: the hint is removed, the outcome persisted, if any.  A
\* reseeded turn that named no session puts an old time back, over the refresh
\* of the turns that wait.
Finish(sid, end, size) ==
  /\ turn.at = "run" /\ pid = "written" /\ turn.resume \notin ghosts
  /\ size = 1 \/ Unsized(sid)
  /\ pid' = "none"
  /\ turn' = [turn EXCEPT !.at = "persist", !.sid = sid, !.end = end, !.size = size]
  /\ LET r == Outcome(sid, end, size) IN
     IF r = None THEN UNCHANGED <<mem, writes>> ELSE mem' = r /\ Flush("turn")
  /\ truth' = [truth EXCEPT !.streak = IF end = "ok" \/ Poisoned(end) THEN 0 ELSE @,
                            !.latest = IF Poisoned(end) THEN 0 ELSE @,
                            !.used = Counted(@, sid, size)]
  /\ budget' = [budget EXCEPT !.natives = IF sid > @ THEN sid ELSE @]
  /\ queue' = IF sid = 0 /\ turn.fresh
              THEN [i \in DOMAIN queue |-> [queue[i] EXCEPT !.touched = FALSE]] ELSE queue
  /\ UNCHANGED <<now, config, disk, dirty, dir, gc, ghosts>>

\* A turn that had nothing to write settles at once.
FinishBare ==
  /\ turn.at = "persist" /\ \A i \in DOMAIN writes : writes[i] # "turn"
  /\ Settle(TRUE) /\ turn' = NoTurn
  /\ UNCHANGED <<now, config, mem, disk, dirty, writes, queue, pid, dir, gc, ghosts, budget>>

\* The next link of the chain serializes the map and renames the file, or
\* fails; only the turn that asked for it learns of it, and the mark of a retry
\* is best effort.
Write(ok) ==
  /\ writes # << >>
  /\ IF ok THEN disk' = mem /\ UNCHANGED budget ELSE CanFail /\ Fault /\ UNCHANGED disk
  /\ writes' = Tail(writes)
  /\ IF Head(writes) # "turn" THEN UNCHANGED <<turn, truth>>
     ELSE IF turn.at = "mark" THEN turn' = [turn EXCEPT !.at = "spawn"] /\ UNCHANGED truth
     ELSE turn' = NoTurn /\ Settle(ok)
  /\ UNCHANGED <<now, config, mem, dirty, queue, pid, dir, gc, ghosts>>

-----------------------------------------------------------------------------
(* Housekeeping.                                                           *)

\* The turns whose receipt refreshed the record, where the refresh still stands.
Refreshed == {queue[i].n : i \in {j \in DOMAIN queue : queue[j].touched}} \cup
             (IF turn.touched THEN {turn.n} ELSE {})

\* #scan: an idle record, or a directory without a record that is old enough.
Scan ==
  /\ gc.at = "none"
  /\ \/ /\ mem # None /\ ~mem.harvested /\ ~Sticky /\ now - mem.at >= IdleCleanup
        /\ gc' = [at |-> "gate", tracked |-> TRUE, saw |-> Refreshed]
     \/ /\ mem = None /\ dir # None /\ now - dir >= IdleCleanup
        /\ gc' = [at |-> "gate", tracked |-> FALSE, saw |-> Refreshed]
  /\ UNCHANGED <<now, config, mem, disk, dirty, writes, queue, turn, pid, dir, ghosts, truth, budget>>

Live == pid = "written"

\* cleanupAgentSession up to the live-pid gate.
Gate ==
  /\ gc.at = "gate"
  /\ gc' = IF dir = None THEN IF gc.tracked THEN [gc EXCEPT !.at = "stamp"] ELSE NoGc
           ELSE IF Live THEN NoGc
           ELSE [gc EXCEPT !.at = "remove",
                           !.saw = @ \cup (IF pid = "written" THEN {turn.n} ELSE {})]
  /\ UNCHANGED <<now, config, mem, disk, dirty, writes, queue, turn, pid, dir, ghosts, truth, budget>>

\* The extract cannot be written, or the directory is still there afterwards.
CleanupFails ==
  /\ gc.at = "remove" /\ CanFail /\ Fault /\ gc' = NoGc
  /\ UNCHANGED <<now, config, mem, disk, dirty, writes, queue, turn, pid, dir, ghosts, truth>>

\* The extract is in the archive: the directory goes.
Remove ==
  /\ gc.at = "remove" /\ dir' = None
  /\ gc' = IF gc.tracked THEN [gc EXCEPT !.at = "stamp"] ELSE NoGc
  /\ UNCHANGED <<now, config, mem, disk, dirty, writes, queue, turn, pid, ghosts, truth, budget>>

\* markHarvested.
Stamp ==
  /\ gc.at = "stamp" /\ gc' = NoGc
  /\ IF mem = None THEN UNCHANGED <<mem, writes>>
     ELSE mem' = [mem EXCEPT !.harvested = TRUE] /\ Flush("stamp")
  /\ UNCHANGED <<now, config, disk, dirty, queue, turn, pid, dir, ghosts, truth, budget>>

-----------------------------------------------------------------------------
(* The environment.                                                        *)

\* Time passes in and between turns, not within their short steps; a turn
\* lasts at most MaxSpan from its receipt.
Tick ==
  /\ now < MaxTime /\ turn.at \in {"none", "run"} /\ gc.at = "none"
  /\ \A i \in DOMAIN queue : now - queue[i].received < MaxSpan
  /\ turn.at = "run" => now - turn.received < MaxSpan
  /\ now' = now + 1
  /\ UNCHANGED <<config, mem, disk, dirty, writes, queue, turn, pid, dir, gc, ghosts, truth, budget>>

LoseNative(s) ==
  /\ s \in 1..budget.natives /\ s \notin ghosts /\ Cardinality(ghosts) < MaxGhosts
  /\ turn.at = "none" /\ ghosts' = ghosts \cup {s}
  /\ UNCHANGED <<now, config, mem, disk, dirty, writes, queue, turn, pid, dir, gc, truth, budget>>

\* The process dies and starts again, perhaps configured otherwise; load()
\* reads what the last finished write left.
Restart ==
  /\ budget.crashes > 0
  /\ budget' = [budget EXCEPT !.crashes = @ - 1]
  /\ config' \in {config, config + 1}
  /\ mem' = disk /\ dirty' = FALSE /\ writes' = << >>
  /\ queue' = << >> /\ turn' = NoTurn /\ pid' = "none" /\ gc' = NoGc
  /\ truth' = [truth EXCEPT !.quiet = now]
  /\ UNCHANGED <<now, disk, dir, ghosts>>

Next ==
  \/ FlushTouch \/ Write(TRUE) \/ Write(FALSE)
  \/ Receive \/ Begin \/ SetUp \/ Spawn \/ WritePid \/ GhostRetry \/ RunFails
  \/ \E sid \in Reports, end \in {"ok", "failed", "hang"}, size \in Sizes : Finish(sid, end, size)
  \/ FinishBare
  \/ Scan \/ Gate \/ CleanupFails \/ Remove \/ Stamp
  \/ Tick \/ Restart
  \/ \E s \in Natives : LoseNative(s)

Spec == Init /\ [][Next]_vars

-----------------------------------------------------------------------------
(* What must hold.                                                         *)

Starts == turn.at = "spawn" /\ turn'.at = "run"

\* A native session on which StuckAfter settled turns hung in a row, or whose
\* settled turns reached the limit of turns or of characters, is never resumed,
\* whatever restarts, failed writes and reseeds come in between, also when the
\* turn that should have replaced it died before it had a session of its own (the
\* stuck-session reset, "no path can ever resume the condemned session", and the
\* history-limit reseed).
SpentNotResumed ==
  [][Starts /\ turn'.resume # 0 =>
       turn'.resume \notin truth.condemned /\ truth.turns[turn'.resume] < TurnLimit]_vars

\* The session of the last settled turn is resumed by the next one unless it
\* is full (of turns or of characters, settled or not), hung, lost by the
\* backend, idle too long or of another configuration (sessions.json, load and
\* the resume gate).
ConversationKept ==
  [][Starts /\ turn'.resume = 0 =>
       \/ truth.latest = 0 \/ truth.compat # config
       \/ truth.used[truth.latest] >= TurnLimit
       \/ Sticky /\ now - truth.quiet > StickyIdle]_vars

\* Housekeeping never removes the directory under a turn that refreshed the
\* record before the scan judged it (and kept it so), nor under one whose runner was alive at
\* the gate ("never rm -rf a live session").
GcSparesTurns == [][dir # None /\ dir' = None => turn.n \notin gc.saw]_vars
=============================================================================
