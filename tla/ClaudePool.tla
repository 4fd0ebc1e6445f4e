----------------------------- MODULE ClaudePool -----------------------------
(***************************************************************************)
(* The warm `claude` process pool of one bot (src/src/claude/pool.ts).     *)
(*                                                                         *)
(* Node runs one callback at a time, so an action is one synchronous       *)
(* section: run(), a promise continuation, a timer, a line of the child's  *)
(* stdout, the child's exit.  Promise continuations (micro actions) run    *)
(* before the next timer, line or exit (macro actions); run() itself is    *)
(* called from the bridge's own continuations, so it may come between      *)
(* two of them.                                                            *)
(*                                                                         *)
(* Abstracted: a spawn signature [bin, args, cwd] is a value of Sigs, the  *)
(* answer text is gone, a clock reading is the choice of when an action    *)
(* happens, and lastUsedAt only bounds which idle entry may be chosen.     *)
(* Operators marked "mutant" are plausible bugs of the definition below    *)
(* them; nothing of the specification uses them.                           *)
(***************************************************************************)
EXTENDS Naturals, FiniteSets, Sequences

CONSTANTS
  Threads,             \* bridge threads served by this bot
  Sigs,                \* spawn signatures a turn's options resolve to
  Cwds,                \* working directories
  CwdOf,               \* the directory a signature was built for
  Turns,               \* calls of run(); bounds the number of turns
  Pids,                \* child processes alive at once; a pid is reused
  MaxProcesses,        \* maxProcesses
  MaxPrewarmFailures,  \* MAX_PREWARM_FAILURES
  SerialThreads,       \* TRUE: the bridge runs one turn per thread at a time
  PidListFile,         \* pidListFilePath is configured
  PrewarmSigs,         \* what main.ts may ask prewarm() for; {} when it does not
  Background,          \* background work the CLI may start, of {"task", "wake"}
  MayShutDown,         \* the bridge may call shutdown()
  None

ASSUME ClaudePoolAssumption ==
  /\ MaxProcesses \in Nat \ {0} /\ MaxPrewarmFailures \in Nat \ {0}
  /\ Pids \subseteq Nat
  /\ CwdOf \in [Sigs -> Cwds]
  /\ {SerialThreads, PidListFile, MayShutDown} \subseteq BOOLEAN
  /\ PrewarmSigs \subseteq Sigs /\ Background \subseteq {"task", "wake"}
  /\ None \notin Threads \cup Sigs \cup Turns \cup Pids

VARIABLES
  turn,              \* TurnState of every run() call
  proc,              \* the children, warm and cold, as the OS sees them
  entries,           \* #entries: warm children a turn may be placed on
  dying,             \* #dying: SIGTERM sent, exit not confirmed
  interruptedExits,  \* #interruptedExits: retired by an interrupt, not exited
  current,           \* entry.current
  chain,             \* entry.queueChain: turns whose link has not finished
  prewarm,           \* the blank standby's bookkeeping
  shutdown,          \* progress of shutdown()
  disk               \* the pid list: file content, write in flight, queued

vars == <<turn, proc, entries, dying, interruptedExits, current, chain,
          prewarm, shutdown, disk>>

-----------------------------------------------------------------------------
(* State.                                                                  *)

Kinds    == {"resume", "new", "fresh"}   \* --resume given, no session, reseed
Phases   == {"none", "waiting", "queued", "running", "cold", "resolved", "rejected"}
Timers   == {"none", "escalate", "finalize"}

TurnState ==
  [phase : Phases, thread : Threads \cup {None}, sig : Sigs \cup {None},
   kind : Kinds, entry : Pids \cup {None}, then : {"place", "cold"},
   kill : BOOLEAN, reached : BOOLEAN, waitBg : BOOLEAN, timer : Timers]

NoTurn ==
  [phase |-> "none", thread |-> None, sig |-> None, kind |-> "new",
   entry |-> None, then |-> "place", kill |-> FALSE, reached |-> FALSE,
   waitBg |-> FALSE, timer |-> "none"]

\* tasks and wake are what the pool believes (backgroundTaskIds non-empty,
\* scheduledWakeupAt set), aged that backgroundWorkStartedAt is older than
\* the keep-alive ceiling; inbox and work are what the CLI still has to
\* answer: user messages, a background follow-up, a scheduled wake-up.  cut
\* is history for the properties: the child was destroyed by a stop of a turn
\* that waited for background work.
PoolEntry ==
  [st : {"free", "up", "term"}, role : {"warm", "cold"},
   thread : Threads \cup {None}, sig : Sigs \cup {None},
   blank : BOOLEAN, tasks : BOOLEAN, wake : BOOLEAN, aged : BOOLEAN,
   cut : BOOLEAN, inbox : Seq(Turns), work : SUBSET {"task", "wake"}]

Standby ==
  [proto : Sigs \cup {None}, failures : 0 .. MaxPrewarmFailures,
   disabled : BOOLEAN, timer : BOOLEAN, due : BOOLEAN]

\* lost is history: the last write failed, and list is what was there before.
PidList ==
  [queued : BOOLEAN, writing : BOOLEAN, snap : SUBSET Pids, list : SUBSET Pids,
   lost : BOOLEAN]

NoProc ==
  [st |-> "free", role |-> "warm", thread |-> None, sig |-> None,
   blank |-> FALSE, tasks |-> FALSE,
   wake |-> FALSE, aged |-> FALSE, cut |-> FALSE, inbox |-> <<>>, work |-> {}]

Settled(t) == turn[t].phase \in {"resolved", "rejected"}
Open(t)  == turn[t].phase # "none" /\ ~Settled(t)
Alive(p) == proc[p].st # "free"
Idle(p)  == current[p] = None

\* A pid may be given to a new child once the old one has exited and no link
\* of its chain is left.
FreshPid(p) ==
  LET free == {q \in Pids : proc[q].st = "free" /\ chain[q] = <<>>}
  IN  p \in free /\ \A q \in free : p <= q

\* #settleResolve and #settleReject; what the result says is left out.
Resolved == [NoTurn EXCEPT !.phase = "resolved"]
Rejected == [NoTurn EXCEPT !.phase = "rejected"]


Termed(pr, R) ==
  [p \in Pids |-> IF p \in R THEN [pr[p] EXCEPT !.st = "term"] ELSE pr[p]]

\* #rewritePidListBestEffort: a write is chained behind those before it, and
\* those still waiting are told apart only by running last.
PidWrite(d) == IF PidListFile THEN [d EXCEPT !.queued = TRUE] ELSE d

\* A continuation is due: a chain link, a waiter whose exits have all come,
\* the queueMicrotask that replenishes the standby, or the next pid write.
ForgetExits(th) == {}   \* mutant
ExitsPending(th) == {p \in interruptedExits : proc[p].thread = th}

MicroDue ==
  \/ \E p \in Pids : /\ chain[p] # <<>>
                     /\ turn[Head(chain[p])].phase = "queued" \/ Settled(Head(chain[p]))
  \/ \E t \in Turns : turn[t].phase = "waiting" /\ ExitsPending(turn[t].thread) = {}
  \/ prewarm.due
  \/ disk.queued /\ ~disk.writing

-----------------------------------------------------------------------------
(* Writers: who may not be joined by a second process on a thread.         *)

ColdWritersOf(pr, th) ==
  {p \in Pids : pr[p].st # "free" /\ pr[p].role = "cold" /\ pr[p].thread = th}

BackgroundPending(pr, p) == pr[p].tasks \/ pr[p].wake

HoldsBackgroundWork(p) == BackgroundPending(proc, p) /\ ~proc[p].aged

EvictAnyIdle(kept) == {p \in kept : Idle(p)}   \* mutant

\* The blank standby always loses; then any idle entry without live
\* background work (the code takes the least recently used of them).
Victims(kept) ==
  LET blanks == {p \in kept : Idle(p) /\ proc[p].blank}
  IN  IF blanks # {} THEN blanks
      ELSE {p \in kept : Idle(p) /\ ~HoldsBackgroundWork(p)}

\* #fallbackToCold for turn t with options o, started from process table pr.
FallBack(t, o, pr) ==
  \/ /\ o.kill
     /\ turn' = [turn EXCEPT ![t] = Resolved]
     /\ proc' = pr
  \/ /\ ~o.kill /\ (shutdown # "no" \/ ColdWritersOf(pr, o.thread) # {})
     /\ turn' = [turn EXCEPT ![t] = Rejected]
     /\ proc' = pr
  \/ /\ ~o.kill /\ shutdown = "no" /\ ColdWritersOf(pr, o.thread) = {}
     /\ ExitsPending(o.thread) # {}
     /\ turn' = [turn EXCEPT ![t] = [o EXCEPT !.phase = "waiting",
                                              !.then = "cold", !.entry = None]]
     /\ proc' = pr
  \/ /\ ~o.kill /\ shutdown = "no" /\ ColdWritersOf(pr, o.thread) = {}
     /\ ExitsPending(o.thread) = {}
     /\ \E c \in Pids :
          /\ FreshPid(c)
          /\ turn' = [turn EXCEPT ![t] = [o EXCEPT !.phase = "cold", !.entry = c]]
          /\ proc' = [pr EXCEPT ![c] = [NoProc EXCEPT
                        !.st = "up", !.role = "cold", !.thread = o.thread,
                        !.inbox = <<t>>]]

-----------------------------------------------------------------------------
(* Placing a turn.                                                         *)

\* Entries #placeTurn retires before it looks for one to use: a standby
\* whose signature is no longer wanted, this thread's entries under another
\* signature, and for a reseeded session every entry of the thread.
StaleBlanks(o) ==
  {p \in entries : proc[p].blank /\ Idle(p) /\ proc[p].sig # o.sig}

RefreshStandby(o) ==
  /\ prewarm.proto # None /\ CwdOf[prewarm.proto] = CwdOf[o.sig]
  /\ prewarm.proto # o.sig \/ StaleBlanks(o) # {}

Superseded(o) ==
  {p \in entries : proc[p].thread = o.thread /\ proc[p].sig # o.sig /\ Idle(p)}

Reseeded(o) ==
  IF o.kind = "fresh"
  THEN {p \in entries : proc[p].thread = o.thread /\ ~proc[p].blank} ELSE {}

\* --resume is given at spawn, so a resuming turn cannot take the standby.
AdoptAlways(o) == TRUE   \* mutant
MayAdopt(o) == o.kind # "resume"

Queue(t, o, p) ==
  /\ turn'  = [turn EXCEPT ![t] = [o EXCEPT !.phase = "queued", !.entry = p]]
  /\ chain' = [chain EXCEPT ![p] = Append(@, t)]

\* #placeTurn for turn t with options o.
Place(t, o) ==
  LET dropped == (IF RefreshStandby(o) THEN StaleBlanks(o) ELSE {})
                   \cup Superseded(o) \cup Reseeded(o)
      kept    == entries \ dropped
      same    == {p \in kept : proc[p].thread = o.thread /\ proc[p].sig = o.sig}
      standby == {p \in kept : proc[p].blank /\ Idle(p) /\ proc[p].sig = o.sig}
      pw      == IF RefreshStandby(o)
                 THEN [prewarm EXCEPT !.proto = o.sig, !.due = TRUE] ELSE prewarm
      adopt   == same = {} /\ MayAdopt(o) /\ standby # {}
      full    == Cardinality(kept) >= MaxProcesses
  IN
  /\ UNCHANGED <<interruptedExits, current, shutdown>>
  /\ \/ /\ \E p \in same : Queue(t, o, p)
        /\ proc' = Termed(proc, dropped)
        /\ entries' = kept /\ dying' = dying \cup dropped
        /\ prewarm' = pw /\ UNCHANGED disk
     \/ /\ adopt
        /\ \E p \in standby :
             /\ Queue(t, o, p)
             /\ proc' = [Termed(proc, dropped) EXCEPT ![p].blank = FALSE,
                                                      ![p].thread = o.thread]
        /\ entries' = kept /\ dying' = dying \cup dropped
        /\ prewarm' = [pw EXCEPT !.failures = 0, !.due = TRUE]
        /\ disk' = PidWrite(disk)
     \/ /\ same = {} /\ ~adopt
        /\ \E victims \in {v \in SUBSET Victims(kept) :
                             Cardinality(v) = IF full THEN 1 ELSE 0} :
           \E p \in Pids, restored \in SUBSET (Background \cap {"task"}) :
             /\ FreshPid(p)
             /\ o.kind # "resume" => restored = {}
             /\ Queue(t, o, p)
             /\ proc' = [Termed(proc, dropped \cup victims) EXCEPT
                           ![p] = [NoProc EXCEPT
                             !.st = "up", !.thread = o.thread, !.sig = o.sig,
                             !.work = restored]]
             /\ entries' = (kept \ victims) \cup {p}
             /\ dying' = dying \cup dropped \cup victims
        /\ prewarm' = pw /\ disk' = PidWrite(disk)
     \/ /\ same = {} /\ ~adopt /\ full /\ Victims(kept) = {}
        /\ FallBack(t, o, Termed(proc, dropped))
        /\ entries' = kept /\ dying' = dying \cup dropped
        /\ prewarm' = pw /\ UNCHANGED <<chain, disk>>

\* run() once the options are known and no interrupt is pending, also the
\* continuation of a turn that waited: refuse, wait, or place.
Admit(t, o) ==
  \/ /\ shutdown # "no" \/ ColdWritersOf(proc, o.thread) # {}
     /\ turn' = [turn EXCEPT ![t] = Rejected]
     /\ UNCHANGED <<proc, entries, dying, interruptedExits, current, chain,
                    prewarm, shutdown, disk>>
  \/ /\ shutdown = "no" /\ ColdWritersOf(proc, o.thread) = {}
     /\ ExitsPending(o.thread) # {}
     /\ turn' = [turn EXCEPT ![t] = [o EXCEPT !.phase = "waiting", !.then = "place"]]
     /\ UNCHANGED <<proc, entries, dying, interruptedExits, current, chain,
                    prewarm, shutdown, disk>>
  \/ /\ shutdown = "no" /\ ColdWritersOf(proc, o.thread) = {}
     /\ ExitsPending(o.thread) = {}
     /\ Place(t, o)

Run(t) ==
  /\ turn[t].phase = "none"
  /\ \E th \in Threads, sig \in Sigs, kind \in Kinds :
       /\ SerialThreads => \A u \in Turns : Open(u) => turn[u].thread # th
       /\ Admit(t, [NoTurn EXCEPT !.thread = th, !.sig = sig, !.kind = kind])

\* Micro: the interrupted children this turn waited for have all exited.
ResumeWaiter(t) ==
  /\ turn[t].phase = "waiting" /\ ExitsPending(turn[t].thread) = {}
  /\ \/ turn[t].then = "place" /\ Admit(t, turn[t])
     \/ /\ turn[t].then = "cold" /\ FallBack(t, turn[t], proc)
        /\ UNCHANGED <<entries, dying, interruptedExits, current, chain,
                       prewarm, shutdown, disk>>

\* Micro: #runTurnOnEntry.  The link of a turn that reaches the wire stays at
\* the head of the chain until that turn has settled, also when it is executed
\* again as a one-shot; on a destroyed child the link ends at once.
RunLink(p) ==
  /\ chain[p] # <<>> /\ turn[Head(chain[p])].phase = "queued"
  /\ LET t == Head(chain[p]) IN
     \/ /\ p \in entries
        /\ current' = [current EXCEPT ![p] = t]
        /\ turn' = [turn EXCEPT ![t].phase = "running"]
        /\ proc' = [proc EXCEPT ![p].inbox = Append(@, t)]
        /\ UNCHANGED chain
     \/ /\ p \notin entries
        /\ FallBack(t, turn[t], proc)
        /\ chain' = [chain EXCEPT ![p] = Tail(@)]
        /\ UNCHANGED current
  /\ UNCHANGED <<entries, dying, interruptedExits, prewarm, shutdown, disk>>

LinkWritten(p) == chain[p] # <<>> /\ turn[Head(chain[p])].phase # "queued"   \* mutant
LinkDone(p)    == chain[p] # <<>> /\ Settled(Head(chain[p]))

\* Micro: the head link's turn is done, the chain moves on.
PopLink(p) ==
  /\ LinkDone(p)
  /\ chain' = [chain EXCEPT ![p] = Tail(@)]
  /\ UNCHANGED <<turn, proc, entries, dying, interruptedExits, current,
                 prewarm, shutdown, disk>>

-----------------------------------------------------------------------------
(* The blank standby.                                                      *)

StandbyWanted(E, pw) ==
  /\ pw.proto # None /\ ~pw.disabled /\ ~pw.timer /\ shutdown = "no"
  /\ Cardinality(E) < MaxProcesses
  /\ \A p \in E : ~proc[p].blank

\* #maybeSpawnBlank over entries E, process table pr and pid list state d.
MaybeSpawnBlank(pr, E, pw, d) ==
  \/ /\ ~StandbyWanted(E, pw)
     /\ proc' = pr /\ entries' = E /\ disk' = d /\ prewarm' = pw
  \/ /\ StandbyWanted(E, pw)
     /\ \E p \in Pids :
          /\ FreshPid(p)
          /\ proc' = [pr EXCEPT ![p] = [NoProc EXCEPT
                        !.st = "up", !.sig = pw.proto, !.blank = TRUE]]
          /\ entries' = E \cup {p}
     /\ disk' = PidWrite(d) /\ prewarm' = pw

Prewarm ==
  /\ prewarm.proto = None
  /\ \E sig \in PrewarmSigs :
       MaybeSpawnBlank(proc, entries, [prewarm EXCEPT !.proto = sig], disk)
  /\ UNCHANGED <<turn, dying, interruptedExits, current, chain, shutdown>>

\* Micro: the queued #maybeSpawnBlank.
Replenish ==
  /\ prewarm.due
  /\ MaybeSpawnBlank(proc, entries, [prewarm EXCEPT !.due = FALSE], disk)
  /\ UNCHANGED <<turn, dying, interruptedExits, current, chain, shutdown>>

RespawnTimer ==
  /\ ~MicroDue /\ prewarm.timer
  /\ MaybeSpawnBlank(proc, entries, [prewarm EXCEPT !.timer = FALSE], disk)
  /\ UNCHANGED <<turn, dying, interruptedExits, current, chain, shutdown>>

\* One pass of the idle sweep: the idle entries whose time is up, those
\* whose background work outlived its ceiling, and the standby when the
\* `claude` binary was upgraded under it (which is replaced on the spot).
\* The sweep retires every aged entry; the others are a matter of time.
IdleSweep ==
  /\ ~MicroDue /\ shutdown = "no"
  /\ \E R \in SUBSET {p \in entries : Idle(p) /\ (proc[p].blank \/ ~HoldsBackgroundWork(p))} :
       /\ R # {}
       /\ {p \in entries : Idle(p) /\ BackgroundPending(proc, p) /\ proc[p].aged} \subseteq R
       /\ dying' = dying \cup R
       /\ IF \E p \in R : proc[p].blank
          THEN MaybeSpawnBlank(Termed(proc, R), entries \ R, prewarm, disk)
          ELSE /\ proc' = Termed(proc, R) /\ entries' = entries \ R
               /\ UNCHANGED <<prewarm, disk>>
  /\ UNCHANGED <<turn, interruptedExits, current, chain, shutdown>>

-----------------------------------------------------------------------------
(* Interrupting a turn: kill(), abortSignal, the turn's own deadline.      *)

Interrupt(t) ==
  /\ Open(t) /\ ~turn[t].kill
  /\ LET o == [turn[t] EXCEPT !.kill = TRUE]
         p == turn[t].entry IN
     \/ /\ o.phase = "cold"
        /\ turn' = [turn EXCEPT ![t] = o]
        /\ proc' = IF p = None THEN proc ELSE Termed(proc, {p})
        /\ UNCHANGED <<entries, dying, current>>
     \/ /\ o.phase \in {"waiting", "queued"}
        /\ turn' = [turn EXCEPT ![t] = Resolved]
        /\ UNCHANGED <<proc, entries, dying, current>>
     \/ /\ o.phase = "running" /\ o.waitBg
        /\ turn' = [turn EXCEPT ![t] = Resolved]
        /\ current' = [current EXCEPT ![p] = None]
        /\ proc' = [Termed(proc, {p}) EXCEPT ![p].cut = TRUE]
        /\ entries' = entries \ {p} /\ dying' = dying \cup {p}
     \/ /\ o.phase = "running" /\ ~o.waitBg
        /\ turn' = [turn EXCEPT ![t] = [o EXCEPT !.timer = "escalate"]]
        /\ UNCHANGED <<proc, entries, dying, current>>
  /\ UNCHANGED <<interruptedExits, chain, prewarm, shutdown, disk>>

SettleBackstopOff(o) == [o EXCEPT !.timer = "none"]   \* mutant
SettleBackstop(o)    == [o EXCEPT !.timer = "finalize"]

\* INTERRUPT_GRACE_MS passed without the turn's result: retire the child
\* and make the thread wait for its exit.
Escalate(t) ==
  /\ ~MicroDue /\ turn[t].phase = "running" /\ turn[t].timer = "escalate"
  /\ LET p == turn[t].entry IN
     /\ interruptedExits' = interruptedExits \cup {p}
     /\ proc' = Termed(proc, {p})
     /\ entries' = entries \ {p} /\ dying' = dying \cup {p}
  /\ turn' = [turn EXCEPT ![t] = SettleBackstop(@)]
  /\ UNCHANGED <<current, chain, prewarm, shutdown, disk>>

\* The child has not reported its exit after SIGKILL: settle the turn.
Finalize(t) ==
  /\ ~MicroDue /\ turn[t].phase = "running" /\ turn[t].timer = "finalize"
  /\ turn' = [turn EXCEPT ![t] = Resolved]
  /\ current' = [current EXCEPT ![turn[t].entry] = None]
  /\ UNCHANGED <<proc, entries, dying, interruptedExits, chain, prewarm,
                 shutdown, disk>>

-----------------------------------------------------------------------------
(* Lines of a warm child's stdout (#handleEntryLine).                      *)

\* A content line for the turn in flight: it has reached the wire.
ContentLine(p) ==
  /\ ~MicroDue /\ Alive(p) /\ proc[p].inbox # <<>> /\ ~Idle(p)
  /\ ~turn[current[p]].reached
  /\ turn' = [turn EXCEPT ![current[p]].reached = TRUE]
  /\ UNCHANGED <<proc, entries, dying, interruptedExits, current, chain,
                 prewarm, shutdown, disk>>

\* system/background_tasks_changed, whether or not a turn is in flight.
TasksChanged(p) ==
  /\ ~MicroDue /\ Alive(p) /\ proc[p].role = "warm"
  /\ \/ /\ "task" \in Background /\ ~proc[p].tasks /\ proc[p].inbox # <<>>
        /\ proc' = [proc EXCEPT ![p].tasks = TRUE, ![p].work = @ \cup {"task"}]
     \/ /\ proc[p].tasks
        /\ proc' = [proc EXCEPT ![p].tasks = FALSE,
                                ![p].aged = @ /\ proc[p].wake]
  /\ UNCHANGED <<turn, entries, dying, interruptedExits, current, chain,
                 prewarm, shutdown, disk>>

\* The receipt of a ScheduleWakeup tool call.
WakeupScheduled(p) ==
  /\ ~MicroDue /\ Alive(p) /\ proc[p].role = "warm" /\ proc[p].inbox # <<>>
  /\ "wake" \in Background /\ ~proc[p].wake
  /\ proc' = [proc EXCEPT ![p].wake = TRUE, ![p].work = @ \cup {"wake"}]
  /\ UNCHANGED <<turn, entries, dying, interruptedExits, current, chain,
                 prewarm, shutdown, disk>>

\* The keep-alive ceiling passes over work that is still listed.
KeepaliveExpires(p) ==
  /\ ~MicroDue /\ Alive(p) /\ BackgroundPending(proc, p) /\ ~proc[p].aged
  /\ proc' = [proc EXCEPT ![p].aged = TRUE]
  /\ UNCHANGED <<turn, entries, dying, interruptedExits, current, chain,
                 prewarm, shutdown, disk>>

\* A `result` taken as the answer of the turn in flight on p: a success with
\* background work behind it only yields; anything else ends the turn, and
\* a failure ends its background work too.
TakeResult(p, pr, ok, more) ==
  LET t      == current[p]
      yields == /\ ~turn[t].kill /\ ok
                /\ BackgroundPending(pr, p) \/ more
      ruin   == ~yields /\ ~ok /\ BackgroundPending(pr, p) /\ p \in entries
      dead   == IF ruin THEN {p} ELSE {}
  IN
  /\ turn' = [turn EXCEPT ![t] =
                IF yields THEN [@ EXCEPT !.waitBg = TRUE, !.reached = TRUE]
                ELSE Resolved]
  /\ current' = IF yields THEN current ELSE [current EXCEPT ![p] = None]
  /\ proc' = Termed(pr, dead)
  /\ entries' = entries \ dead /\ dying' = dying \cup dead

\* Stray or foreign output: only the child's own account changes.
IgnoreResult(pr) ==
  /\ proc' = pr /\ UNCHANGED <<turn, current, entries, dying>>

\* Whether the pool takes a `result` line as an answer of the turn in flight
\* on p: once an interrupt was requested any result is its end; before, a
\* user result must carry the turn's own uuid, a task-notification must
\* follow a yield.
TakesUserResult(p) ==
  ~Idle(p) /\ (turn[current[p]].kill \/ Head(proc[p].inbox) = current[p])

TakesFollowUp(p) ==
  ~Idle(p) /\ (turn[current[p]].kill \/ turn[current[p]].waitBg)

UserResult(p) ==
  /\ ~MicroDue /\ Alive(p) /\ proc[p].role = "warm" /\ proc[p].inbox # <<>>
  /\ \E ok \in BOOLEAN, more \in BOOLEAN :
       LET pr == [proc EXCEPT ![p].inbox = Tail(@)] IN
       /\ more => "task" \in proc[p].work
       /\ IF TakesUserResult(p) THEN TakeResult(p, pr, ok, more) ELSE IgnoreResult(pr)
  /\ UNCHANGED <<interruptedExits, chain, prewarm, shutdown, disk>>

\* The CLI's own follow-up turn after a task notification.
FollowUpResult(p) ==
  /\ ~MicroDue /\ Alive(p) /\ "task" \in proc[p].work
  /\ \E ok \in BOOLEAN :
       LET pr == [proc EXCEPT ![p].work = @ \ {"task"}] IN
       IF TakesFollowUp(p) THEN TakeResult(p, pr, ok, FALSE) ELSE IgnoreResult(pr)
  /\ UNCHANGED <<interruptedExits, chain, prewarm, shutdown, disk>>

\* The scheduled wake-up's turn: its result names neither input nor origin.
\* Between turns nobody takes it, and scheduledWakeupAt stays set.
WakeupResult(p) ==
  /\ ~MicroDue /\ Alive(p) /\ "wake" \in proc[p].work
  /\ \E ok \in BOOLEAN :
       LET pr   == [proc EXCEPT ![p].work = @ \ {"wake"}]
           seen == [pr EXCEPT ![p].wake = FALSE, ![p].aged = @ /\ pr[p].tasks]
       IN
       IF Idle(p) THEN IgnoreResult(pr)
       ELSE TakeResult(p, IF turn[current[p]].kill THEN pr ELSE seen, ok, FALSE)
  /\ UNCHANGED <<interruptedExits, chain, prewarm, shutdown, disk>>

-----------------------------------------------------------------------------
(* The exit of a warm child (#onEntryExit), and cold one-shot runs.        *)

\* The standby's circuit breaker: an unprompted death of a blank younger
\* than LONG_LIVED_BLANK_MS counts and is retried after a backoff.
AfterExit(p, young) ==
  LET unprompted == proc[p].blank /\ p \in entries
      failures   == prewarm.failures + 1
  IN  IF prewarm.proto = None \/ shutdown # "no" \/ prewarm.disabled THEN prewarm
      ELSE IF ~(unprompted /\ young) THEN [prewarm EXCEPT !.due = TRUE]
      ELSE IF failures >= MaxPrewarmFailures
           THEN [prewarm EXCEPT !.failures = failures, !.disabled = TRUE]
           ELSE [prewarm EXCEPT !.failures = failures, !.timer = TRUE]

RetryAnyLoss(t) == ~turn[t].kill   \* mutant
RetriedCold(t)  == ~turn[t].kill /\ ~turn[t].reached

WarmExit(p) ==
  /\ ~MicroDue /\ Alive(p) /\ proc[p].role = "warm"
  /\ entries' = entries \ {p} /\ dying' = dying \ {p}
  /\ interruptedExits' = interruptedExits \ {p}
  /\ disk' = PidWrite(disk)
  /\ \E young \in BOOLEAN : prewarm' = AfterExit(p, young)
  /\ current' = [current EXCEPT ![p] = None]
  /\ LET t  == current[p]
         pr == [proc EXCEPT ![p] = NoProc] IN
     \/ /\ Idle(p) /\ proc' = pr /\ UNCHANGED turn
     \/ /\ ~Idle(p) /\ turn[t].kill
        /\ turn' = [turn EXCEPT ![t] = Resolved] /\ proc' = pr
     \/ /\ ~Idle(p) /\ ~turn[t].kill /\ turn[t].reached
        /\ turn' = [turn EXCEPT ![t] = Rejected] /\ proc' = pr
     \/ /\ ~Idle(p) /\ RetriedCold(t)
        /\ FallBack(t, turn[t], pr)
  /\ UNCHANGED <<chain, shutdown>>

\* The one-shot CLI prints its result and is torn down by the grace timers.
ColdResult(p) ==
  /\ ~MicroDue /\ Alive(p) /\ proc[p].role = "cold" /\ proc[p].inbox # <<>>
  /\ proc' = [proc EXCEPT ![p].inbox = <<>>]
  /\ UNCHANGED <<turn, entries, dying, interruptedExits, current, chain,
                 prewarm, shutdown, disk>>

\* processExited: the cold writer is released.
ColdExit(p) ==
  /\ ~MicroDue /\ Alive(p) /\ proc[p].role = "cold"
  /\ proc' = [proc EXCEPT ![p] = NoProc]
  /\ turn' = [t \in Turns |-> IF turn[t].phase = "cold" /\ turn[t].entry = p
                              THEN [turn[t] EXCEPT !.entry = None] ELSE turn[t]]
  /\ UNCHANGED <<entries, dying, interruptedExits, current, chain, prewarm,
                 shutdown, disk>>

\* cold.done: after the exit, or forced once a teardown did not end it.
ColdDone(t) ==
  /\ ~MicroDue /\ turn[t].phase = "cold"
  /\ turn[t].entry # None => turn[t].kill \/ proc[turn[t].entry].inbox = <<>>
  /\ \/ turn' = [turn EXCEPT ![t] = Resolved]
     \/ ~turn[t].kill /\ turn' = [turn EXCEPT ![t] = Rejected]
  /\ UNCHANGED <<proc, entries, dying, interruptedExits, current, chain,
                 prewarm, shutdown, disk>>

-----------------------------------------------------------------------------
(* shutdown(), and the pid list on disk.                                   *)

ShutdownBegin ==
  /\ ~MicroDue /\ shutdown = "no" /\ MayShutDown
  /\ shutdown' = "draining"
  /\ prewarm' = [prewarm EXCEPT !.timer = FALSE]
  /\ turn' = [t \in Turns |->
                CASE turn[t].phase = "waiting" -> Rejected
                  [] turn[t].phase = "cold"    -> [turn[t] EXCEPT !.kill = TRUE]
                  [] OTHER                     -> turn[t]]
  /\ proc' = Termed(proc, {turn[t].entry : t \in {u \in Turns :
                             turn[u].phase = "cold" /\ ~turn[u].kill}})
  /\ UNCHANGED <<entries, dying, interruptedExits, current, chain, disk>>

DrainedEntries == entries

\* The drain is over or timed out: every entry goes, its turn cancelled.
ShutdownDestroy ==
  /\ ~MicroDue /\ shutdown = "draining"
  /\ shutdown' = "destroyed"
  /\ turn' = [t \in Turns |->
                IF \E p \in DrainedEntries : current[p] = t
                THEN [turn[t] EXCEPT !.kill = TRUE] ELSE turn[t]]
  /\ proc' = Termed(proc, DrainedEntries)
  /\ entries' = entries \ DrainedEntries /\ dying' = dying \cup DrainedEntries
  /\ UNCHANGED <<interruptedExits, current, chain, prewarm, disk>>

\* #writePidListSnapshot reads #entries and #dying when its link runs; the
\* rename makes it visible later.
LiveEntriesOnly == entries   \* mutant
PidSnapshot     == entries \cup dying

BeginPidWrite ==
  /\ disk.queued /\ disk.writing = FALSE
  /\ disk' = [disk EXCEPT !.queued = FALSE, !.writing = TRUE, !.snap = PidSnapshot]
  /\ UNCHANGED <<turn, proc, entries, dying, interruptedExits, current, chain,
                 prewarm, shutdown>>

\* The rename, or a write that fails and is swallowed.
EndPidWrite ==
  /\ disk.writing
  /\ ~MicroDue
  /\ \/ disk' = [disk EXCEPT !.writing = FALSE, !.list = disk.snap, !.snap = {},
                             !.lost = FALSE]
     \/ disk' = [disk EXCEPT !.writing = FALSE, !.snap = {}, !.lost = TRUE]
  /\ UNCHANGED <<turn, proc, entries, dying, interruptedExits, current, chain,
                 prewarm, shutdown>>

-----------------------------------------------------------------------------
Init ==
  /\ turn = [t \in Turns |-> NoTurn]
  /\ proc = [p \in Pids |-> NoProc]
  /\ entries = {} /\ dying = {} /\ interruptedExits = {}
  /\ current = [p \in Pids |-> None]
  /\ chain = [p \in Pids |-> <<>>]
  /\ prewarm = [proto |-> None, failures |-> 0, disabled |-> FALSE,
                timer |-> FALSE, due |-> FALSE]
  /\ shutdown = "no"
  /\ disk = [queued |-> FALSE, writing |-> FALSE, snap |-> {}, list |-> {},
             lost |-> FALSE]

Next ==
  \/ Prewarm \/ Replenish \/ RespawnTimer \/ IdleSweep
  \/ ShutdownBegin \/ ShutdownDestroy \/ BeginPidWrite \/ EndPidWrite
  \/ \E t \in Turns :
       Run(t) \/ ResumeWaiter(t) \/ Interrupt(t) \/ Escalate(t) \/ Finalize(t)
         \/ ColdDone(t)
  \/ \E p \in Pids :
       \/ RunLink(p) \/ PopLink(p) \/ ContentLine(p) \/ TasksChanged(p)
       \/ WakeupScheduled(p) \/ KeepaliveExpires(p) \/ UserResult(p)
       \/ FollowUpResult(p) \/ WakeupResult(p)
       \/ WarmExit(p) \/ ColdResult(p) \/ ColdExit(p)

Spec == Init /\ [][Next]_vars

\* Continuations run, timers fire, a child that was sent SIGTERM and then
\* SIGKILL exits; users, the CLI and the sweep owe nothing.
Fairness ==
  /\ WF_vars(Replenish) /\ WF_vars(BeginPidWrite) /\ WF_vars(EndPidWrite)
  /\ \A t \in Turns :
       /\ WF_vars(ResumeWaiter(t)) /\ WF_vars(Escalate(t)) /\ WF_vars(Finalize(t))
       /\ WF_vars(turn[t].kill /\ ColdDone(t))
  /\ \A p \in Pids : WF_vars(RunLink(p)) /\ WF_vars(PopLink(p))

ExitFairness ==
  \A p \in Pids : WF_vars(proc[p].st = "term" /\ (WarmExit(p) \/ ColdExit(p)))

FairSpec == Spec /\ Fairness

-----------------------------------------------------------------------------
TypeOK ==
  /\ turn \in [Turns -> TurnState]
  /\ proc \in [Pids -> PoolEntry]
  /\ entries \subseteq Pids /\ dying \subseteq Pids /\ interruptedExits \subseteq Pids
  /\ current \in [Pids -> Turns \cup {None}]
  /\ chain \in [Pids -> Seq(Turns)]
  /\ prewarm \in Standby
  /\ shutdown \in {"no", "draining", "destroyed"}
  /\ disk \in PidList

-----------------------------------------------------------------------------
(* Safety.                                                                 *)

\* The processes that may be writing thread th's session: cold runs and the
\* children whose turn is in flight.
WritersOf(th) ==
  ColdWritersOf(proc, th) \cup {p \in Pids : proc[p].thread = th /\ ~Idle(p)}

\* A thread has one writer: a one-shot child that has not exited, or a warm
\* child whose turn's interrupt was escalated and that has not exited, is its
\* only process at work (#coldWriters, #interruptedExits); and at most one child
\* answers for the thread, since two would hold two versions of one conversation
\* (key drift and reseed in #placeTurn).  A child destroyed by a stop while its
\* turn waited for background work is not counted: #interruptTurn does not
\* register it, and StopEndsWriting says what that loses.  Needs one turn per
\* thread at a time, which the bridge's queue provides.
OneWriter ==
  SerialThreads =>
    /\ \A p \in Pids :
         /\ Alive(p)
         /\ p \in interruptedExits \/ proc[p].role = "cold"
         => WritersOf(proc[p].thread) \subseteq {p}
    /\ \A th \in Threads :
         Cardinality({p \in entries : proc[p].thread = th} \cup ColdWritersOf(proc, th)) <= 1

\* "Card settlement after an interrupt is not permission for a second writer"
\* (the comment at pool.ts:397), of every warm child that was torn down by the
\* stop of its turn: the escalated ones and those that waited for background
\* work.  False of the code for the latter: #interruptTurn destroys the child
\* and settles without an entry in #interruptedExits, so the thread's next turn
\* starts beside a child that has not exited.
StopEndsWriting ==
  SerialThreads =>
    \A p \in Pids : Alive(p) /\ (p \in interruptedExits \/ proc[p].cut)
                     => WritersOf(proc[p].thread) \subseteq {p}

\* Once no write is pending and the last one did not fail, the list on disk
\* names exactly the warm children the OS still runs: what a hard kill of the
\* bridge would orphan is what the next boot finds (#dying, #pidListWriteChain).
\* A failed write is swallowed and not retried (pool.ts:1604).
PidListExact ==
  PidListFile /\ ~disk.queued /\ ~disk.writing /\ ~disk.lost =>
    disk.list = {p \in Pids : Alive(p) /\ proc[p].role = "warm"}

\* A turn occupies a child only while it runs there, and it is at the head
\* of that child's chain: two turns never share one stdin/stdout wire.
WireExclusive ==
  /\ \A p \in Pids : ~Idle(p) =>
       /\ turn[current[p]].phase = "running" /\ turn[current[p]].entry = p
       /\ chain[p] # <<>> /\ Head(chain[p]) = current[p] /\ Alive(p)
  /\ \A t \in Turns : turn[t].phase = "running" => current[turn[t].entry] = t

(* Action properties.                                                      *)

\* What a runner promises about its turns (AgentTurns): done settles once, a
\* cancelled turn never rejects, and only a turn nobody cancelled and that
\* has shown no output is executed again as a one-shot: work never happens
\* twice behind a card that already streamed, and dead work is not revived
\* (#fallbackToCold, #onEntryExit).
HandleOf(r) ==
  [done |-> CASE r.phase = "none"                       -> "unborn"
              [] r.phase \in {"resolved", "rejected"}   -> r.phase
              [] OTHER                                  -> "pending",
   cancelled |-> r.kill, output |-> r.reached,
   by |-> IF r.phase = "cold" THEN "oneShot" ELSE "pool"]

Contract == INSTANCE AgentTurns
              WITH handle <- [t \in Turns |-> HandleOf(turn[t])], LateRefusals <- FALSE
KeepsContract == Contract!Spec

\* The pool tears down a child at work only after its turn was cancelled or
\* failed, or at shutdown; and one with live background work between turns
\* only for its own thread's next turn: making room for others or sweeping
\* never kills work (#pickLruIdleVictim, #armIdleSweep).
TornDown(p) == proc[p].st = "up" /\ proc[p].role = "warm" /\ proc'[p].st = "term"

EvictionSparesWork ==
  [][\A p \in Pids : TornDown(p) /\ shutdown' = "no" =>
       /\ ~Idle(p) => turn[current[p]].kill \/ current'[p] = None
       /\ Idle(p) /\ HoldsBackgroundWork(p) =>
            \E t \in Turns : turn'[t] # turn[t] /\ turn'[t].thread = proc[p].thread]_vars

(* Liveness.                                                               *)

\* A cancelled turn settles even if neither the CLI nor the kernel ever answers
\* (the escalation and finalize timers, the cold runner's grace); once signalled
\* children exit, shutdown ends every turn, even one nobody cancelled, and a
\* turn waiting for an interrupted child goes on.
NothingHangs ==
  /\ \A t \in Turns : turn[t].kill ~> Settled(t) \/ shutdown # "no"
  /\ ExitFairness =>
       /\ shutdown = "destroyed" ~> \A t \in Turns : ~Open(t)
       /\ \A t \in Turns : turn[t].phase = "waiting" ~> turn[t].phase # "waiting"

-----------------------------------------------------------------------------
(* The inductive invariant behind the theorems of ClaudePool_proofs.       *)

\* What each phase of a turn says about the rest of its record.
Shape(r) ==
  /\ r.phase = "none" => r = NoTurn
  /\ r.phase \in {"resolved", "rejected"} => ~r.kill /\ ~r.reached
  /\ r.phase \in {"waiting", "queued", "cold"} => ~r.reached
  /\ r.phase \in {"waiting", "queued"} => ~r.kill
  /\ r.phase \in {"queued", "running"} => r.entry \in Pids

\* A chain holds turns that were queued on its child and have not yet moved
\* to another one.
ChainInv ==
  \A p \in Pids : \A i \in DOMAIN chain[p] :
    LET r == turn[chain[p][i]] IN
    /\ r.phase # "none"
    /\ r.phase = "queued" => r.entry = p
    /\ r.phase = "waiting" => r.then = "cold"

CurrentInv ==
  \A p \in Pids : ~Idle(p) =>
    turn[current[p]].phase = "running" /\ turn[current[p]].entry = p

\* The breaker trips at the count that reaches its limit.
BreakerInv == ~prewarm.disabled => prewarm.failures < MaxPrewarmFailures

TurnInv == (\A t \in Turns : Shape(turn[t])) /\ ChainInv /\ CurrentInv
=============================================================================
