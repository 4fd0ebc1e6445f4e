------------------------------- MODULE CodexPool -------------------------------
(***************************************************************************)
(* The warm codex app-server of one bot (src/src/codex/pool.ts): one child *)
(* serves every topic over one JSON-RPC connection, answers are told apart *)
(* by request id and notifications by native thread.  A stopped turn       *)
(* settles at once while the app-server may still run it, so its native    *)
(* thread is gated until that turn is known to have ended.                 *)
(*                                                                         *)
(* One action is one event of the host: a call of the bridge, a line of    *)
(* the child, a timer, an exit; what the promises it settles go on with    *)
(* belongs to it.  The bridge runs one turn of a topic at a time, so the   *)
(* second look at the gate in #sendTurnStart finds it open.  A request     *)
(* repeated without excludeTurns is the same request.  Operators marked    *)
(* "mutant" are plausible bugs of the definition below them.               *)
(***************************************************************************)
EXTENDS Integers

CONSTANTS
  MaxTurns,      \* turns, in the order they are run
  Threads,       \* topics
  MaxPids,       \* bound of the children spawned
  FailureLimit,  \* #spawnFailureLimit
  None

Turns == 1..MaxTurns
Pids  == 1..MaxPids
Sessions == Turns     \* native threads, named by the turn that created them

ASSUME CodexAssumption ==
  /\ {MaxTurns, MaxPids, FailureLimit} \subseteq Nat
  /\ FailureLimit > 0 /\ None \notin Int \cup Threads

VARIABLES
  turn,      \* #turns: TurnState of every run()
  proc,      \* the children as the OS sees them
  child,     \* #child
  ready,     \* its #ready promise
  owner,     \* #threadOwners
  gate,      \* #cancelledThreads
  native,    \* the app-server's turns, by the turn that asked for them
  cold,      \* the turns whose one-shot process runs (#coldWriters)
  failures,  \* #spawnFailureTimestamps inside the window
  shutdown,  \* how far shutdown() is
  steer,     \* the live input of each turn
  strays     \* the turns that were given another turn's output

vars == <<turn, proc, child, ready, owner, gate, native, cold, failures, shutdown, steer, strays>>

TurnState ==
  [phase : {"none", "ready", "gate", "thread", "turn", "cold", "ok", "bad"},
   thread : Threads \cup {None}, resume : Sessions \cup {None},
   known : BOOLEAN,               \* threadId is set: system_init was pushed
   id : Turns \cup {None},        \* turnId
   cold : BOOLEAN,                \* what the gate holds back is the one-shot
   stopped : BOOLEAN]             \* interruptionReason of a one-shot

NoTurn == [phase |-> "none", thread |-> None, resume |-> None, known |-> FALSE, id |-> None,
           cold |-> FALSE, stopped |-> FALSE]

Native ==
  [st : {"none", "asked", "running", "ended", "gone"}, on : Pids \cup {None},
   answered : BOOLEAN,   \* the turn/start answer was read
   started : BOOLEAN,    \* turn/started was read
   stop : BOOLEAN]       \* turn/interrupt was written
NoNative == [st |-> "none", on |-> None, answered |-> FALSE, started |-> FALSE, stop |-> FALSE]
Gone(f) == [f EXCEPT !.st = "gone", !.started = FALSE, !.stop = FALSE]
Over == [NoNative EXCEPT !.st = "gone", !.answered = TRUE]

CancelledTurn == [turn : Turns, on : Pids, id : Turns \cup {None}]

\* An open gate is told from a closed one.
ASSUME GateAssumption == None \notin CancelledTurn

Steer == [st : {"none", "asked", "accepted", "rejected", "unknown"}, reached : BOOLEAN]
NoSteer == [st |-> "none", reached |-> FALSE]

\* The native thread a turn works on, once it has one.
Session(t) == IF turn[t].resume = None THEN t ELSE turn[t].resume
Settled(t) == turn[t].phase \in {"ok", "bad"}
Open(t) == turn[t].phase \notin {"none", "ok", "bad"}
Warm(t) == Open(t) /\ turn[t].phase # "cold"
Disabled == failures >= FailureLimit

Init ==
  /\ turn = [t \in Turns |-> NoTurn]
  /\ proc = [p \in Pids |-> "free"] /\ child = None /\ ready = "wait"
  /\ owner = [s \in Sessions |-> None] /\ gate = [s \in Sessions |-> None]
  /\ native = [t \in Turns |-> NoNative] /\ cold = {}
  /\ failures = 0 /\ shutdown = "no"
  /\ steer = [t \in Turns |-> NoSteer] /\ strays = {}

-----------------------------------------------------------------------------
(* What a turn goes on with: r is its record, g the gates.                 *)

SettledAs(r, phase) == [r EXCEPT !.phase = phase, !.id = None, !.cold = FALSE, !.stopped = FALSE]
Ok(r)  == SettledAs(r, "ok")
Bad(r) == SettledAs(r, "bad")
Gated(r, g) == r.resume # None /\ g[r.resume] # None

\* #hasUnexitedColdWriter: a settled one-shot of the topic or the session
\* whose process has not exited.
Unexited(r) ==
  \E c \in cold : /\ Settled(c)
                  /\ turn[c].thread = r.thread \/ Session(c) = r.resume

\* mutant
RetryAnyway(r, g) ==
  IF shutdown # "no" \/ Unexited(r) THEN Bad(r)
  ELSE [r EXCEPT !.phase = IF Gated(r, g) THEN "gate" ELSE "cold", !.cold = TRUE]

\* #fallbackToCold: a turn that showed nothing is run as a one-shot.
FallBack(r, g) ==
  IF r.known \/ shutdown # "no" \/ Unexited(r) THEN Bad(r)
  ELSE [r EXCEPT !.phase = IF Gated(r, g) THEN "gate" ELSE "cold", !.cold = TRUE]

\* mutant
AskAtOnce(r, g) == [r EXCEPT !.phase = "thread"]

\* #startTurn behind #ready: thread/start or thread/resume, unless a stopped
\* turn may still run on that thread.
Ask(r, g) == [r EXCEPT !.phase = IF Gated(r, g) THEN "gate" ELSE "thread"]

\* #startTurn; without a child the write throws.
Start(r, g) ==
  CASE child = None \/ ready = "no" -> FallBack(r, g)
    [] child # None /\ ready = "wait" -> [r EXCEPT !.phase = "ready"]
    [] child # None /\ ready = "ok" -> Ask(r, g)

\* The turns take these records; one that goes cold gets its process.
Become(new) ==
  /\ turn' = new
  /\ cold' = cold \cup {t \in Turns : new[t].phase = "cold" /\ turn[t].phase # "cold"}

Waits(t, s) == turn[t].phase = "gate" /\ Session(t) = s

\* #releaseCancelledTurn, with what waited for it.
Release(s) ==
  LET g == [gate EXCEPT ![s] = None] IN
  /\ gate' = g
  /\ Become([t \in Turns |-> IF ~Waits(t, s) THEN turn[t]
                             ELSE IF turn[t].cold THEN FallBack(turn[t], g)
                             ELSE Start(turn[t], g)])

-----------------------------------------------------------------------------
(* The bridge's calls.                                                     *)

FreshPid(p) == proc[p] = "free" /\ \A q \in Pids : q < p => proc[q] # "free"

SpawnChild(p) ==
  /\ FreshPid(p)
  /\ child' = p /\ proc' = [proc EXCEPT ![p] = "up"] /\ ready' = "wait"
  /\ owner' = [s \in Sessions |-> None]

\* prewarm() at boot.
Prewarm ==
  /\ child = None /\ shutdown = "no" /\ ~Disabled
  /\ \A t \in Turns : turn[t] = NoTurn
  /\ \E p \in Pids : SpawnChild(p)
  /\ UNCHANGED <<turn, gate, native, cold, failures, shutdown, steer, strays>>

\* A topic's turn starts when its last one has settled, and resumes a session
\* its topic was told of, or none.
MayRun(t, r) ==
  /\ turn[t].phase = "none" /\ \A u \in Turns : u < t => turn[u].phase # "none"
  /\ \A u \in Turns : turn[u].thread = r.thread => Settled(u)
  /\ r.resume # None =>
       \E u \in Turns : turn[u].thread = r.thread /\ turn[u].known /\ Session(u) = r.resume

Refused(r) == Unexited(r) \/ shutdown # "no"

Run(t) ==
  \E th \in Threads, s \in Sessions \cup {None} :
    LET r == [NoTurn EXCEPT !.thread = th, !.resume = s] IN
    /\ MayRun(t, r)
    /\ \/ /\ Refused(r)
          /\ Become([turn EXCEPT ![t] = Bad(r)])
          /\ UNCHANGED <<child, proc, ready, owner>>
       \/ /\ ~Refused(r) /\ Disabled
          /\ Become([turn EXCEPT ![t] = FallBack(r, gate)])
          /\ UNCHANGED <<child, proc, ready, owner>>
       \/ /\ ~Refused(r) /\ ~Disabled /\ child # None
          /\ Become([turn EXCEPT ![t] = Start(r, gate)])
          /\ UNCHANGED <<child, proc, ready, owner>>
       \/ /\ ~Refused(r) /\ ~Disabled /\ child = None
          /\ \E p \in Pids : SpawnChild(p)
          /\ Become([turn EXCEPT ![t] = [r EXCEPT !.phase = "ready"]])
    /\ UNCHANGED <<gate, native, failures, shutdown, steer, strays>>

\* mutant
GateOnceStarted(t) ==
  turn[t].phase = "turn" /\ child # None /\ turn[t].id # None

\* A turn that reached the wire may go on natively after its stop.
NeedsGate(t) == turn[t].phase = "turn" /\ child # None

\* #interruptTurn of every turn of ts: kill, abort signal, deadline.  The
\* app-server is told of a turn whose id is known, the caller's turn settles.
Interrupt(ts) ==
  LET gated == {t \in ts : NeedsGate(t)}
      Of(s) == {t \in gated : Session(t) = s}    \* one at most
      Stopped(s) == CHOOSE t \in Of(s) : TRUE
  IN
  /\ gate' = [s \in Sessions |->
       IF Of(s) = {} THEN gate[s]
       ELSE [turn |-> Stopped(s), on |-> child, id |-> turn[Stopped(s)].id]]
  /\ native' = [t \in Turns |->
       IF t \in gated /\ turn[t].id # None THEN [native[t] EXCEPT !.stop = TRUE] ELSE native[t]]
  /\ owner' = [s \in Sessions |-> IF Of(s) = {} THEN owner[s] ELSE None]
  /\ turn' = [t \in Turns |->
       IF t \notin ts \/ ~Open(t) THEN turn[t]
       ELSE IF Warm(t) THEN Ok(turn[t]) ELSE [turn[t] EXCEPT !.stopped = TRUE]]

Kill(t) ==
  /\ Open(t) /\ ~turn[t].stopped
  /\ Interrupt({t})
  /\ UNCHANGED <<proc, child, ready, cold, failures, shutdown, steer, strays>>

\* shutdown(): turns behind a gate are given up at once, the others drain.
BeginShutdown ==
  /\ shutdown = "no" /\ shutdown' = "draining"
  /\ Become([t \in Turns |-> IF turn[t].phase = "gate" THEN Bad(turn[t]) ELSE turn[t]])
  /\ UNCHANGED <<proc, child, ready, owner, gate, native, failures, steer, strays>>

\* killChildNow: a SIGTERM, and a SIGKILL if that does not do.
Termed(p) == [proc EXCEPT ![p] = "term"]

\* All turns are done, or the drain's time is up.
EndShutdown ==
  /\ shutdown = "draining" /\ shutdown' = "done"
  /\ Interrupt(Turns)
  /\ child' = None /\ ready' = "wait"
  /\ proc' = IF child = None THEN proc ELSE Termed(child)
  /\ UNCHANGED <<cold, failures, steer, strays>>

Unused == (\A t \in Turns : ~Open(t)) /\ (\A s \in Sessions : gate[s] = None)

\* The idle timer.
ReapIdle ==
  /\ shutdown = "no" /\ child # None /\ Unused
  /\ child' = None /\ ready' = "wait" /\ proc' = Termed(child)
  /\ UNCHANGED <<turn, owner, gate, native, cold, failures, shutdown, steer, strays>>

-----------------------------------------------------------------------------
(* Answers of the child, by request id.                                    *)

Reads(p) == p # None /\ child = p

InitAnswered(p) ==
  /\ Reads(p) /\ ready = "wait" /\ ready' = "ok"
  /\ Become([t \in Turns |-> IF turn[t].phase = "ready" THEN Ask(turn[t], gate) ELSE turn[t]])
  /\ UNCHANGED <<proc, child, owner, gate, native, failures, shutdown, steer, strays>>

\* A refused initialize: the child stays, its turns go cold.
InitRefused(p) ==
  /\ Reads(p) /\ ready = "wait" /\ ready' = "no"
  /\ Become([t \in Turns |-> IF turn[t].phase = "ready" THEN FallBack(turn[t], gate) ELSE turn[t]])
  /\ UNCHANGED <<proc, child, owner, gate, native, failures, shutdown, steer, strays>>

\* The thread's id: system_init is pushed and turn/start written.
ThreadAnswered(t) ==
  /\ turn[t].phase = "thread" /\ Reads(child)
  /\ turn' = [turn EXCEPT ![t].phase = "turn", ![t].known = TRUE]
  /\ owner' = [owner EXCEPT ![Session(t)] = t]
  /\ native' = [native EXCEPT ![t] = [NoNative EXCEPT !.st = "asked", !.on = child]]
  /\ UNCHANGED <<proc, child, ready, gate, cold, failures, shutdown, steer, strays>>

\* thread/start or thread/resume fails, or its answer names no thread.
ThreadRefused(t) ==
  /\ turn[t].phase = "thread" /\ Reads(child)
  /\ Become([turn EXCEPT ![t] = FallBack(turn[t], gate)])
  /\ UNCHANGED <<proc, child, ready, owner, gate, native, failures, shutdown, steer, strays>>

Stopping(t) == gate[Session(t)] # None /\ gate[Session(t)].turn = t

\* mutant
LearnOnly(n, t, f) ==
  /\ gate' = [gate EXCEPT ![Session(n)].id = t]
  /\ native' = [native EXCEPT ![n] = f]

\* The gate of n's thread learns the stopped turn's id, t: only now can that
\* turn be interrupted.  f is n's native turn after this line.
Learn(n, t, f) ==
  /\ gate' = [gate EXCEPT ![Session(n)].id = t]
  /\ native' = LET read == [native EXCEPT ![n] = f] IN
       IF gate[Session(n)].on = child THEN [read EXCEPT ![t].stop = TRUE] ELSE read

\* The answer to turn/start.
TurnAnswered(t) ==
  LET f == [native[t] EXCEPT !.answered = TRUE] IN
  /\ native[t].st \in {"running", "ended", "gone"} /\ ~native[t].answered /\ Reads(native[t].on)
  /\ \/ Stopping(t) /\ Learn(t, t, f) /\ UNCHANGED turn
     \/ /\ ~Stopping(t) /\ native' = [native EXCEPT ![t] = f] /\ UNCHANGED gate
        /\ turn' = IF Open(t) THEN [turn EXCEPT ![t].id = t] ELSE turn
  /\ UNCHANGED <<proc, child, ready, owner, cold, failures, shutdown, steer, strays>>

\* A refused turn/start cannot leave a turn running.
TurnRefused(t) ==
  /\ native[t].st = "asked" /\ Reads(native[t].on)
  /\ native' = [native EXCEPT ![t] = Over]
  /\ \/ Stopping(t) /\ Release(Session(t))
     \/ /\ ~Stopping(t) /\ UNCHANGED <<gate, cold>>
        /\ turn' = IF Open(t) THEN [turn EXCEPT ![t] = Bad(@)] ELSE turn
  /\ UNCHANGED <<proc, child, ready, owner, failures, shutdown, steer, strays>>

-----------------------------------------------------------------------------
(* Notifications about native turn n, routed by its thread.                *)

\* The thread's owner, unless it knows its turn to be another one.
Receivers(n) == {t \in Turns : owner[Session(n)] = t /\ Open(t) /\ turn[t].id \in {None, n}}
Feed(n) == strays' = strays \cup (Receivers(n) \ {n})

\* A gate listens only to its own turn, whose id it may not know yet.
Concerns(n) == gate[Session(n)].id \in {None, n}

Started(n) ==
  LET f == [native[n] EXCEPT !.started = TRUE] IN
  /\ native[n].st \in {"running", "ended"} /\ ~native[n].started /\ Reads(native[n].on)
  /\ \/ /\ gate[Session(n)] # None /\ UNCHANGED <<turn, strays>>
        /\ IF Concerns(n) THEN Learn(n, n, f) ELSE native' = [native EXCEPT ![n] = f] /\ UNCHANGED gate
     \/ /\ gate[Session(n)] = None
        /\ turn' = [t \in Turns |-> IF t \in Receivers(n) THEN [turn[t] EXCEPT !.id = n] ELSE turn[t]]
        /\ Feed(n) /\ native' = [native EXCEPT ![n] = f] /\ UNCHANGED gate
  /\ UNCHANGED <<proc, child, ready, owner, cold, failures, shutdown, steer>>

\* Output on the way; a stopped turn's is dropped.
Streams(n) ==
  /\ native[n].st = "running" /\ native[n].started /\ Reads(native[n].on)
  /\ gate[Session(n)] = None
  /\ Feed(n)
  /\ UNCHANGED <<turn, proc, child, ready, owner, gate, native, cold, failures,
                 shutdown, steer>>

\* turn/completed: a turn's result, or the end that a gate waits for.
Completed(n) ==
  LET s == Session(n) IN
  /\ native[n].st = "ended" /\ native[n].started /\ Reads(native[n].on)
  /\ native' = [native EXCEPT ![n] = Gone(@)]
  /\ \/ /\ gate[s] # None /\ UNCHANGED <<owner, strays>>
        /\ IF Concerns(n) THEN Release(s) ELSE UNCHANGED <<turn, gate, cold>>
     \/ /\ gate[s] = None
        /\ turn' = [t \in Turns |-> IF t \in Receivers(n) THEN Ok(turn[t]) ELSE turn[t]]
        /\ owner' = IF Receivers(n) = {} THEN owner ELSE [owner EXCEPT ![s] = None]
        /\ Feed(n) /\ UNCHANGED <<gate, cold>>
  /\ UNCHANGED <<proc, child, ready, failures, shutdown, steer>>

-----------------------------------------------------------------------------
(* The app-server, and the exit of a child (#onChildDown, #spawnChild).    *)

ServerAccepts(n) ==
  /\ native[n].st = "asked" /\ native' = [native EXCEPT ![n].st = "running"]
  /\ UNCHANGED <<turn, proc, child, ready, owner, gate, cold, failures, shutdown,
                 steer, strays>>

ServerEnds(n) ==
  /\ native[n].st = "running" /\ native' = [native EXCEPT ![n].st = "ended"]
  /\ UNCHANGED <<turn, proc, child, ready, owner, gate, cold, failures, shutdown,
                 steer, strays>>

\* #recordSpawnFailure: the window may have dropped older ones; the breaker
\* never closes again.
AfterFailure == IF Disabled THEN {failures} ELSE 1..failures+1

HeldBy(s, p) == gate[s] # None /\ gate[s].on = p

Exit(p) ==
  LET g == [s \in Sessions |-> IF HeldBy(s, p) THEN None ELSE gate[s]] IN
  /\ proc[p] \in {"up", "term"} /\ proc' = [proc EXCEPT ![p] = "dead"]
  /\ gate' = g
  /\ native' = [t \in Turns |->
       IF native[t].on = p THEN Over ELSE native[t]]
  /\ \/ /\ child = p /\ child' = None /\ ready' = "wait"
        /\ Become([t \in Turns |-> IF Warm(t) THEN FallBack(turn[t], g) ELSE turn[t]])
        /\ owner' = [s \in Sessions |-> None]
        /\ IF ready = "ok" THEN UNCHANGED failures ELSE failures' \in AfterFailure
        /\ steer' = [t \in Turns |-> IF steer[t].st = "asked" THEN [steer[t] EXCEPT !.st = "unknown"]
                                     ELSE steer[t]]
     \/ /\ child # p
        /\ Become([t \in Turns |->
             IF ~(turn[t].phase = "gate" /\ HeldBy(Session(t), p)) THEN turn[t]
             ELSE IF turn[t].cold THEN FallBack(turn[t], g) ELSE Start(turn[t], g)])
        /\ UNCHANGED <<child, ready, owner, failures, steer>>
  /\ UNCHANGED <<shutdown, strays>>

-----------------------------------------------------------------------------
(* The one-shot of a turn (runCodex): its done and its process end apart.  *)

ColdKeeps == <<proc, child, ready, owner, gate, native, failures, shutdown, steer, strays>>
ColdRuns(t) == turn[t].phase = "cold"

ColdThread(t) ==
  /\ ColdRuns(t) /\ ~turn[t].known /\ turn' = [turn EXCEPT ![t].known = TRUE]
  /\ UNCHANGED <<cold, ColdKeeps>>

ColdResult(t) ==
  /\ ColdRuns(t) /\ turn[t].known /\ turn' = [turn EXCEPT ![t] = Ok(@)]
  /\ UNCHANGED <<cold, ColdKeeps>>

\* An answer with an error rejects, also after a stop (failAppServerTurn).
ColdRefused(t) ==
  /\ ColdRuns(t) /\ t \in cold /\ turn' = [turn EXCEPT ![t] = Bad(@)]
  /\ UNCHANGED <<cold, ColdKeeps>>

ColdExits(t) ==
  /\ t \in cold /\ cold' = cold \ {t}
  /\ UNCHANGED <<turn, ColdKeeps>>

\* done after the exit, whose code says how, or forced after a stop that did
\* not end the process; a stopped turn resolves.
ColdDone(t) ==
  /\ ColdRuns(t) /\ (t \notin cold \/ turn[t].stopped)
  /\ turn' \in {[turn EXCEPT ![t] = Ok(@)], [turn EXCEPT ![t] = IF @.stopped THEN Ok(@) ELSE Bad(@)]}
  /\ UNCHANGED <<cold, ColdKeeps>>

-----------------------------------------------------------------------------
(* Live input (steering.ts).                                               *)

Steers(t, st) == steer' = [steer EXCEPT ![t].st = st]
SteerKeeps == <<turn, proc, child, ready, owner, gate, native, cold, failures,
                shutdown, strays>>

SteerTurn(t) ==
  /\ turn[t].phase = "turn" /\ turn[t].id # None /\ steer[t].st = "none"
  /\ Steers(t, "asked") /\ UNCHANGED SteerKeeps

\* The app-server takes the input while the turn it names runs.
SteerReaches(t) ==
  /\ steer[t].st = "asked" /\ ~steer[t].reached /\ native[t].st = "running"
  /\ steer' = [steer EXCEPT ![t].reached = TRUE] /\ UNCHANGED SteerKeeps

SteerAnswered(t) ==
  /\ steer[t].st = "asked" /\ Reads(native[t].on)
  /\ Steers(t, IF steer[t].reached THEN "accepted" ELSE "rejected")
  /\ UNCHANGED SteerKeeps

\* mutant
GiveUpAsRejected(t) == steer[t].st = "asked" /\ Steers(t, "rejected")

\* No answer in time, or one that does not say: the input may have arrived.
SteerUnanswered(t) == steer[t].st = "asked" /\ Steers(t, "unknown")
SteerFails(t) == SteerUnanswered(t) /\ UNCHANGED SteerKeeps

-----------------------------------------------------------------------------
Progress(t) ==
  \/ Run(t) \/ ThreadAnswered(t) \/ TurnAnswered(t) \/ Started(t) \/ Streams(t) \/ Completed(t)
  \/ ServerAccepts(t) \/ ServerEnds(t) \/ ColdThread(t) \/ ColdResult(t) \/ ColdDone(t)
Troubles(t) ==
  \/ Kill(t) \/ ThreadRefused(t) \/ TurnRefused(t) \/ ColdRefused(t)
  \/ ColdExits(t)
Steering(t) == SteerTurn(t) \/ SteerReaches(t) \/ SteerAnswered(t) \/ SteerFails(t)
Process == \E p \in Pids : InitAnswered(p) \/ InitRefused(p) \/ Exit(p)

Next ==
  \/ \E t \in Turns : Progress(t) \/ Troubles(t) \/ Steering(t)
  \/ Process \/ Prewarm \/ ReapIdle \/ BeginShutdown \/ EndShutdown

Spec == Init /\ [][Next]_vars

\* The app-server takes or refuses what it is asked, ends what it is told to,
\* and its lines are read; a child that was sent SIGTERM exits.
Fairness ==
  /\ \A t \in Turns :
       /\ WF_vars(ServerAccepts(t) \/ TurnRefused(t))
       /\ WF_vars(native[t].stop /\ ServerEnds(t))
       /\ WF_vars(TurnAnswered(t)) /\ WF_vars(Started(t)) /\ WF_vars(Completed(t))
  /\ \A p \in Pids : WF_vars(proc[p] = "term" /\ Exit(p))
FairSpec == Spec /\ Fairness

-----------------------------------------------------------------------------
TypeOK ==
  /\ turn \in [Turns -> TurnState] /\ native \in [Turns -> Native]
  /\ proc \in [Pids -> {"free", "up", "term", "dead"}]
  /\ child \in Pids \cup {None} /\ ready \in {"wait", "ok", "no"}
  /\ owner \in [Sessions -> Turns \cup {None}]
  /\ gate \in [Sessions -> CancelledTurn \cup {None}]
  /\ cold \subseteq Turns /\ failures \in 0..FailureLimit
  /\ shutdown \in {"no", "draining", "done"}
  /\ steer \in [Turns -> Steer] /\ strays \subseteq Turns

\* What may write a native thread: turns the app-server was asked for and has
\* not ended, and one-shots that have not exited.
Writers(s) ==
  {t \in Turns : Session(t) = s /\ (native[t].st \in {"asked", "running"} \/ t \in cold)}

\* A native thread has one writer, although a stopped turn and a finished
\* one-shot settle while they may still run (#cancelledThreads, #coldWriters).
OneWriter == \A s \in Sessions : \A t, u \in Writers(s) : t = u

\* A turn is given the output of its own native turn only: a stopped turn's
\* late output never reaches its successor on the thread (#handleNotification).
OutputIsOwn == strays = {}

\* An input reported as rejected, which the bridge queues as a turn of its
\* own, did not reach the running turn (CodexSteering).
RejectedStayedOut == \A t \in Turns : steer[t].st = "rejected" => ~steer[t].reached

\* What a runner promises about its turns (AgentTurns): done settles once, a
\* stopped turn of the app-server resolves, and only a turn that nobody stopped
\* and that has shown no output is executed again, once, as a one-shot
\* (#fallbackToCold, #abandonTurn).  A stopped one-shot may still reject
\* (ColdRefused), against "a deliberate kill resolves done" (codex/pool.ts:593):
\* the contract is taken with that exception.
HandleOf(r) ==
  [done |-> CASE r.phase = "none" -> "unborn"
              [] r.phase = "ok"   -> "resolved"
              [] r.phase = "bad"  -> "rejected"
              [] OTHER            -> "pending",
   cancelled |-> r.stopped, output |-> r.known /\ r.phase \notin {"none", "ok", "bad"},
   by |-> IF r.phase = "cold" THEN "oneShot" ELSE "pool"]

Contract == INSTANCE AgentTurns
              WITH handle <- [t \in Turns |-> HandleOf(turn[t])], LateRefusals <- TRUE
KeepsContract == Contract!Spec

\* A native thread does not stay gated: the stopped turn's id is learned, it is
\* interrupted, and its end or its child's lets the next turn on
\* (#sendCancelledTurnInterrupt, #releaseCancelledTurn).
GateOpens == \A s \in Sessions : gate[s] # None ~> gate[s] = None
================================================================================
