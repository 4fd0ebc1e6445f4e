-------------------------------- MODULE PiPool --------------------------------
(***************************************************************************)
(* The warm `pi --mode rpc` processes of one bot (src/src/pi/pool.ts): a   *)
(* process holds one session of one topic, spawned under one set of        *)
(* options, and a session file may never be open in two of them.  A        *)
(* topic's replacement process and its cold fallback wait for the exit of  *)
(* the one being retired; stopping a turn does not.                        *)
(*                                                                         *)
(* One action is one event of the host (a call of the bridge, a line of a  *)
(* process, a timer, an exit) or what follows a promise; get_state and the *)
(* set_* commands of a turn's preflight are one step.  Operators marked    *)
(* "mutant" are plausible bugs of the definition below them.               *)
(***************************************************************************)
EXTENDS Integers, FiniteSets

CONSTANTS
  MaxTurns,      \* turns, in the order they are run
  Threads,       \* topics
  Signatures,    \* spawn options
  MaxProcesses,  \* #maxProcesses
  MaxPids,       \* bound of the children spawned
  None

Turns == 1..MaxTurns
Pids  == 1..MaxPids
\* Native sessions: the one child p created, and the one an extension moved
\* it to.
Sessions == Pids \cup {-p : p \in Pids}
Foreign == 0       \* a run that larkway did not start

ASSUME PiAssumption ==
  /\ {MaxTurns, MaxProcesses, MaxPids} \subseteq Nat
  /\ MaxProcesses > 0 /\ None \notin Int \cup Threads \cup Signatures

VARIABLES
  turn,      \* TurnState of every run()
  proc,      \* PoolEntry or one-shot of every child
  shutdown,  \* how far shutdown() is
  used,      \* sessions that a prompt was accepted in
  astray     \* turns whose prompt or output was not their own

vars == <<turn, proc, shutdown, used, astray>>

TurnState ==
  [phase : {"none", "wait", "queued", "preflight", "prompt", "accepted", "refused",
            "coldWait", "cold", "ok", "bad"},
   thread : Threads \cup {None}, sig : Signatures \cup {None},
   resume : Sessions \cup {None},
   on : Pids \cup {None},          \* entry, or the one-shot
   awaits : SUBSET Pids,           \* the exits it waits for
   told : Sessions \cup {None},    \* the session its events named: reachedWire
   killed : BOOLEAN,               \* killRequested
   timer : {"none", "abort", "final"}]

NoTurn == [phase |-> "none", thread |-> None, sig |-> None, resume |-> None, on |-> None,
           awaits |-> {}, told |-> None, killed |-> FALSE, timer |-> "none"]

Child ==
  [st : {"free", "up", "term", "dead"},    \* term: destroyed, not yet exited
   kind : {"warm", "cold"},
   thread : Threads \cup {None}, sig : Signatures \cup {None},
   session : Sessions \cup {None},  \* PoolEntry.sessionId
   native : Sessions \cup {None},   \* what pi has open
   ran : BOOLEAN,                   \* hasRunTurn
   current : Turns \cup {None},
   run : Turns \cup {Foreign, None}]

NoChild == [st |-> "free", kind |-> "warm", thread |-> None, sig |-> None, session |-> None,
            native |-> None, ran |-> FALSE, current |-> None, run |-> None]

Gone == [NoChild EXCEPT !.st = "dead"]

Settled(r) == r.phase \in {"ok", "bad"}
Open(r) == ~Settled(r) /\ r.phase # "none"
Alive(c) == c.st \in {"up", "term"}

Init ==
  /\ turn = [t \in Turns |-> NoTurn] /\ proc = [p \in Pids |-> NoChild]
  /\ shutdown = "no" /\ used = {} /\ astray = {}

-----------------------------------------------------------------------------
(* r is a turn's record, ps the children.                                  *)

\* #finishTurn
SettledAs(r, phase) ==
  [r EXCEPT !.phase = phase, !.on = None, !.awaits = {}, !.killed = FALSE, !.timer = "none"]
Ok(r)  == SettledAs(r, "ok")
Bad(r) == SettledAs(r, "bad")

\* settleResult or settleReject, after a stop always the former
OkIfKilled(r) == IF r.killed THEN Ok(r) ELSE Bad(r)

\* #destroyEntry
Retired(c) == IF c.st = "up" THEN [c EXCEPT !.st = "term"] ELSE c

\* mutant
PresumedDead(th, ps) == {}

\* #exitsOfThread
Retiring(th, ps) == {p \in Pids : ps[p].st = "term" /\ ps[p].kind = "warm" /\ ps[p].thread = th}

\* #hasColdWriter
HasColdWriter(r, ps) ==
  \E p \in Pids : /\ ps[p].kind = "cold" /\ Alive(ps[p])
                  /\ ps[p].thread = r.thread \/ ps[p].native = r.resume

\* #canContinue
CanContinue(c, r) ==
  IF r.resume # None THEN c.session = r.resume ELSE ~c.ran /\ c.session = None

\* A child's native session: the one it resumes, or a new one.
Spawned(p, r, kind) ==
  [NoChild EXCEPT !.st = "up", !.kind = kind, !.thread = r.thread,
                  !.sig = IF kind = "warm" THEN r.sig ELSE None, !.session = r.resume,
                  !.native = IF r.resume = None THEN p ELSE r.resume]

FreshPid(p, ps) == ps[p].st = "free" /\ \A q \in Pids : q < p => ps[q].st # "free"

Become(t, r, ps) == turn' = [turn EXCEPT ![t] = r] /\ proc' = ps

WaitFor(t, r, ps, phase, exits) ==
  Become(t, [r EXCEPT !.phase = phase, !.awaits = exits, !.on = None], ps)

\* start() of #fallbackToCold
StartCold(t, r, ps) ==
  \/ HasColdWriter(r, ps) /\ Become(t, Bad(r), ps)
  \/ /\ ~HasColdWriter(r, ps)
     /\ \E p \in Pids :
          /\ FreshPid(p, ps)
          /\ Become(t, [r EXCEPT !.phase = "cold", !.on = p, !.awaits = {}],
                    [ps EXCEPT ![p] = Spawned(p, r, "cold")])

\* mutant
AnyDeathFallsBack(r) == TRUE

\* Only a turn that showed nothing is run again.
MayFallBack(r) == r.told = None

\* #fallbackToCold
FallBack(t, r, ps) ==
  \/ r.killed /\ Become(t, Ok(r), ps)
  \/ ~r.killed /\ shutdown # "no" /\ Become(t, Bad(r), ps)
  \/ /\ ~r.killed /\ shutdown = "no"
     /\ LET exits == Retiring(r.thread, ps) IN
        IF exits # {} THEN WaitFor(t, r, ps, "coldWait", exits) ELSE StartCold(t, r, ps)

Entry(p, r, ps) == /\ ps[p].st = "up" /\ ps[p].kind = "warm"
                   /\ ps[p].thread = r.thread /\ ps[p].sig = r.sig
Entries(ps) == {p \in Pids : ps[p].st = "up" /\ ps[p].kind = "warm"}
Idle(ps) == {p \in Entries(ps) : ps[p].current = None}

Enqueue(t, r, ps, p) == Become(t, [r EXCEPT !.phase = "queued", !.on = p, !.awaits = {}], ps)

\* #spawnEntry, for which an idle process may have to go (#pickLruIdleVictim;
\* which one is left open).
PlaceOnNew(t, r, ps) ==
  LET full == Cardinality(Entries(ps)) >= MaxProcesses IN
  \/ full /\ Idle(ps) = {} /\ FallBack(t, r, ps)
  \/ \E p \in Pids :
       /\ FreshPid(p, ps)
       /\ \/ ~full /\ Enqueue(t, r, [ps EXCEPT ![p] = Spawned(p, r, "warm")], p)
          \/ /\ full
             /\ \E v \in Idle(ps) :
                  Enqueue(t, r, [ps EXCEPT ![v] = Retired(@), ![p] = Spawned(p, r, "warm")], p)

\* #place
Place(t, r, ps) ==
  LET exits == Retiring(r.thread, ps)
      at == {p \in Pids : Entry(p, r, ps)}     \* one at most
  IN
  \/ (HasColdWriter(r, ps) \/ shutdown # "no") /\ Become(t, Bad(r), ps)
  \/ /\ ~HasColdWriter(r, ps) /\ shutdown = "no"
     /\ \/ exits # {} /\ WaitFor(t, r, ps, "wait", exits)
        \/ exits = {} /\ at = {} /\ PlaceOnNew(t, r, ps)
        \/ /\ exits = {}
           /\ \E p \in at :
                IF CanContinue(ps[p], r) THEN Enqueue(t, r, ps, p)
                ELSE WaitFor(t, r, [ps EXCEPT ![p] = Retired(@)], "wait", {p})

-----------------------------------------------------------------------------
(* The bridge's calls.                                                     *)

\* The bridge runs one turn of a topic at a time, and resumes a session that
\* the topic was told of, or none.
MayRun(t, r) ==
  /\ turn[t].phase = "none" /\ \A u \in Turns : u < t => turn[u].phase # "none"
  /\ \A u \in Turns : turn[u].thread = r.thread => Settled(turn[u])
  /\ r.resume # None => \E u \in Turns : turn[u].thread = r.thread /\ turn[u].told = r.resume

\* Idle processes of the topic that cannot serve the turn.
Superseded(r) ==
  {p \in Idle(proc) : /\ proc[p].thread = r.thread
                      /\ proc[p].sig # r.sig \/ ~CanContinue(proc[p], r)}

Run(t) ==
  /\ \E th \in Threads, s \in Signatures, n \in Sessions \cup {None} :
       LET r == [NoTurn EXCEPT !.thread = th, !.sig = s, !.resume = n]
           ps == [p \in Pids |-> IF p \in Superseded(r) THEN Retired(proc[p]) ELSE proc[p]]
       IN
       /\ MayRun(t, r)
       /\ IF HasColdWriter(r, proc) \/ shutdown # "no" THEN Become(t, Bad(r), proc)
          ELSE Place(t, r, ps)
  /\ UNCHANGED <<shutdown, used, astray>>

\* The exits it waited for have happened (#deferUntilExit).
MayResume(t) ==
  turn[t].phase \in {"wait", "coldWait"} /\ \A p \in turn[t].awaits : proc[p].st = "dead"

\* The chain of an entry is held by its current turn.
MayStart(t) == turn[t].phase = "queued" /\ proc[turn[t].on].current = None

\* Continuations of promises run before the host takes its next event.
MicroDue == \E t \in Turns : MayResume(t) \/ MayStart(t)

Resume(t) ==
  /\ MayResume(t)
  /\ IF turn[t].phase = "wait" THEN Place(t, turn[t], proc) ELSE StartCold(t, turn[t], proc)
  /\ UNCHANGED <<shutdown, used, astray>>

OnWire(r) == r.phase \in {"prompt", "accepted", "refused"}

\* #interruptTurn: a turn whose prompt was written is aborted by command, one
\* that is not on the wire settles at once.
Interrupted(r) ==
  CASE ~Open(r) \/ r.killed -> r
    [] Open(r) /\ ~r.killed /\ OnWire(r) -> [r EXCEPT !.killed = TRUE, !.timer = "abort"]
    [] Open(r) /\ ~r.killed /\ r.phase = "cold" -> [r EXCEPT !.killed = TRUE]
    [] OTHER -> Ok(r)

\* The process lets go of turns that have settled.
LetGo(tn, c) == IF c.current # None /\ Settled(tn[c.current]) THEN [c EXCEPT !.current = None] ELSE c

\* A process whose preflight was unanswered is stuck.
Stuck(ts, p) == proc[p].current \in ts /\ turn[proc[p].current].phase = "preflight"

Kill(t) ==
  LET tn == [turn EXCEPT ![t] = Interrupted(@)] IN
  /\ Open(turn[t]) /\ ~turn[t].killed
  /\ turn' = tn
  /\ proc' = [p \in Pids |-> LetGo(tn, IF Stuck({t}, p) THEN Retired(proc[p]) ELSE proc[p])]
  /\ UNCHANGED <<shutdown, used, astray>>

Waiting(r) == r.phase \in {"wait", "coldWait"}

\* shutdown(): one-shots are stopped, waiting turns given up, others drain.
BeginShutdown ==
  /\ shutdown = "no" /\ shutdown' = "draining"
  /\ turn' = [t \in Turns |-> IF Waiting(turn[t]) THEN Bad(turn[t])
                              ELSE IF turn[t].phase = "cold" THEN Interrupted(turn[t])
                              ELSE turn[t]]
  /\ UNCHANGED <<proc, used, astray>>

\* All turns are done, or the drain's time is up.
EndShutdown ==
  LET held == {proc[p].current : p \in Entries(proc)}
      tn == [t \in Turns |-> IF t \in held THEN Interrupted(turn[t]) ELSE turn[t]]
  IN
  /\ shutdown = "draining" /\ shutdown' = "done"
  /\ turn' = tn
  /\ proc' = [p \in Pids |->
       LetGo(tn, IF p \in Entries(proc) THEN Retired(proc[p]) ELSE proc[p])]
  /\ UNCHANGED <<used, astray>>

-----------------------------------------------------------------------------
(* #runTurnOnEntry: preflight, prompt, and what pi answers.                *)

StartTurn(t) ==
  LET p == turn[t].on IN
  /\ MayStart(t)
  /\ \/ /\ proc[p].st = "up"
        /\ Become(t, [turn[t] EXCEPT !.phase = "preflight"], [proc EXCEPT ![p].current = t])
     \/ proc[p].st # "up" /\ FallBack(t, turn[t], proc)
  /\ UNCHANGED <<shutdown, used, astray>>

InPhase(t, p, phase) == turn[t].phase = phase /\ turn[t].on = p /\ proc[p].st = "up"

\* The session get_state reports is the one the turn resumes.
SessionMatches(c, r) == r.resume # None => c.native = r.resume

\* A prompt belongs in the session it resumes, or in one without any.
Astray(t, p) ==
  IF turn[t].resume # None THEN proc[p].native # turn[t].resume ELSE proc[p].native \in used

\* get_state and the set_* commands are answered, and the prompt is written.
Preflight(t, p) ==
  /\ InPhase(t, p, "preflight") /\ proc[p].run # Foreign
  /\ SessionMatches(proc[p], turn[t])
  /\ Become(t, [turn[t] EXCEPT !.phase = "prompt"],
            [proc EXCEPT ![p].session = proc[p].native, ![p].ran = TRUE])
  /\ astray' = astray \cup (IF Astray(t, p) THEN {t} ELSE {})
  /\ UNCHANGED <<shutdown, used>>

\* pi is busy with something else, or in another session: the process is
\* retired, and its exit hands the turn to a one-shot.
Unfit(t, p) ==
  /\ InPhase(t, p, "preflight")
  /\ proc[p].run = Foreign \/ ~SessionMatches(proc[p], turn[t])
  /\ proc' = [proc EXCEPT ![p] = Retired(@)]
  /\ UNCHANGED <<turn, shutdown, used, astray>>

Settle(t, p, r) == Become(t, r, [proc EXCEPT ![p].current = None])

\* An error answer to get_state.
PreflightFails(t, p) ==
  /\ InPhase(t, p, "preflight") /\ Settle(t, p, Bad(turn[t]))
  /\ UNCHANGED <<shutdown, used, astray>>

\* pi accepts the prompt and runs it, or an extension consumes it; read from
\* a retired process too.
Accepted(t, p) ==
  /\ turn[t].phase = "prompt" /\ turn[t].on = p /\ Alive(proc[p]) /\ proc[p].run = None
  /\ \E x \in {t, None} :
       Become(t, [turn[t] EXCEPT !.phase = "accepted"], [proc EXCEPT ![p].run = x])
  /\ used' = used \cup {proc[p].native}
  /\ UNCHANGED <<shutdown, astray>>

Refused(t, p) ==
  /\ InPhase(t, p, "prompt") /\ Settle(t, p, OkIfKilled(turn[t]))
  /\ UNCHANGED <<shutdown, used, astray>>

\* "already processing": as for a process that is busy before.
RefusedBusy(t, p) ==
  /\ InPhase(t, p, "prompt") /\ proc[p].run = Foreign
  /\ \/ turn[t].killed /\ Settle(t, p, Ok(turn[t]))
     \/ ~turn[t].killed /\ Become(t, [turn[t] EXCEPT !.phase = "refused"],
                                  [proc EXCEPT ![p] = Retired(@)])
  /\ UNCHANGED <<shutdown, used, astray>>

\* get_state after the acceptance tells a consumed prompt from a run.
ProbeIdle(t, p) ==
  /\ InPhase(t, p, "accepted") /\ proc[p].run = None /\ turn[t].told = None
  /\ Settle(t, p, Ok([turn[t] EXCEPT !.told = proc[p].native]))
  /\ UNCHANGED <<shutdown, used, astray>>

\* mutant
AnyRecord(t) == OnWire(turn[t])

\* Session events are the current turn's once its prompt was accepted.
Listens(t) == turn[t].phase = "accepted"

\* #onTurnRecord: x is the run whose record it is.
Receivers(p) == {t \in Turns : proc[p].current = t /\ Listens(t)}

Streams(p) ==
  /\ proc[p].run # None /\ Alive(proc[p])
  /\ turn' = [t \in Turns |-> IF t \in Receivers(p) THEN [turn[t] EXCEPT !.told = proc[p].native]
                              ELSE turn[t]]
  /\ astray' = astray \cup (Receivers(p) \ {proc[p].run})
  /\ UNCHANGED <<proc, shutdown, used>>

\* agent_settled, after an answer or a provider error (#onTurnSettled).
RunEnds(p) ==
  /\ proc[p].run # None /\ Alive(proc[p])
  /\ \E bad \in BOOLEAN :
       turn' = [t \in Turns |->
         IF t \notin Receivers(p) THEN turn[t]
         ELSE LET r == [turn[t] EXCEPT !.told = proc[p].native] IN
              IF bad THEN OkIfKilled(r) ELSE Ok(r)]
  /\ proc' = [proc EXCEPT ![p].run = None, ![p].current = IF Receivers(p) = {} THEN @ ELSE None]
  /\ astray' = astray \cup (Receivers(p) \ {proc[p].run})
  /\ UNCHANGED <<shutdown, used>>

\* No agent_settled after an abort: the process is torn down, and if even
\* that yields no exit the turn alone is finished.
Escalate(t) ==
  /\ turn[t].timer = "abort"
  /\ Become(t, [turn[t] EXCEPT !.timer = "final"], [proc EXCEPT ![turn[t].on] = Retired(@)])
  /\ UNCHANGED <<shutdown, used, astray>>

Finalize(t) ==
  /\ turn[t].timer = "final" /\ Settle(t, turn[t].on, Ok(turn[t]))
  /\ UNCHANGED <<shutdown, used, astray>>

-----------------------------------------------------------------------------
(* Processes.                                                              *)

\* #onEntryExit, once the output is read.
Exit(p) ==
  LET ps == [proc EXCEPT ![p] = Gone]
      t == proc[p].current
  IN
  /\ Alive(proc[p])
  /\ \/ t = None /\ proc' = ps /\ UNCHANGED turn
     \/ /\ t # None
        /\ IF ~turn[t].killed /\ MayFallBack(turn[t]) THEN FallBack(t, turn[t], ps)
           ELSE Become(t, OkIfKilled(turn[t]), ps)
  /\ UNCHANGED <<shutdown, used, astray>>

\* #armIdleSweep
Reap(p) ==
  /\ shutdown = "no" /\ p \in Idle(proc)
  /\ proc' = [proc EXCEPT ![p] = Retired(@)]
  /\ UNCHANGED <<turn, shutdown, used, astray>>

\* runPi: the session is named, done settles (by itself, after the exit, or
\* some time after a stop or a result), and the process exits.
ColdInit(t) ==
  /\ turn[t].phase = "cold" /\ turn[t].told = None /\ proc[turn[t].on].st = "up"
  /\ Become(t, [turn[t] EXCEPT !.told = proc[turn[t].on].native], proc)
  /\ used' = used \cup {proc[turn[t].on].native}
  /\ UNCHANGED <<shutdown, astray>>

ColdDone(t) ==
  /\ turn[t].phase = "cold"
  /\ \/ /\ proc[turn[t].on].st = "dead" \/ turn[t].killed \/ turn[t].told # None
        /\ Become(t, Ok(turn[t]), proc)
     \/ /\ proc[turn[t].on].st = "dead"
        /\ Become(t, OkIfKilled(turn[t]), proc)
  /\ UNCHANGED <<shutdown, used, astray>>

\* An extension starts a run, or moves an idle process to another session.
ForeignRun(p) ==
  /\ proc[p].st = "up" /\ proc[p].kind = "warm" /\ proc[p].run = None
  /\ \A t \in Turns : turn[t].on = p => turn[t].phase # "accepted"
  /\ proc' = [proc EXCEPT ![p].run = Foreign]
  /\ UNCHANGED <<turn, shutdown, used, astray>>

Switch(p) ==
  /\ p \in Idle(proc) /\ proc[p].ran /\ proc[p].native # -p
  /\ proc' = [proc EXCEPT ![p].native = -p]
  /\ UNCHANGED <<turn, shutdown, used, astray>>

-----------------------------------------------------------------------------
Answers(t, p) ==
  \/ Preflight(t, p) \/ Unfit(t, p) \/ PreflightFails(t, p) \/ Accepted(t, p)
  \/ Refused(t, p) \/ RefusedBusy(t, p) \/ ProbeIdle(t, p)
Process(p) == Streams(p) \/ RunEnds(p) \/ Exit(p) \/ Reap(p)
Events ==
  \/ \E t \in Turns : \/ Escalate(t) \/ Finalize(t) \/ ColdInit(t) \/ ColdDone(t)
                      \/ \E p \in Pids : Answers(t, p)
  \/ \E p \in Pids : Process(p)
  \/ BeginShutdown \/ EndShutdown

Next ==
  \/ ~MicroDue /\ Events
  \/ \E t \in Turns : Run(t) \/ Kill(t) \/ Resume(t) \/ StartTurn(t)
  \/ \E p \in Pids : ForeignRun(p) \/ Switch(p)

Spec == Init /\ [][Next]_vars

-----------------------------------------------------------------------------
TypeOK ==
  /\ turn \in [Turns -> TurnState] /\ proc \in [Pids -> Child]
  /\ shutdown \in {"no", "draining", "done"}
  /\ used \subseteq Sessions /\ astray \subseteq Turns

\* A session file is open in one process at most, although turns settle before
\* their process has exited ("Session single-writer rule", #exitsOfThread,
\* #coldWriters).
OneWriter ==
  \A p, q \in Pids : Alive(proc[p]) /\ Alive(proc[q]) /\ proc[p].native = proc[q].native => p = q

\* A turn's prompt goes to the session it resumes, or to one that no prompt
\* went to before, and it is shown records of its own run only
\* (#canContinue, get_state's session check, promptAccepted).
TurnsAreTheirOwn == astray = {}

\* What a runner promises about its turns (AgentTurns).
HandleOf(r) ==
  [done |-> CASE r.phase = "none" -> "unborn"
              [] r.phase = "ok"   -> "resolved"
              [] r.phase = "bad"  -> "rejected"
              [] OTHER            -> "pending",
   cancelled |-> r.killed,
   output |-> Open(r) /\ r.told # None,
   by |-> IF r.phase = "cold" THEN "oneShot" ELSE "pool"]

Contract == INSTANCE AgentTurns
              WITH handle <- [t \in Turns |-> HandleOf(turn[t])], LateRefusals <- FALSE
KeepsContract == Contract!Spec
================================================================================
