--------------------------- MODULE CodexPool_proofs ---------------------------
(***************************************************************************)
(* Type correctness of CodexPool, that a native thread has one writer and  *)
(* a turn its own output only, and that the pool keeps the runner contract *)
(* of AgentTurns, for any number of turns, topics and children.            *)
(*                                                                         *)
(* Every native turn that may still run is either an open turn's or gates  *)
(* its thread (Wired); a topic has one open turn at a time (Serial), none  *)
(* beside a finished one-shot that has not exited (OneShots); and turns of *)
(* one native thread are turns of one topic (Lineage).  All actions but    *)
(* Run only move turns along their phases (Moves), which is what most of   *)
(* the invariant, and the contract, depend on.                             *)
(***************************************************************************)
EXTENDS CodexPool, TLAPS

Ran(t)  == turn[t].phase # "none"
Live(n) == native[n].st \in {"asked", "running", "ended"}

\* A turn resumes a native thread that a settled turn of its topic created.
Lineage ==
  \A t \in Turns :
    /\ ~Ran(t) => turn[t].thread = None /\ turn[t].resume = None
    /\ Ran(t) => turn[t].thread \in Threads
    /\ Ran(t) /\ turn[t].resume # None =>
         LET s == turn[t].resume IN
         Settled(s) /\ turn[s].resume = None /\ turn[s].thread = turn[t].thread

\* A topic has one open turn.
Serial ==
  \A t, u \in Turns : Open(t) /\ Open(u) /\ turn[t].thread = turn[u].thread => t = u

\* A gate is closed by a settled turn of its native thread, and before no turn
\* that is past it.
Gates ==
  /\ \A s \in Sessions : gate[s] # None => Settled(gate[s].turn) /\ Session(gate[s].turn) = s
  /\ \A t \in Turns : turn[t].phase \in {"thread", "turn", "cold"} => gate[Session(t)] = None

\* A native turn that may still write is an open turn's on the current child,
\* or the one its thread's gate waits for.
Wired ==
  /\ \A t \in Turns : turn[t].phase \in {"ready", "thread", "turn"} => child # None
  /\ \A n \in Turns : Live(n) =>
       \/ turn[n].phase = "turn" /\ native[n].on = child
       \/ Stopping(n) /\ gate[Session(n)].on = native[n].on

\* A thread's owner is its open turn on the wire, or a settled turn.
Owners ==
  \A s \in Sessions : owner[s] # None =>
    Session(owner[s]) = s /\ (turn[owner[s]].phase = "turn" \/ Settled(owner[s]))

\* A topic has one one-shot, alone if it has finished.
OneShots ==
  \A c \in cold :
    /\ Settled(c) \/ turn[c].phase = "cold"
    /\ gate[Session(c)] = None
    /\ \A t \in Turns : turn[t].thread = turn[c].thread =>
         (t \in cold => t = c) /\ (Settled(c) => ~Open(t))

IInv == TypeOK /\ Lineage /\ Serial /\ Gates /\ Wired /\ Owners /\ OneShots
-----------------------------------------------------------------------------
(* What a step makes of a turn.                                            *)

Same(r, q) == q.thread = r.thread /\ q.resume = r.resume /\ (r.known => q.known)

\* Where FallBack, Ask and Start leave a turn with record r.
Placed(r, q, g) ==
  /\ q \in TurnState /\ Same(r, q) /\ q.known = r.known
  /\ q.phase \in {"bad", "gate", "cold", "ready", "thread"}
  /\ q.phase \in {"ready", "thread"} => child # None
  /\ q.phase \in {"thread", "cold"} => ~Gated(r, g)
  /\ q.phase = "cold" => ~Unexited(r) /\ ~r.known

\* Every turn stays in its phase, settles, is placed or goes on the wire.
Moves(g) ==
  \A t \in Turns :
    /\ Same(turn[t], turn'[t])
    /\ \/ turn'[t].phase = turn[t].phase
       \/ Open(t) /\ turn'[t].phase \in {"ok", "bad"}
       \/ turn[t].phase = "thread" /\ turn'[t].phase = "turn"
       \/ Warm(t) /\ Placed(turn[t], turn'[t], g)

ColdIn == \A c \in cold' : c \in cold \/ (turn'[c].phase = "cold" /\ turn[c].phase # "cold")
GateKept == \A s \in Sessions : gate'[s] = gate[s] \/ gate'[s] = None

LEMMA BadTyped ==
  ASSUME NEW r \in TurnState
  PROVE  /\ Bad(r) \in TurnState /\ Same(r, Bad(r)) /\ Bad(r).phase = "bad" /\ Bad(r).known = r.known
         /\ Ok(r) \in TurnState /\ Same(r, Ok(r)) /\ Ok(r).phase = "ok"
BY DEF Bad, Ok, SettledAs, TurnState, Same

LEMMA FallBackPlaces ==
  ASSUME NEW r \in TurnState, NEW g
  PROVE  Placed(r, FallBack(r, g), g) /\ FallBack(r, g).phase \in {"bad", "gate", "cold"}
<1> DEFINE q == [r EXCEPT !.phase = IF Gated(r, g) THEN "gate" ELSE "cold", !.cold = TRUE]
<1>1. CASE r.known \/ shutdown # "no" \/ Unexited(r)
  <2>1. FallBack(r, g) = Bad(r)
    BY <1>1 DEF FallBack
  <2> QED BY <2>1, BadTyped DEF Placed
<1>2. CASE ~(r.known \/ shutdown # "no" \/ Unexited(r))
  <2>1. FallBack(r, g) = q
    BY <1>2 DEF FallBack
  <2>2. q \in TurnState /\ Same(r, q) /\ q.known = r.known /\ q.phase = IF Gated(r, g) THEN "gate" ELSE "cold"
    BY DEF TurnState, Same
  <2> QED BY <1>2, <2>1, <2>2 DEF Placed
<1> QED BY <1>1, <1>2

LEMMA AskPlaces ==
  ASSUME NEW r \in TurnState, NEW g, child # None
  PROVE  Placed(r, Ask(r, g), g)
<1> DEFINE q == [r EXCEPT !.phase = IF Gated(r, g) THEN "gate" ELSE "thread"]
<1>1. Ask(r, g) = q
  BY DEF Ask
<1>2. q \in TurnState /\ Same(r, q) /\ q.known = r.known /\ q.phase = IF Gated(r, g) THEN "gate" ELSE "thread"
  BY DEF TurnState, Same
<1> QED BY <1>1, <1>2 DEF Placed

LEMMA StartPlaces ==
  ASSUME NEW r \in TurnState, NEW g, ready \in {"wait", "ok", "no"}
  PROVE  Placed(r, Start(r, g), g)
<1> DEFINE q == [r EXCEPT !.phase = "ready"]
<1>1. CASE child = None \/ ready = "no"
  <2>1. Start(r, g) = FallBack(r, g)
    BY <1>1 DEF Start
  <2> QED BY <2>1, FallBackPlaces
<1>2. CASE child # None /\ ready = "wait"
  <2>1. Start(r, g) = q
    BY <1>2 DEF Start
  <2>2. q \in TurnState /\ Same(r, q) /\ q.known = r.known /\ q.phase = "ready"
    BY DEF TurnState, Same
  <2> QED BY <1>2, <2>1, <2>2 DEF Placed
<1>3. CASE child # None /\ ready = "ok"
  <2>1. Start(r, g) = Ask(r, g)
    BY <1>3 DEF Start
  <2> QED BY <1>3, <2>1, AskPlaces
<1> QED BY <1>1, <1>2, <1>3

-----------------------------------------------------------------------------
(* What the invariant says of two turns of one native thread.              *)

LEMMA SameThread ==
  ASSUME TypeOK, Lineage, NEW t \in Turns, NEW u \in Turns, Ran(t), Ran(u),
         Session(t) = Session(u)
  PROVE  turn[t].thread = turn[u].thread
<1> DEFINE s == Session(t)
<1>1. \A x \in Turns : Ran(x) => turn[Session(x)].thread = turn[x].thread
  BY DEF Lineage, Session
<1> QED BY <1>1

\* A fresh native thread is not gated.
LEMMA FreshUngated ==
  ASSUME TypeOK, Lineage, Gates, NEW t \in Turns, ~Settled(t)
  PROVE  gate[t] = None
<1> SUFFICES ASSUME gate[t] # None PROVE FALSE
  OBVIOUS
<1>1. Settled(gate[t].turn) /\ Session(gate[t].turn) = t /\ gate[t].turn \in Turns
  BY DEF Gates, Sessions, TypeOK, CancelledTurn
<1>2. Ran(gate[t].turn)
  BY <1>1 DEF Settled, Ran
<1> QED BY <1>1, <1>2 DEF Lineage, Session

\* An open turn on an open gate keeps its native thread to itself.
LEMMA OpenAlone ==
  ASSUME TypeOK, Lineage, Serial, NEW t \in Turns, NEW u \in Turns, Open(t), Open(u),
         Session(t) = Session(u)
  PROVE  t = u
<1>1. Ran(t) /\ Ran(u)
  BY DEF Open, Ran
<1> QED BY <1>1, SameThread DEF Serial

LEMMA OwnReceiver ==
  ASSUME IInv, NEW n \in Turns, Live(n), gate[Session(n)] = None
  PROVE  Receivers(n) \subseteq {n}
<1> SUFFICES ASSUME NEW t \in Receivers(n) PROVE t = n
  OBVIOUS
<1>1. turn[n].phase = "turn"
  BY DEF IInv, Wired, Stopping
<1>2. t \in Turns /\ Open(t) /\ owner[Session(n)] = t
  BY DEF Receivers
<1>3. Session(n) \in Sessions /\ t # None
  BY CodexAssumption, <1>2 DEF Session, IInv, TypeOK, TurnState, Sessions, Turns
<1>4. Session(t) = Session(n)
  BY <1>2, <1>3 DEF IInv, Owners
<1>5. Open(n)
  BY <1>1 DEF Open
<1> QED BY <1>2, <1>4, <1>5, OpenAlone DEF IInv

LEMMA WritersAlone == IInv => OneWriter
<1> SUFFICES ASSUME IInv, NEW s \in Sessions, NEW t \in Writers(s), NEW u \in Writers(s)
             PROVE  t = u
  BY DEF OneWriter
<1>1. /\ t \in Turns /\ Session(t) = s /\ (Live(t) \/ t \in cold)
      /\ u \in Turns /\ Session(u) = s /\ (Live(u) \/ u \in cold)
  BY DEF Writers, Live
<1>2. \A x \in Turns : Session(x) = s /\ Live(x) =>
        \/ turn[x].phase = "turn" /\ Open(x) /\ Ran(x) /\ gate[s] = None
        \/ gate[s] # None /\ gate[s].turn = x
  BY DEF IInv, Wired, Stopping, Gates, Open, Ran
<1>3. \A x \in cold : x \in Turns /\ Ran(x)
  BY DEF IInv, TypeOK, OneShots, Settled, Ran
<1>4. CASE Live(t) /\ Live(u)
  BY <1>1, <1>2, <1>4, OpenAlone DEF IInv
<1>5. \A x, c \in Turns : Session(x) = s /\ Session(c) = s /\ Live(x) /\ c \in cold => FALSE
  <2> SUFFICES ASSUME NEW x \in Turns, NEW c \in Turns, Session(x) = s, Session(c) = s,
                      Live(x), c \in cold
               PROVE  FALSE
    OBVIOUS
  <2>1. gate[s] = None /\ (Settled(c) \/ turn[c].phase = "cold")
    BY DEF IInv, OneShots
  <2>2. turn[x].phase = "turn" /\ Open(x) /\ Ran(x)
    BY <1>2, <2>1
  <2>3. turn[x].thread = turn[c].thread
    BY <1>3, <2>2, SameThread DEF IInv
  <2>4. ~Settled(c)
    BY <2>2, <2>3 DEF IInv, OneShots
  <2>5. Open(c)
    BY <2>1, <2>4 DEF Open
  <2> QED BY <2>1, <2>2, <2>3, <2>4, <2>5 DEF IInv, Serial
<1>6. CASE t \in cold /\ u \in cold
  <2>1. turn[t].thread = turn[u].thread
    BY <1>1, <1>3, <1>6, SameThread DEF IInv
  <2> QED BY <1>1, <1>6, <2>1 DEF IInv, OneShots
<1> QED BY <1>1, <1>4, <1>5, <1>6


-----------------------------------------------------------------------------
(* The parts of the invariant that only depend on how the turns move.      *)

LEMMA MovesKeep ==
  ASSUME TypeOK, NEW g, Moves(g)
  PROVE  \A t \in Turns :
           /\ Session(t)' = Session(t) /\ turn'[t].thread = turn[t].thread
           /\ turn'[t].resume = turn[t].resume
           /\ Ran(t)' <=> Ran(t)
           /\ Settled(t) => Settled(t)'
           /\ Open(t)' => Open(t)
BY DEF Moves, Same, Session, Ran, Settled, Open, Warm, Placed

LEMMA LineageKept ==
  ASSUME TypeOK, Lineage, NEW g, Moves(g)
  PROVE  Lineage'
<1>1. \A t \in Turns : turn[t].resume \in Turns \cup {None}
  BY DEF TypeOK, TurnState, Sessions
<1> QED BY <1>1, MovesKeep, CodexAssumption DEF Lineage, Turns

LEMMA SerialKept ==
  ASSUME TypeOK, Serial, NEW g, Moves(g)
  PROVE  Serial'
BY MovesKeep DEF Serial

LEMMA OneShotsKept ==
  ASSUME TypeOK, Lineage, Serial, Gates, OneShots, Moves(gate'), ColdIn, cold' \subseteq Turns,
         \A c \in cold : gate'[Session(c)] = None,
         \A s \in Sessions : gate'[s] # None => gate'[s].turn \in Turns /\ Settled(gate[s].turn)'
                                                  /\ Session(gate'[s].turn) = s
  PROVE  OneShots'
<1>1. \A c \in Turns : c \in cold' /\ c \notin cold =>
        Open(c) /\ turn'[c].phase = "cold" /\ ~Unexited(turn[c]) /\ ~Gated(turn[c], gate')
  BY DEF ColdIn, Moves, Placed, Warm
<1>2. \A c \in Turns : c \in cold' /\ c \notin cold => gate'[Session(c)] = None
  <2> SUFFICES ASSUME NEW c \in Turns, c \in cold', c \notin cold
               PROVE  gate'[Session(c)] = None
    OBVIOUS
  <2>1. CASE turn[c].resume # None
    BY <1>1, <2>1 DEF Gated, Session
  <2>2. CASE turn[c].resume = None
    <3> SUFFICES ASSUME gate'[c] # None PROVE FALSE
      BY <2>2 DEF Session
    <3>1. PICK u \in Turns : u = gate'[c].turn /\ Settled(u)' /\ Session(u) = c
      BY DEF Sessions
    <3>2. Ran(u)
      BY <3>1, MovesKeep DEF Settled, Ran
    <3>3. u # c
      BY <1>1, <3>1 DEF Settled
    <3>4. Settled(c)
      BY <3>1, <3>2, <3>3 DEF Lineage, Session
    <3> QED BY <1>1, <3>4 DEF Settled, Open
  <2> QED BY <2>1, <2>2
<1>3. ASSUME NEW c \in cold' PROVE Settled(c)' \/ turn'[c].phase = "cold"
  <2>1. CASE c \in cold
    <3>1. CASE Settled(c)
      BY <3>1, <2>1, MovesKeep DEF TypeOK
    <3>2. CASE turn[c].phase = "cold"
      BY <3>2, <2>1 DEF TypeOK, Moves, Warm, Settled
    <3> QED BY <2>1, <3>1, <3>2 DEF OneShots
  <2>2. CASE c \notin cold
    BY <1>1, <2>2
  <2> QED BY <2>1, <2>2
<1>4. ASSUME NEW c \in cold' PROVE gate'[Session(c)'] = None
  BY <1>2, MovesKeep
<1>5. ASSUME NEW c \in cold', NEW t \in Turns, turn'[t].thread = turn'[c].thread
      PROVE  (t \in cold' => t = c) /\ (Settled(c)' => ~Open(t)')
  <2>1. turn[t].thread = turn[c].thread /\ c \in Turns
    BY <1>5, MovesKeep
  <2>2. \A x, y \in Turns :
          x \in cold /\ y \in cold' /\ y \notin cold /\ turn[x].thread = turn[y].thread => x = y
    <3> SUFFICES ASSUME NEW x \in Turns, NEW y \in Turns, x \in cold, y \in cold', y \notin cold,
                        turn[x].thread = turn[y].thread
                 PROVE  x = y
      OBVIOUS
    <3>1. ~Settled(x)
      BY <1>1 DEF Unexited
    <3>2. Open(x)
      BY <3>1 DEF OneShots, Open
    <3> QED BY <1>1, <3>2 DEF Serial
  <2>3. t \in cold' => t = c
    <3>1. CASE t \in cold /\ c \in cold
      BY <2>1, <3>1 DEF OneShots
    <3>2. CASE t \in cold /\ c \notin cold
      BY <2>1, <2>2, <3>2
    <3>3. CASE t \notin cold /\ c \in cold /\ t \in cold'
      BY <2>1, <2>2, <3>3
    <3>4. CASE t \notin cold /\ c \notin cold /\ t \in cold'
      BY <1>1, <2>1, <3>4 DEF Serial
    <3> QED BY <3>1, <3>2, <3>3, <3>4
  <2>4. ASSUME Settled(c)' PROVE ~Open(t)'
    <3> SUFFICES ASSUME Open(t)' PROVE FALSE
      OBVIOUS
    <3>1. Open(t)
      BY MovesKeep
    <3>2. c \in cold
      BY <1>1, <2>1, <2>4 DEF Settled
    <3>3. ~Settled(c)
      BY <2>1, <3>1, <3>2 DEF OneShots
    <3>4. Open(c)
      BY <3>2, <3>3 DEF OneShots, Open
    <3>5. t = c
      BY <2>1, <3>1, <3>4 DEF Serial
    <3> QED BY <2>4, <3>5 DEF Settled, Open
  <2> QED BY <2>3, <2>4
<1> QED BY <1>3, <1>4, <1>5 DEF OneShots

LEMMA GatesKept ==
  ASSUME TypeOK, Lineage, Gates, Moves(gate'), GateKept
  PROVE  /\ Gates'
         /\ \A s \in Sessions : gate'[s] # None =>
              gate'[s].turn \in Turns /\ Settled(gate[s].turn)' /\ Session(gate'[s].turn) = s
<1>1. ASSUME NEW s \in Sessions, gate'[s] # None
      PROVE  /\ gate'[s].turn \in Turns /\ Settled(gate[s].turn)'
             /\ Session(gate[s].turn)' = s /\ Session(gate'[s].turn) = s
  <2>1. gate'[s] = gate[s] /\ gate[s] # None
    BY <1>1 DEF GateKept
  <2>2. gate[s].turn \in Turns /\ Settled(gate[s].turn) /\ Session(gate[s].turn) = s
    BY <2>1 DEF Gates, TypeOK, CancelledTurn
  <2> QED BY <2>1, <2>2, MovesKeep
<1>2. ASSUME NEW t \in Turns, turn'[t].phase \in {"thread", "turn", "cold"}
      PROVE  gate'[Session(t)'] = None
  <2>1. Session(t)' = Session(t) /\ Session(t) \in Sessions
    BY MovesKeep DEF Session, TypeOK, TurnState, Sessions
  <2>2. CASE turn[t].phase \in {"thread", "turn", "cold"}
    BY <2>1, <2>2 DEF Gates, GateKept
  <2>3. CASE turn[t].phase \notin {"thread", "turn", "cold"}
    <3>1. Warm(t) /\ ~Gated(turn[t], gate')
      BY <1>2, <2>3 DEF Moves, Placed
    <3>2. CASE turn[t].resume # None
      BY <2>1, <3>1, <3>2 DEF Gated, Session
    <3>3. CASE turn[t].resume = None
      <4>1. ~Settled(t)
        BY <3>1 DEF Warm, Open, Settled
      <4> QED BY <2>1, <3>3, <4>1, FreshUngated DEF GateKept, Session
    <3> QED BY <3>2, <3>3
  <2> QED BY <2>2, <2>3
<1> QED BY <1>1, <1>2 DEF Gates

LEMMA OwnersKept ==
  ASSUME TypeOK, Owners, NEW g, Moves(g), \A s \in Sessions : owner'[s] \in {owner[s], None},
         \A t \in Turns : turn[t].phase = "turn" => turn'[t].phase = "turn" \/ Settled(t)'
  PROVE  Owners'
<1>1. ASSUME NEW s \in Sessions, owner'[s] # None
      PROVE  Session(owner[s])' = s /\ (turn'[owner'[s]].phase = "turn" \/ Settled(owner[s])')
  <2>1. owner'[s] = owner[s] /\ owner[s] \in Turns
    BY <1>1 DEF TypeOK
  <2> QED BY <1>1, <2>1, MovesKeep DEF Owners
<1> QED BY <1>1 DEF Owners


LEMMA Becomes ==
  ASSUME TypeOK, NEW new \in [Turns -> TurnState], Become(new)
  PROVE  turn' = new /\ cold' \subseteq Turns /\ ColdIn
<1>1. turn' = new /\ cold \subseteq Turns
  BY DEF Become, TypeOK
<1>2. cold' = cold \cup {t \in Turns : new[t].phase = "cold" /\ turn[t].phase # "cold"}
  BY DEF Become
<1>3. cold' \subseteq Turns
  BY <1>1, <1>2
<1>4. ASSUME NEW c \in cold', c \notin cold PROVE turn'[c].phase = "cold" /\ turn[c].phase # "cold"
  BY <1>1, <1>2, <1>4
<1> QED BY <1>1, <1>3, <1>4 DEF ColdIn

\* A step that keeps the gates, the native turns and the child, and takes no
\* turn off the wire that is not settled.
LEMMA WiredKept ==
  ASSUME IInv, TypeOK', Moves(gate'), gate' = gate, native' = native, child' = child,
         \A t \in Turns : turn[t].phase = "turn" => turn'[t].phase = "turn"
  PROVE  Wired'
<1>1. \A t \in Turns : turn'[t].phase \in {"ready", "thread", "turn"} => child' # None
  BY DEF IInv, Wired, Moves, Placed
<1>2. ASSUME NEW n \in Turns, Live(n)'
      PROVE  \/ turn'[n].phase = "turn" /\ native'[n].on = child'
             \/ Stopping(n)' /\ gate'[Session(n)'].on = native'[n].on
  <2>1. Live(n) /\ Session(n)' = Session(n)
    BY <1>2, MovesKeep DEF Live, IInv
  <2> QED BY <2>1 DEF IInv, Wired, Stopping
<1> QED BY <1>1, <1>2 DEF Wired

\* The steps that only move turns and one-shots.
LEMMA TurnsOnly ==
  ASSUME IInv, turn' \in [Turns -> TurnState], Moves(gate'), ColdIn,
         cold' \subseteq Turns, ready' \in {"wait", "ok", "no"}, shutdown' \in {"no", "draining", "done"},
         \A t \in Turns : turn[t].phase = "turn" => turn'[t].phase = "turn",
         UNCHANGED <<proc, child, owner, gate, native, failures, steer, strays>>
  PROVE  IInv' /\ Moves(gate')
<1>1. TypeOK'
  BY DEF IInv, TypeOK
<1>2. GateKept
  BY DEF GateKept
<1>3. Lineage' /\ Serial' /\ Gates' /\ Owners' /\ Wired'
  BY <1>1, <1>2, LineageKept, SerialKept, GatesKept, OwnersKept, WiredKept DEF IInv
<1>4. \A c \in cold : gate'[Session(c)] = None
  BY DEF IInv, OneShots
<1>5. OneShots'
  BY <1>2, <1>4, GatesKept, OneShotsKept DEF IInv
<1> QED BY <1>1, <1>3, <1>5 DEF IInv

LEMMA ChildAnswers ==
  ASSUME IInv, NEW p \in Pids, InitAnswered(p) \/ InitRefused(p)
  PROVE  IInv' /\ Moves(gate')
<1>1. child # None /\ UNCHANGED <<proc, child, owner, gate, native, failures, shutdown, steer, strays>>
  BY DEF InitAnswered, InitRefused, Reads
<1>2. ready' \in {"wait", "ok", "no"} /\ shutdown \in {"no", "draining", "done"}
  BY DEF InitAnswered, InitRefused, IInv, TypeOK
<1>3. PICK new : /\ Become(new)
                 /\ \/ new = [t \in Turns |-> IF turn[t].phase = "ready" THEN Ask(turn[t], gate)
                                              ELSE turn[t]]
                    \/ new = [t \in Turns |-> IF turn[t].phase = "ready" THEN FallBack(turn[t], gate)
                                              ELSE turn[t]]
  BY DEF InitAnswered, InitRefused
<1>4. \A t \in Turns : /\ turn[t] \in TurnState
                       /\ Placed(turn[t], Ask(turn[t], gate), gate)
                       /\ Placed(turn[t], FallBack(turn[t], gate), gate)
  BY <1>1, AskPlaces, FallBackPlaces DEF IInv, TypeOK
<1>5. new \in [Turns -> TurnState]
  BY <1>3, <1>4 DEF Placed
<1>6. turn' = new /\ cold' \subseteq Turns /\ ColdIn
  BY <1>3, <1>5, Becomes DEF IInv
<1>7. Moves(gate')
  BY <1>1, <1>3, <1>4, <1>6 DEF Moves, Placed, Same, Warm, Open
<1>8. \A t \in Turns : turn[t].phase = "turn" => turn'[t].phase = "turn"
  BY <1>3, <1>6
<1> QED BY <1>1, <1>2, <1>5, <1>6, <1>7, <1>8, TurnsOnly

LEMMA ThreadRefusedSafe ==
  ASSUME IInv, NEW t \in Turns, ThreadRefused(t)
  PROVE  IInv' /\ Moves(gate')
<1> DEFINE new == [turn EXCEPT ![t] = FallBack(turn[t], gate)]
<1>1. /\ turn[t].phase = "thread" /\ Become(new)
      /\ UNCHANGED <<proc, child, ready, owner, gate, native, failures, shutdown, steer, strays>>
  BY DEF ThreadRefused
<1>2. turn \in [Turns -> TurnState] /\ Placed(turn[t], new[t], gate)
  BY FallBackPlaces DEF IInv, TypeOK
<1>3. new \in [Turns -> TurnState]
  BY <1>2 DEF Placed
<1>4. turn' = new /\ cold' \subseteq Turns /\ ColdIn
  BY <1>1, <1>3, Becomes DEF IInv
<1>5. Moves(gate')
  BY <1>1, <1>2, <1>4 DEF Moves, Placed, Same, Warm, Open
<1>6. \A x \in Turns : turn[x].phase = "turn" => turn'[x].phase = "turn"
  BY <1>1, <1>2, <1>4
<1>7. ready' \in {"wait", "ok", "no"} /\ shutdown' \in {"no", "draining", "done"}
  BY <1>1 DEF IInv, TypeOK
<1> QED BY <1>1, <1>3, <1>4, <1>5, <1>6, <1>7, TurnsOnly

LEMMA BeginShutdownSafe ==
  ASSUME IInv, BeginShutdown
  PROVE  IInv' /\ Moves(gate')
<1> DEFINE new == [t \in Turns |-> IF turn[t].phase = "gate" THEN Bad(turn[t]) ELSE turn[t]]
<1>1. /\ Become(new) /\ shutdown' = "draining"
      /\ UNCHANGED <<proc, child, ready, owner, gate, native, failures, steer, strays>>
  BY DEF BeginShutdown
<1>2. \A t \in Turns : /\ turn[t] \in TurnState /\ Bad(turn[t]) \in TurnState
                       /\ Same(turn[t], Bad(turn[t])) /\ Bad(turn[t]).phase = "bad"
  BY BadTyped DEF IInv, TypeOK
<1>3. new \in [Turns -> TurnState]
  BY <1>2
<1>4. turn' = new /\ cold' \subseteq Turns /\ ColdIn
  BY <1>1, <1>3, Becomes DEF IInv
<1>5. Moves(gate')
  BY <1>2, <1>4 DEF Moves, Same, Open
<1>6. \A x \in Turns : turn[x].phase = "turn" => turn'[x].phase = "turn"
  BY <1>4
<1>7. ready' \in {"wait", "ok", "no"}
  BY <1>1 DEF IInv, TypeOK
<1> QED BY <1>1, <1>3, <1>4, <1>5, <1>6, <1>7, TurnsOnly

LEMMA ColdSafe ==
  ASSUME IInv, NEW t \in Turns,
         ColdThread(t) \/ ColdResult(t) \/ ColdRefused(t) \/ ColdExits(t) \/ ColdDone(t)
  PROVE  IInv' /\ Moves(gate')
<1>1. /\ cold' \subseteq cold
      /\ UNCHANGED <<proc, child, ready, owner, gate, native, failures, shutdown, steer, strays>>
  BY DEF ColdThread, ColdResult, ColdRefused, ColdExits, ColdDone, ColdKeeps
<1>2. /\ turn \in [Turns -> TurnState] /\ Ok(turn[t]) \in TurnState /\ Bad(turn[t]) \in TurnState
      /\ Same(turn[t], Ok(turn[t])) /\ Same(turn[t], Bad(turn[t]))
      /\ Ok(turn[t]).phase = "ok" /\ Bad(turn[t]).phase = "bad"
  BY BadTyped DEF IInv, TypeOK
<1> DEFINE told == [turn[t] EXCEPT !.known = TRUE]
<1>a. told \in TurnState /\ Same(turn[t], told) /\ told.phase = turn[t].phase
  BY <1>2 DEF TurnState, Same
<1>3. \/ turn' = turn
      \/ turn[t].phase = "cold" /\ turn' = [turn EXCEPT ![t] = told]
      \/ turn[t].phase = "cold" /\ turn' = [turn EXCEPT ![t] = Ok(turn[t])]
      \/ turn[t].phase = "cold" /\ turn' = [turn EXCEPT ![t] = Bad(turn[t])]
  BY DEF ColdThread, ColdResult, ColdRefused, ColdExits, ColdDone, ColdRuns
<1>4. turn' \in [Turns -> TurnState]
  BY <1>2, <1>a, <1>3
<1>5. Moves(gate')
  BY <1>2, <1>a, <1>3 DEF Moves, Same, Open
<1>6. \A x \in Turns : turn[x].phase = "turn" => turn'[x].phase = "turn"
  BY <1>2, <1>a, <1>3
<1>7. /\ ready' \in {"wait", "ok", "no"} /\ shutdown' \in {"no", "draining", "done"}
      /\ cold' \subseteq Turns
  BY <1>1 DEF IInv, TypeOK
<1>8. ColdIn
  BY <1>1 DEF ColdIn
<1> QED BY <1>1, <1>4, <1>5, <1>6, <1>7, <1>8, TurnsOnly


-----------------------------------------------------------------------------
(* The steps that touch the wire.                                          *)

\* A native turn past its end no longer binds anything.
LEMMA NativeTyped ==
  ASSUME TypeOK, NEW n \in Turns
  PROVE  /\ native[n] \in Native /\ Gone(native[n]) \in Native /\ Over \in Native
         /\ Gone(native[n]).st = "gone" /\ Over.st = "gone"
         /\ [native[n] EXCEPT !.st = "running"] \in Native
         /\ [native[n] EXCEPT !.st = "ended"] \in Native
         /\ [native[n] EXCEPT !.answered = TRUE] \in Native
         /\ [native[n] EXCEPT !.started = TRUE] \in Native
<1>1. native[n] \in Native
  BY DEF TypeOK
<1>2. NoNative \in Native
  BY DEF NoNative, Native
<1> QED BY <1>1, <1>2 DEF Gone, Over, NoNative, Native

LEMMA ServerSafe ==
  ASSUME IInv, NEW n \in Turns, ServerAccepts(n) \/ ServerEnds(n)
  PROVE  IInv' /\ Moves(gate')
<1>1. /\ UNCHANGED <<turn, proc, child, ready, owner, gate, cold, failures, shutdown, steer, strays>>
      /\ \/ native' = [native EXCEPT ![n] = [native[n] EXCEPT !.st = "running"]]
         \/ native' = [native EXCEPT ![n] = [native[n] EXCEPT !.st = "ended"]]
      /\ Live(n)
  BY DEF ServerAccepts, ServerEnds, Live
<1>a. /\ [native[n] EXCEPT !.st = "running"] \in Native
      /\ [native[n] EXCEPT !.st = "running"].on = native[n].on
      /\ [native[n] EXCEPT !.st = "ended"] \in Native
      /\ [native[n] EXCEPT !.st = "ended"].on = native[n].on
  BY NativeTyped DEF IInv, Native
<1>b. native \in [Turns -> Native]
  BY DEF IInv, TypeOK
<1>2. \A x \in Turns : native'[x] \in Native /\ native'[x].on = native[x].on /\ (Live(x)' => Live(x))
  BY <1>1, <1>a, <1>b DEF Live
<1>3. TypeOK'
  BY <1>1, <1>2, NativeTyped DEF IInv, TypeOK
<1>4. Lineage' /\ Serial' /\ Gates' /\ Owners' /\ OneShots'
  BY <1>1 DEF IInv, Lineage, Serial, Gates, Owners, OneShots, Ran, Settled, Open, Session
<1>5. Wired'
  BY <1>1, <1>2 DEF IInv, Wired, Stopping, Session
<1>6. Moves(gate')
  BY <1>1 DEF Moves, Same
<1> QED BY <1>3, <1>4, <1>5, <1>6 DEF IInv

LEMMA SteeringSafe ==
  ASSUME IInv, NEW t \in Turns, Steering(t)
  PROVE  IInv' /\ Moves(gate')
<1>1. UNCHANGED SteerKeeps
  BY DEF Steering, SteerTurn, SteerReaches, SteerAnswered, SteerFails
<1>a. steer \in [Turns -> Steer]
  BY DEF IInv, TypeOK
<1>b. /\ \A st \in {"asked", "accepted", "rejected", "unknown"} : [steer[t] EXCEPT !.st = st] \in Steer
      /\ [steer[t] EXCEPT !.reached = TRUE] \in Steer
  BY <1>a DEF Steer
<1>c. \/ \E st \in {"asked", "accepted", "rejected", "unknown"} :
           steer' = [steer EXCEPT ![t] = [steer[t] EXCEPT !.st = st]]
      \/ steer' = [steer EXCEPT ![t] = [steer[t] EXCEPT !.reached = TRUE]]
  BY DEF Steering, SteerTurn, SteerReaches, SteerAnswered, SteerFails, SteerUnanswered, Steers
<1>2. steer' \in [Turns -> Steer]
  BY <1>a, <1>b, <1>c
<1>3. TypeOK'
  BY <1>1, <1>2 DEF IInv, TypeOK, SteerKeeps
<1>4. Lineage' /\ Serial' /\ Gates' /\ Owners' /\ OneShots' /\ Wired'
  BY <1>1 DEF SteerKeeps, IInv, Lineage, Serial, Gates, Owners, OneShots, Wired, Live, Ran, Settled,
              Open, Session, Stopping
<1>5. Moves(gate')
  BY <1>1 DEF SteerKeeps, Moves, Same
<1> QED BY <1>3, <1>4, <1>5 DEF IInv

LEMMA StreamsSafe ==
  ASSUME IInv, NEW n \in Turns, Streams(n)
  PROVE  IInv' /\ Moves(gate')
<1>1. /\ UNCHANGED <<turn, proc, child, ready, owner, gate, native, cold, failures, shutdown, steer>>
      /\ strays' \subseteq Turns
  BY DEF Streams, Feed, Receivers, IInv, TypeOK
<1>2. TypeOK'
  BY <1>1 DEF IInv, TypeOK
<1>3. Lineage' /\ Serial' /\ Gates' /\ Owners' /\ OneShots' /\ Wired'
  BY <1>1 DEF IInv, Lineage, Serial, Gates, Owners, OneShots, Wired, Live, Ran, Settled,
              Open, Session, Stopping
<1>4. Moves(gate')
  BY <1>1 DEF Moves, Same
<1> QED BY <1>2, <1>3, <1>4 DEF IInv

LEMMA ThreadAnsweredSafe ==
  ASSUME IInv, NEW t \in Turns, ThreadAnswered(t)
  PROVE  IInv' /\ Moves(gate')
<1> DEFINE r == [turn[t] EXCEPT !.phase = "turn", !.known = TRUE]
           f == [NoNative EXCEPT !.st = "asked", !.on = child]
<1>1. /\ turn[t].phase = "thread" /\ child # None
      /\ turn' = [turn EXCEPT ![t] = r]
      /\ owner' = [owner EXCEPT ![Session(t)] = t] /\ native' = [native EXCEPT ![t] = f]
      /\ UNCHANGED <<proc, child, ready, gate, cold, failures, shutdown, steer, strays>>
  BY DEF ThreadAnswered, Reads
<1>2. turn[t] \in TurnState /\ child \in Pids /\ Session(t) \in Sessions
  BY <1>1 DEF IInv, TypeOK, Session, TurnState, Sessions
<1>3. r \in TurnState /\ Same(turn[t], r) /\ r.phase = "turn"
  BY <1>2 DEF TurnState, Same
<1>4. f \in Native /\ f.on = child
  BY <1>2 DEF NoNative, Native
<1>5. TypeOK'
  BY <1>1, <1>2, <1>3, <1>4 DEF IInv, TypeOK
<1>6. Moves(gate') /\ GateKept /\ ColdIn /\ cold' \subseteq Turns
  BY <1>1, <1>2, <1>3 DEF Moves, Same, GateKept, ColdIn, IInv, TypeOK
<1>7. Lineage' /\ Serial' /\ Gates'
  BY <1>6, LineageKept, SerialKept, GatesKept DEF IInv
<1>8. \A c \in cold : gate'[Session(c)] = None
  BY <1>1 DEF IInv, OneShots
<1>9. OneShots'
  BY <1>6, <1>8, GatesKept, OneShotsKept DEF IInv
<1>10. Owners'
  <2>1. Session(t)' = Session(t) /\ turn'[t].phase = "turn"
    BY <1>1, <1>2, <1>3, <1>6, MovesKeep DEF IInv, TypeOK
  <2>2. ASSUME NEW s \in Sessions, s # Session(t), owner[s] # None
        PROVE  Session(owner[s])' = s /\ (turn'[owner[s]].phase = "turn" \/ Settled(owner[s])')
    <3>1. owner'[s] = owner[s] /\ owner[s] \in Turns
      BY <1>1, <2>2 DEF IInv, TypeOK
    <3>2. Session(owner[s]) = s /\ (turn[owner[s]].phase = "turn" \/ Settled(owner[s]))
      BY <2>2 DEF IInv, Owners
    <3>3. turn[owner[s]].phase = "turn" => turn'[owner[s]].phase = "turn"
      BY <1>1, <1>3, <3>1 DEF IInv, TypeOK
    <3> QED BY <1>6, <3>1, <3>2, <3>3, MovesKeep DEF IInv
  <2> QED BY <1>1, <1>2, <2>1, <2>2 DEF Owners, IInv, TypeOK
<1>11. Wired'
  <2>1. turn'[t].phase = "turn" /\ native'[t].on = child'
    BY <1>1, <1>2, <1>3, <1>4 DEF IInv, TypeOK
  <2>2. ASSUME NEW n \in Turns, n # t, Live(n)'
        PROVE  \/ turn'[n].phase = "turn" /\ native'[n].on = child'
               \/ Stopping(n)' /\ gate'[Session(n)'].on = native'[n].on
    <3>1. Live(n) /\ native'[n] = native[n] /\ turn'[n] = turn[n]
      BY <1>1, <2>2 DEF Live, IInv, TypeOK
    <3> QED BY <1>1, <1>6, <3>1, MovesKeep DEF IInv, Wired, Stopping
  <2> QED BY <1>1, <2>1, <2>2 DEF Wired
<1> QED BY <1>5, <1>6, <1>7, <1>9, <1>10, <1>11 DEF IInv


\* A step that leaves phases, threads, owners and what gates wait for alone.
LEMMA Relabels ==
  ASSUME IInv, TypeOK', UNCHANGED <<child, owner, cold>>,
         \A t \in Turns : Same(turn[t], turn'[t]) /\ turn'[t].phase = turn[t].phase,
         \A n \in Turns : Live(n)' => Live(n) /\ native'[n].on = native[n].on,
         \A s \in Sessions : /\ gate'[s] = None <=> gate[s] = None
                             /\ gate[s] # None => /\ gate'[s].turn = gate[s].turn
                                                  /\ gate'[s].on = gate[s].on
  PROVE  IInv' /\ Moves(gate')
<1>1. Moves(gate') /\ ColdIn
  BY DEF Moves, ColdIn
<1>2. \A t \in Turns : /\ Session(t)' = Session(t) /\ Session(t) \in Sessions
                       /\ turn'[t].thread = turn[t].thread /\ (Settled(t)' <=> Settled(t))
                       /\ (Open(t)' <=> Open(t))
  BY <1>1, MovesKeep DEF IInv, Settled, Open, Session, TypeOK, TurnState, Sessions
<1>3. Lineage' /\ Serial'
  BY <1>1, LineageKept, SerialKept DEF IInv
<1>4. Owners'
  BY <1>1, <1>2, OwnersKept DEF IInv
<1>5. ASSUME NEW s \in Sessions, gate'[s] # None
      PROVE  Settled(gate[s].turn)' /\ Session(gate[s].turn)' = s
  <2>1. gate'[s].turn = gate[s].turn /\ gate[s].turn \in Turns
    BY <1>5 DEF IInv, TypeOK, CancelledTurn
  <2> QED BY <1>2, <1>5, <2>1 DEF IInv, Gates
<1>6. Gates'
  BY <1>2, <1>5 DEF IInv, Gates
<1>7. OneShots'
  BY <1>2 DEF IInv, OneShots, TypeOK
<1>8. Wired'
  <2>1. ASSUME NEW n \in Turns, Live(n)'
        PROVE  \/ turn'[n].phase = "turn" /\ native'[n].on = child'
               \/ Stopping(n)' /\ gate'[Session(n)'].on = native'[n].on
    <3>1. Live(n) /\ native'[n].on = native[n].on
      BY <2>1
    <3>2. CASE turn[n].phase = "turn" /\ native[n].on = child
      BY <3>1, <3>2
    <3>3. CASE Stopping(n) /\ gate[Session(n)].on = native[n].on
      BY <1>2, <3>1, <3>3 DEF Stopping
    <3> QED BY <3>1, <3>2, <3>3 DEF IInv, Wired
  <2> QED BY <2>1 DEF IInv, Wired
<1> QED BY <1>1, <1>3, <1>4, <1>6, <1>7, <1>8 DEF IInv

LEMMA Learns ==
  ASSUME TypeOK, NEW n \in Turns, NEW t \in Turns, NEW f \in Native, f.st = native[n].st,
         f.on = native[n].on, gate[Session(n)] # None, Learn(n, t, f)
  PROVE  /\ gate' \in [Sessions -> CancelledTurn \cup {None}]
         /\ \A s \in Sessions : /\ gate'[s] = None <=> gate[s] = None
                                /\ gate[s] # None => /\ gate'[s].turn = gate[s].turn
                                                     /\ gate'[s].on = gate[s].on
         /\ native' \in [Turns -> Native]
         /\ \A x \in Turns : native'[x].st = native[x].st /\ native'[x].on = native[x].on
<1> DEFINE s == Session(n)
           g == [gate[s] EXCEPT !.id = t]
<1>1. s \in Sessions /\ gate[s] \in CancelledTurn
  BY DEF TypeOK, Session, TurnState, Sessions
<1>2. g \in CancelledTurn /\ g.turn = gate[s].turn /\ g.on = gate[s].on /\ g # None
  <2>1. g \in CancelledTurn /\ g.turn = gate[s].turn /\ g.on = gate[s].on
    BY <1>1 DEF CancelledTurn
  <2> QED BY <2>1, GateAssumption
<1>3. gate' = [gate EXCEPT ![s] = g]
  BY DEF Learn
<1>4. gate \in [Sessions -> CancelledTurn \cup {None}] /\ native \in [Turns -> Native]
  BY DEF TypeOK
<1> DEFINE read == [native EXCEPT ![n] = f]
           told == [read[t] EXCEPT !.stop = TRUE]
<1>5. read \in [Turns -> Native] /\ \A x \in Turns : read[x].st = native[x].st /\ read[x].on = native[x].on
  BY <1>4
<1>6. told \in Native /\ told.st = read[t].st /\ told.on = read[t].on
  BY <1>5 DEF Native
<1>7. native' = read \/ native' = [read EXCEPT ![t] = told]
  BY DEF Learn
<1>8. /\ native' \in [Turns -> Native]
      /\ \A x \in Turns : native'[x].st = native[x].st /\ native'[x].on = native[x].on
  BY <1>5, <1>6, <1>7
<1> QED BY <1>1, <1>2, <1>3, <1>4, <1>8

LEMMA TurnAnsweredSafe ==
  ASSUME IInv, NEW t \in Turns, TurnAnswered(t)
  PROVE  IInv' /\ Moves(gate')
<1> DEFINE f == [native[t] EXCEPT !.answered = TRUE]
           r == [turn[t] EXCEPT !.id = t]
<1>1. /\ UNCHANGED <<proc, child, ready, owner, cold, failures, shutdown, steer, strays>>
      /\ \/ Stopping(t) /\ Learn(t, t, f) /\ UNCHANGED turn
         \/ /\ native' = [native EXCEPT ![t] = f] /\ UNCHANGED gate
            /\ turn' = [turn EXCEPT ![t] = r] \/ turn' = turn
  BY DEF TurnAnswered
<1>2. f \in Native /\ f.st = native[t].st /\ f.on = native[t].on
  BY NativeTyped DEF IInv, Native
<1>3. turn \in [Turns -> TurnState] /\ r \in TurnState /\ Same(turn[t], r) /\ r.phase = turn[t].phase
  BY DEF IInv, TypeOK, TurnState, Same
<1>4. /\ gate' \in [Sessions -> CancelledTurn \cup {None}] /\ native' \in [Turns -> Native]
      /\ \A s \in Sessions : /\ gate'[s] = None <=> gate[s] = None
                             /\ gate[s] # None => /\ gate'[s].turn = gate[s].turn
                                                  /\ gate'[s].on = gate[s].on
      /\ \A x \in Turns : native'[x].st = native[x].st /\ native'[x].on = native[x].on
  <2>1. CASE Stopping(t) /\ Learn(t, t, f)
    BY <1>2, <2>1, Learns DEF Stopping, IInv
  <2>2. CASE native' = [native EXCEPT ![t] = f] /\ UNCHANGED gate
    BY <1>2, <2>2 DEF IInv, TypeOK
  <2> QED BY <1>1, <2>1, <2>2
<1>5. /\ turn' \in [Turns -> TurnState]
      /\ \A x \in Turns : Same(turn[x], turn'[x]) /\ turn'[x].phase = turn[x].phase
  BY <1>1, <1>3 DEF Same
<1>6. TypeOK'
  BY <1>1, <1>4, <1>5 DEF IInv, TypeOK
<1> QED BY <1>1, <1>4, <1>5, <1>6, Relabels DEF Live

LEMMA StartedSafe ==
  ASSUME IInv, NEW n \in Turns, Started(n)
  PROVE  IInv' /\ Moves(gate')
<1> DEFINE f == [native[n] EXCEPT !.started = TRUE]
<1>1. /\ UNCHANGED <<proc, child, ready, owner, cold, failures, shutdown, steer>>
      /\ \/ gate[Session(n)] # None /\ Learn(n, n, f) /\ UNCHANGED <<turn, strays>>
         \/ gate[Session(n)] # None /\ native' = [native EXCEPT ![n] = f] /\ UNCHANGED <<gate, turn, strays>>
         \/ /\ native' = [native EXCEPT ![n] = f] /\ UNCHANGED gate /\ Feed(n)
            /\ turn' = [t \in Turns |-> IF t \in Receivers(n) THEN [turn[t] EXCEPT !.id = n] ELSE turn[t]]
  BY DEF Started
<1>2. f \in Native /\ f.st = native[n].st /\ f.on = native[n].on
  BY NativeTyped DEF IInv, Native
<1>3. ASSUME NEW t \in Turns
      PROVE  /\ turn[t] \in TurnState /\ [turn[t] EXCEPT !.id = n] \in TurnState
             /\ Same(turn[t], [turn[t] EXCEPT !.id = n]) /\ [turn[t] EXCEPT !.id = n].phase = turn[t].phase
  <2>1. turn[t] \in TurnState
    BY DEF IInv, TypeOK
  <2> QED BY <2>1 DEF TurnState, Same
<1>4. /\ gate' \in [Sessions -> CancelledTurn \cup {None}] /\ native' \in [Turns -> Native]
      /\ \A s \in Sessions : /\ gate'[s] = None <=> gate[s] = None
                             /\ gate[s] # None => /\ gate'[s].turn = gate[s].turn
                                                  /\ gate'[s].on = gate[s].on
      /\ \A x \in Turns : native'[x].st = native[x].st /\ native'[x].on = native[x].on
  <2>1. CASE gate[Session(n)] # None /\ Learn(n, n, f)
    BY <1>2, <2>1, Learns DEF IInv
  <2>2. CASE native' = [native EXCEPT ![n] = f] /\ UNCHANGED gate
    BY <1>2, <2>2 DEF IInv, TypeOK
  <2> QED BY <1>1, <2>1, <2>2
<1>5. /\ turn' \in [Turns -> TurnState]
      /\ \A x \in Turns : Same(turn[x], turn'[x]) /\ turn'[x].phase = turn[x].phase
  <2>1. CASE UNCHANGED turn
    BY <1>3, <2>1 DEF Same, IInv, TypeOK
  <2>2. CASE turn' = [t \in Turns |-> IF t \in Receivers(n) THEN [turn[t] EXCEPT !.id = n] ELSE turn[t]]
    BY <1>3, <2>2 DEF Same
  <2> QED BY <1>1, <2>1, <2>2
<1>6. strays' \subseteq Turns
  BY <1>1 DEF Feed, Receivers, IInv, TypeOK
<1>7. TypeOK'
  BY <1>1, <1>4, <1>5, <1>6 DEF IInv, TypeOK
<1> QED BY <1>1, <1>4, <1>5, <1>7, Relabels DEF Live


\* A step in which turns settle or get past a gate and native turns end, but
\* only those that may still run keep what waits for them.
LEMMA WireStep ==
  ASSUME IInv, TypeOK', Moves(gate'), ColdIn, GateKept, child' = child,
         \A s \in Sessions : owner'[s] \in {owner[s], None},
         \A t \in Turns : turn[t].phase = "turn" => turn'[t].phase = "turn" \/ Settled(t)',
         \A n \in Turns : Live(n)' =>
           /\ Live(n) /\ native'[n].on = native[n].on
           /\ turn[n].phase = "turn" => turn'[n].phase = "turn"
           /\ Stopping(n) => gate'[Session(n)] = gate[Session(n)]
  PROVE  IInv' /\ Moves(gate')
<1>1. Lineage' /\ Serial' /\ Gates' /\ Owners'
  BY LineageKept, SerialKept, GatesKept, OwnersKept DEF IInv
<1>2. \A c \in cold : gate'[Session(c)] = None
  BY DEF IInv, OneShots, GateKept, TypeOK, Session, TurnState, Sessions
<1>3. OneShots'
  BY <1>2, GatesKept, OneShotsKept DEF IInv, TypeOK
<1>4. \A t \in Turns : turn'[t].phase \in {"ready", "thread", "turn"} => child' # None
  BY DEF IInv, Wired, Moves, Placed
<1>5. ASSUME NEW n \in Turns, Live(n)'
      PROVE  \/ turn'[n].phase = "turn" /\ native'[n].on = child'
             \/ Stopping(n)' /\ gate'[Session(n)'].on = native'[n].on
  <2>1. Live(n) /\ native'[n].on = native[n].on /\ Session(n)' = Session(n)
    BY <1>5, MovesKeep DEF IInv
  <2>2. CASE turn[n].phase = "turn" /\ native[n].on = child
    BY <1>5, <2>1, <2>2
  <2>3. CASE Stopping(n) /\ gate[Session(n)].on = native[n].on
    BY <1>5, <2>1, <2>3 DEF Stopping
  <2> QED BY <2>1, <2>2, <2>3 DEF IInv, Wired
<1> QED BY <1>1, <1>3, <1>4, <1>5 DEF IInv, Wired

LEMMA Releases ==
  ASSUME IInv, NEW s \in Sessions, Release(s)
  PROVE  /\ turn' \in [Turns -> TurnState] /\ cold' \subseteq Turns
         /\ gate' \in [Sessions -> CancelledTurn \cup {None}]
         /\ Moves(gate') /\ ColdIn /\ GateKept
         /\ \A x \in Sessions : x # s => gate'[x] = gate[x]
         /\ \A t \in Turns : turn[t].phase # "gate" => turn'[t] = turn[t]
<1> DEFINE g == [gate EXCEPT ![s] = None]
           new == [t \in Turns |-> IF ~Waits(t, s) THEN turn[t]
                                   ELSE IF turn[t].cold THEN FallBack(turn[t], g)
                                   ELSE Start(turn[t], g)]
<1>1. gate' = g /\ Become(new)
  BY DEF Release
<1>2. ASSUME NEW t \in Turns
      PROVE  /\ turn[t] \in TurnState
             /\ Placed(turn[t], FallBack(turn[t], g), g) /\ Placed(turn[t], Start(turn[t], g), g)
  BY FallBackPlaces, StartPlaces DEF IInv, TypeOK
<1>3. \A t \in Turns : /\ new[t] \in TurnState
                       /\ new[t] = turn[t] \/ (turn[t].phase = "gate" /\ Placed(turn[t], new[t], g))
  BY <1>2 DEF Waits, Placed
<1>4. new \in [Turns -> TurnState]
  BY <1>3
<1>5. turn' = new /\ cold' \subseteq Turns /\ ColdIn
  BY <1>1, <1>4, Becomes DEF IInv
<1> HIDE DEF new
<1>6. Moves(gate')
  BY <1>1, <1>3, <1>5 DEF Moves, Placed, Same, Warm, Open
<1>7. /\ gate' \in [Sessions -> CancelledTurn \cup {None}] /\ GateKept
      /\ \A x \in Sessions : x # s => gate'[x] = gate[x]
  BY <1>1 DEF GateKept, IInv, TypeOK
<1>8. \A t \in Turns : turn[t].phase # "gate" => turn'[t] = turn[t]
  BY <1>3, <1>5
<1> QED BY <1>4, <1>5, <1>6, <1>7, <1>8

LEMMA TurnRefusedSafe ==
  ASSUME IInv, NEW t \in Turns, TurnRefused(t)
  PROVE  IInv' /\ Moves(gate')
<1>1. /\ native[t].st = "asked" /\ native' = [native EXCEPT ![t] = Over]
      /\ UNCHANGED <<proc, child, ready, owner, failures, shutdown, steer, strays>>
  BY DEF TurnRefused
<1>2. /\ Session(t) \in Sessions /\ turn \in [Turns -> TurnState] /\ native' \in [Turns -> Native]
      /\ \A n \in Turns : Live(n)' => n # t /\ Live(n) /\ native'[n] = native[n]
  BY <1>1, NativeTyped DEF IInv, TypeOK, Session, TurnState, Sessions, Live
<1>3. CASE Stopping(t) /\ Release(Session(t))
  <2>1. TypeOK'
    BY <1>1, <1>2, <1>3, Releases DEF IInv, TypeOK
  <2>2. Moves(gate') /\ ColdIn /\ GateKept
    BY <1>2, <1>3, Releases
  <2>3. \A x \in Turns : turn[x].phase = "turn" => turn'[x].phase = "turn"
    BY <1>2, <1>3, Releases
  <2>4. \A n \in Turns : n # t /\ Stopping(n) => gate'[Session(n)] = gate[Session(n)]
    <3>1. \A n \in Turns : Session(n) \in Sessions
      BY DEF IInv, TypeOK, Session, TurnState, Sessions
    <3> QED BY <1>2, <1>3, <3>1, Releases DEF Stopping
  <2> QED BY <1>1, <1>2, <2>1, <2>2, <2>3, <2>4, WireStep
<1>4. CASE ~Stopping(t) /\ UNCHANGED <<gate, cold>>
           /\ turn' = IF Open(t) THEN [turn EXCEPT ![t] = Bad(turn[t])] ELSE turn
  <2>1. /\ Bad(turn[t]) \in TurnState /\ Same(turn[t], Bad(turn[t])) /\ Bad(turn[t]).phase = "bad"
    BY <1>2, BadTyped
  <2>2. TypeOK'
    BY <1>1, <1>2, <1>4, <2>1 DEF IInv, TypeOK
  <2>3. Moves(gate') /\ ColdIn /\ GateKept
    BY <1>2, <1>4, <2>1 DEF Moves, ColdIn, GateKept, Same
  <2>4. \A x \in Turns : /\ turn[x].phase = "turn" => turn'[x].phase = "turn" \/ Settled(x)'
                         /\ x # t => turn'[x] = turn[x]
    BY <1>2, <1>4, <2>1 DEF Settled
  <2> QED BY <1>1, <1>2, <1>4, <2>2, <2>3, <2>4, WireStep
<1> QED BY <1>3, <1>4 DEF TurnRefused

LEMMA CompletedSafe ==
  ASSUME IInv, NEW n \in Turns, Completed(n)
  PROVE  IInv' /\ Moves(gate')
<1> DEFINE s == Session(n)
<1>1. /\ native[n].st = "ended" /\ native' = [native EXCEPT ![n] = Gone(native[n])]
      /\ UNCHANGED <<proc, child, ready, failures, shutdown, steer>>
  BY DEF Completed
<1>2. /\ s \in Sessions /\ turn \in [Turns -> TurnState] /\ native' \in [Turns -> Native] /\ Live(n)
      /\ \A x \in Turns : Live(x)' => x # n /\ Live(x) /\ native'[x] = native[x]
  BY <1>1, NativeTyped DEF IInv, TypeOK, Session, TurnState, Sessions, Live
<1>3. CASE gate[s] # None /\ UNCHANGED <<owner, strays>> /\ Release(s)
  <2>1. TypeOK'
    BY <1>1, <1>2, <1>3, Releases DEF IInv, TypeOK
  <2>2. Moves(gate') /\ ColdIn /\ GateKept
    BY <1>2, <1>3, Releases
  <2>3. \A x \in Turns : turn[x].phase = "turn" => turn'[x].phase = "turn"
    BY <1>2, <1>3, Releases
  <2>4. Stopping(n)
    BY <1>2, <1>3 DEF IInv, Wired, Gates
  <2>5. \A x \in Turns : x # n /\ Stopping(x) => gate'[Session(x)] = gate[Session(x)]
    <3>1. \A x \in Turns : Session(x) \in Sessions
      BY DEF IInv, TypeOK, Session, TurnState, Sessions
    <3> QED BY <1>2, <1>3, <2>4, <3>1, Releases DEF Stopping
  <2> QED BY <1>1, <1>2, <1>3, <2>1, <2>2, <2>3, <2>5, WireStep
<1>4. CASE gate[s] # None /\ UNCHANGED <<owner, strays, turn, gate, cold>>
  <2>1. TypeOK'
    BY <1>1, <1>2, <1>4 DEF IInv, TypeOK
  <2>2. Moves(gate') /\ ColdIn /\ GateKept
    BY <1>4 DEF Moves, ColdIn, GateKept, Same
  <2> QED BY <1>1, <1>2, <1>4, <2>1, <2>2, WireStep
<1>5. CASE /\ gate[s] = None
           /\ turn' = [t \in Turns |-> IF t \in Receivers(n) THEN Ok(turn[t]) ELSE turn[t]]
           /\ owner' = IF Receivers(n) = {} THEN owner ELSE [owner EXCEPT ![s] = None]
           /\ Feed(n) /\ UNCHANGED <<gate, cold>>
  <2>1. \A t \in Turns : /\ Ok(turn[t]) \in TurnState /\ Same(turn[t], Ok(turn[t]))
                         /\ Ok(turn[t]).phase = "ok"
    BY <1>2, BadTyped
  <2>2. Receivers(n) \subseteq {n} /\ (n \in Receivers(n) => Open(n))
    BY <1>2, <1>5, OwnReceiver DEF Receivers
  <2>3. strays' \subseteq Turns
    BY <1>5 DEF Feed, Receivers, IInv, TypeOK
  <2>4. TypeOK'
    BY <1>1, <1>2, <1>5, <2>1, <2>3 DEF IInv, TypeOK
  <2>5. Moves(gate') /\ ColdIn /\ GateKept
    BY <1>2, <1>5, <2>1, <2>2 DEF Moves, ColdIn, GateKept, Same
  <2>6. \A x \in Turns : /\ turn[x].phase = "turn" => turn'[x].phase = "turn" \/ Settled(x)'
                         /\ x # n => turn'[x] = turn[x]
    BY <1>2, <1>5, <2>1, <2>2 DEF Settled
  <2>7. \A x \in Sessions : owner'[x] \in {owner[x], None}
    BY <1>5 DEF IInv, TypeOK
  <2> QED BY <1>1, <1>2, <1>5, <2>4, <2>5, <2>6, <2>7, WireStep
<1> QED BY <1>3, <1>4, <1>5 DEF Completed


-----------------------------------------------------------------------------
(* Stops, and the life of the child.                                       *)

LEMMA InterruptSafe ==
  ASSUME IInv, NEW ts, ts \subseteq Turns, Interrupt(ts), UNCHANGED <<cold, failures, steer, strays>>,
         proc' \in [Pids -> {"free", "up", "term", "dead"}], ready' \in {"wait", "ok", "no"},
         shutdown' \in {"no", "draining", "done"},
         child' = child \/ (child' = None /\ ts = Turns)
  PROVE  IInv' /\ Moves(gate')
<1> DEFINE gated == {t \in ts : NeedsGate(t)}
           Of(s) == {t \in gated : Session(t) = s}
           Stopped(s) == CHOOSE t \in Of(s) : TRUE
           new(s) == [turn |-> Stopped(s), on |-> child, id |-> turn[Stopped(s)].id]
<1>1. \A t \in Turns : turn[t] \in TurnState /\ native[t] \in Native /\ Session(t) \in Sessions
  BY DEF IInv, TypeOK, Session, TurnState, Sessions
<1>2. \A t \in Turns : t \in gated <=> t \in ts /\ turn[t].phase = "turn"
  BY DEF NeedsGate, IInv, Wired
<1>3. /\ gate' = [s \in Sessions |-> IF Of(s) = {} THEN gate[s] ELSE new(s)]
      /\ owner' = [s \in Sessions |-> IF Of(s) = {} THEN owner[s] ELSE None]
      /\ native' = [t \in Turns |-> IF t \in gated /\ turn[t].id # None
                                    THEN [native[t] EXCEPT !.stop = TRUE] ELSE native[t]]
      /\ turn' = [t \in Turns |-> IF t \notin ts \/ ~Open(t) THEN turn[t]
                                  ELSE IF Warm(t) THEN Ok(turn[t])
                                  ELSE [turn[t] EXCEPT !.stopped = TRUE]]
  BY DEF Interrupt
<1>4. ASSUME NEW s \in Sessions, Of(s) # {}
      PROVE  /\ Stopped(s) \in Turns /\ Stopped(s) \in gated /\ Session(Stopped(s)) = s
             /\ child \in Pids /\ gate[s] = None
             /\ \A t \in Turns : Open(t) /\ Session(t) = s => t = Stopped(s)
  <2>1. Stopped(s) \in Of(s)
    BY <1>4
  <2>2. Stopped(s) \in Turns /\ Stopped(s) \in gated /\ Session(Stopped(s)) = s
    BY <2>1
  <2>3. turn[Stopped(s)].phase = "turn"
    BY <1>2, <2>2
  <2>4. Open(Stopped(s)) /\ child # None /\ gate[s] = None
    BY <2>2, <2>3 DEF Open, IInv, Wired, Gates
  <2> HIDE DEF Stopped
  <2> QED BY <2>2, <2>4, OpenAlone DEF IInv, TypeOK
<1>5. \A s \in Sessions : Of(s) # {} =>
        new(s) \in CancelledTurn /\ new(s).turn = Stopped(s) /\ new(s).on = child /\ new(s) # None
  <2> SUFFICES ASSUME NEW s \in Sessions, Of(s) # {}
               PROVE  new(s) \in CancelledTurn /\ new(s).turn = Stopped(s) /\ new(s).on = child
    BY GateAssumption
  <2>1. Stopped(s) \in Turns /\ child \in Pids
    BY <1>4
  <2>2. turn[Stopped(s)].id \in Turns \cup {None}
    BY <1>1, <2>1 DEF TurnState
  <2> HIDE DEF Stopped
  <2> QED BY <2>1, <2>2 DEF CancelledTurn
<1>6. ASSUME NEW t \in Turns
      PROVE  /\ Ok(turn[t]) \in TurnState /\ Same(turn[t], Ok(turn[t])) /\ Ok(turn[t]).phase = "ok"
             /\ [turn[t] EXCEPT !.stopped = TRUE] \in TurnState
             /\ Same(turn[t], [turn[t] EXCEPT !.stopped = TRUE])
             /\ [turn[t] EXCEPT !.stopped = TRUE].phase = turn[t].phase
             /\ [native[t] EXCEPT !.stop = TRUE] \in Native
             /\ [native[t] EXCEPT !.stop = TRUE].st = native[t].st
             /\ [native[t] EXCEPT !.stop = TRUE].on = native[t].on
  <2>1. /\ [turn[t] EXCEPT !.stopped = TRUE] \in TurnState
        /\ Same(turn[t], [turn[t] EXCEPT !.stopped = TRUE])
        /\ [turn[t] EXCEPT !.stopped = TRUE].phase = turn[t].phase
    BY <1>1 DEF TurnState, Same
  <2>2. /\ [native[t] EXCEPT !.stop = TRUE] \in Native
        /\ [native[t] EXCEPT !.stop = TRUE].st = native[t].st
        /\ [native[t] EXCEPT !.stop = TRUE].on = native[t].on
    BY <1>1 DEF Native
  <2> QED BY <1>1, <2>1, <2>2, BadTyped
<1> HIDE DEF new, Stopped
<1>7. /\ \A t \in Turns : turn'[t] \in TurnState /\ native'[t] \in Native
                          /\ native'[t].st = native[t].st /\ native'[t].on = native[t].on
      /\ \A s \in Sessions : /\ gate'[s] \in CancelledTurn \cup {None}
                             /\ owner'[s] \in {owner[s], None}
  BY <1>1, <1>3, <1>5, <1>6 DEF IInv, TypeOK
<1>8. TypeOK'
  BY <1>3, <1>7 DEF IInv, TypeOK
<1>9. Moves(gate')
  BY <1>1, <1>3, <1>6 DEF Moves, Same
<1>10. \A t \in Turns : /\ t \in ts /\ Warm(t) => Settled(t)'
                        /\ t \in ts /\ Open(t) => Settled(t)' \/ turn'[t].phase = "cold"
                        /\ t \notin ts => turn'[t] = turn[t]
  BY <1>3, <1>6 DEF Warm, Settled
<1>11. Lineage' /\ Serial'
  BY <1>9, LineageKept, SerialKept DEF IInv
<1>12. Owners'
  <2>1. \A t \in Turns : turn[t].phase = "turn" => turn'[t].phase = "turn" \/ Settled(t)'
    BY <1>10 DEF Warm, Open
  <2> QED BY <1>7, <1>9, <2>1, OwnersKept DEF IInv
<1>13. \A s \in Sessions : gate'[s] # None =>
         /\ gate'[s].turn \in Turns /\ Settled(gate[s].turn)' /\ Session(gate'[s].turn) = s
         /\ Session(gate[s].turn)' = s
  <2> SUFFICES ASSUME NEW s \in Sessions, gate'[s] # None
               PROVE  /\ gate'[s].turn \in Turns /\ Settled(gate[s].turn)'
                      /\ Session(gate'[s].turn) = s /\ Session(gate[s].turn)' = s
    OBVIOUS
  <2>1. CASE Of(s) = {}
    <3>1. gate'[s] = gate[s] /\ gate[s].turn \in Turns
      BY <1>3, <2>1 DEF IInv, TypeOK, CancelledTurn
    <3> QED BY <1>9, <3>1, MovesKeep DEF IInv, Gates
  <2>2. CASE Of(s) # {}
    <3>1. PICK u \in Turns : gate'[s].turn = u /\ u \in gated /\ Session(u) = s
      BY <1>3, <1>4, <1>5, <2>2
    <3>2. Settled(u)'
      BY <1>2, <1>10, <3>1 DEF Warm, Open
    <3> QED BY <1>9, <3>1, <3>2, MovesKeep DEF IInv
  <2> QED BY <2>1, <2>2
<1>14. Gates'
  <2>1. ASSUME NEW t \in Turns, turn'[t].phase \in {"thread", "turn", "cold"}
        PROVE  gate'[Session(t)'] = None
    <3>1. turn[t].phase \in {"thread", "turn", "cold"} /\ (turn[t].phase # "cold" => t \notin ts)
      BY <1>1, <1>3, <1>6, <1>10, <2>1 DEF Warm, Open, Settled
    <3>2. Open(t) /\ gate[Session(t)] = None
      BY <3>1 DEF Open, IInv, Gates
    <3>3. Of(Session(t)) = {}
      BY <1>1, <1>2, <1>4, <3>1, <3>2
    <3> QED BY <1>1, <1>3, <1>9, <3>2, <3>3, MovesKeep DEF IInv
  <2> QED BY <1>13, <2>1 DEF Gates
<1>15. \A c \in cold : gate'[Session(c)] = None
  <2> SUFFICES ASSUME NEW c \in cold PROVE gate'[Session(c)] = None
    OBVIOUS
  <2>1. c \in Turns /\ gate[Session(c)] = None /\ (Settled(c) \/ turn[c].phase = "cold")
    BY DEF IInv, OneShots, TypeOK
  <2>2. Of(Session(c)) = {}
    <3> SUFFICES ASSUME NEW t \in Turns, t \in gated, Session(t) = Session(c) PROVE FALSE
      BY DEF IInv
    <3>1. turn[t].phase = "turn" /\ Open(t) /\ Ran(t) /\ Ran(c)
      BY <1>2, <2>1 DEF Open, Ran, Settled
    <3>2. turn[t].thread = turn[c].thread
      BY <2>1, <3>1, SameThread DEF IInv
    <3>3. ~Settled(c)
      BY <3>1, <3>2 DEF IInv, OneShots
    <3>4. Open(c) /\ turn[c].phase = "cold"
      BY <2>1, <3>3 DEF Open
    <3> QED BY <2>1, <3>1, <3>2, <3>4 DEF IInv, Serial
  <2> QED BY <1>1, <1>3, <2>1, <2>2
<1>16. OneShots'
  BY <1>9, <1>13, <1>15, OneShotsKept DEF IInv, TypeOK, ColdIn
<1>17. Wired'
  <2>1. ASSUME NEW t \in Turns, turn'[t].phase \in {"ready", "thread", "turn"} PROVE child' # None
    <3>1. t \notin ts /\ turn[t] = turn'[t]
      BY <1>3, <1>6, <1>10, <2>1 DEF Warm, Open, Settled
    <3> QED BY <2>1, <3>1 DEF IInv, Wired
  <2>2. ASSUME NEW n \in Turns, Live(n)'
        PROVE  \/ turn'[n].phase = "turn" /\ native'[n].on = child'
               \/ Stopping(n)' /\ gate'[Session(n)'].on = native'[n].on
    <3>1. Live(n) /\ native'[n].on = native[n].on /\ Session(n)' = Session(n)
      BY <1>7, <1>9, <2>2, MovesKeep DEF Live, IInv
    <3>2. CASE turn[n].phase = "turn" /\ native[n].on = child /\ n \notin ts
      BY <1>10, <3>1, <3>2
    <3>3. CASE turn[n].phase = "turn" /\ native[n].on = child /\ n \in ts
      <4>1. n \in Of(Session(n)) /\ Open(n)
        BY <1>2, <3>3 DEF Open
      <4>2. gate'[Session(n)] = new(Session(n)) /\ Stopped(Session(n)) = n
        BY <1>1, <1>3, <1>4, <4>1
      <4> QED BY <1>1, <1>5, <3>1, <3>3, <4>1, <4>2 DEF Stopping
    <3>4. CASE Stopping(n) /\ gate[Session(n)].on = native[n].on
      <4>1. Of(Session(n)) = {}
        BY <1>1, <1>4, <3>4 DEF Stopping
      <4> QED BY <1>1, <1>3, <3>1, <3>4, <4>1 DEF Stopping
    <3> QED BY <3>1, <3>2, <3>3, <3>4 DEF IInv, Wired
  <2> QED BY <2>1, <2>2 DEF Wired
<1> QED BY <1>8, <1>9, <1>11, <1>12, <1>14, <1>16, <1>17 DEF IInv


LEMMA StopsSafe ==
  ASSUME IInv, EndShutdown \/ \E t \in Turns : Kill(t)
  PROVE  IInv' /\ Moves(gate')
<1>1. CASE EndShutdown
  <2>1. /\ Turns \subseteq Turns /\ Interrupt(Turns) /\ UNCHANGED <<cold, failures, steer, strays>>
        /\ ready' = "wait" /\ shutdown' = "done" /\ child' = None
    BY <1>1 DEF EndShutdown
  <2>2. proc' \in [Pids -> {"free", "up", "term", "dead"}]
    BY <1>1 DEF EndShutdown, Termed, IInv, TypeOK
  <2> QED BY <2>1, <2>2, InterruptSafe
<1>2. ASSUME NEW t \in Turns, Kill(t) PROVE IInv' /\ Moves(gate')
  <2>1. /\ {t} \subseteq Turns /\ Interrupt({t})
        /\ UNCHANGED <<proc, child, ready, cold, failures, shutdown, steer, strays>>
    BY <1>2 DEF Kill
  <2> QED BY <2>1, InterruptSafe DEF IInv, TypeOK
<1> QED BY <1>1, <1>2

\* The child comes or goes while no turn needs it.
LEMMA ChildChanges ==
  ASSUME IInv, TypeOK', UNCHANGED <<turn, gate, native, cold>>,
         \A s \in Sessions : owner'[s] \in {owner[s], None},
         child' # None \/ (\A t \in Turns : ~Warm(t)),
         \A n \in Turns : Live(n) => Stopping(n)
  PROVE  IInv' /\ Moves(gate')
<1>1. Moves(gate') /\ GateKept
  BY DEF Moves, Same, GateKept
<1>2. Lineage' /\ Serial' /\ Gates' /\ OneShots'
  BY DEF IInv, Lineage, Serial, Gates, OneShots, Ran, Settled, Open, Session
<1>3. Owners'
  BY <1>1, OwnersKept DEF IInv
<1>4. ASSUME NEW t \in Turns, turn'[t].phase \in {"ready", "thread", "turn"} PROVE child' # None
  BY <1>4 DEF Warm, Open
<1>5. ASSUME NEW n \in Turns, Live(n)'
      PROVE  Stopping(n)' /\ gate'[Session(n)'].on = native'[n].on
  <2>1. Live(n) /\ Stopping(n) /\ Session(n)' = Session(n)
    BY <1>5 DEF Live, Session
  <2>2. turn[n].phase # "turn"
    BY <2>1 DEF Stopping, IInv, Gates
  <2> QED BY <2>1, <2>2 DEF IInv, Wired, Stopping
<1> QED BY <1>1, <1>2, <1>3, <1>4, <1>5 DEF IInv, Wired

LEMMA ChildChangesSafe ==
  ASSUME IInv, Prewarm \/ ReapIdle
  PROVE  IInv' /\ Moves(gate')
<1>1. CASE Prewarm
  <2>1. PICK p \in Pids : SpawnChild(p)
    BY <1>1 DEF Prewarm
  <2>2. /\ child' = p /\ ready' = "wait" /\ proc' = [proc EXCEPT ![p] = "up"]
        /\ owner' = [s \in Sessions |-> None]
        /\ UNCHANGED <<turn, gate, native, cold, failures, shutdown, steer, strays>>
        /\ \A t \in Turns : turn[t] = NoTurn
    BY <1>1, <2>1 DEF SpawnChild, Prewarm
  <2>3. TypeOK'
    BY <2>2 DEF IInv, TypeOK
  <2>4. \A t \in Turns : ~Warm(t) /\ turn[t].phase # "turn"
    BY <2>2 DEF Warm, Open, NoTurn
  <2>5. \A n \in Turns : Live(n) => Stopping(n)
    BY <2>4 DEF IInv, Wired
  <2> QED BY <2>2, <2>3, <2>4, <2>5, ChildChanges
<1>2. CASE ReapIdle
  <2>1. /\ child' = None /\ ready' = "wait" /\ proc' = Termed(child) /\ Unused
        /\ UNCHANGED <<turn, owner, gate, native, cold, failures, shutdown, steer, strays>>
    BY <1>2 DEF ReapIdle
  <2>2. TypeOK'
    BY <2>1 DEF IInv, TypeOK, Termed
  <2>3. \A t \in Turns : ~Warm(t) /\ turn[t].phase # "turn"
    BY <2>1 DEF Warm, Open, Unused
  <2>4. \A n \in Turns : Live(n) => Stopping(n)
    BY <2>3 DEF IInv, Wired
  <2> QED BY <2>1, <2>2, <2>3, <2>4, ChildChanges
<1> QED BY <1>1, <1>2

LEMMA ExitSafe ==
  ASSUME IInv, NEW p \in Pids, Exit(p)
  PROVE  IInv' /\ Moves(gate')
<1> DEFINE g == [s \in Sessions |-> IF HeldBy(s, p) THEN None ELSE gate[s]]
           down == [t \in Turns |-> IF Warm(t) THEN FallBack(turn[t], g) ELSE turn[t]]
           on == [t \in Turns |->
                    IF ~(turn[t].phase = "gate" /\ HeldBy(Session(t), p)) THEN turn[t]
                    ELSE IF turn[t].cold THEN FallBack(turn[t], g) ELSE Start(turn[t], g)]
<1>1. /\ proc' = [proc EXCEPT ![p] = "dead"] /\ gate' = g
      /\ native' = [t \in Turns |-> IF native[t].on = p THEN Over ELSE native[t]]
      /\ UNCHANGED <<shutdown, strays>>
  BY DEF Exit
<1>2. ASSUME NEW t \in Turns
      PROVE  /\ turn[t] \in TurnState /\ native[t] \in Native /\ Session(t) \in Sessions
             /\ Placed(turn[t], FallBack(turn[t], g), g) /\ Placed(turn[t], Start(turn[t], g), g)
             /\ FallBack(turn[t], g).phase \in {"bad", "gate", "cold"}
  BY FallBackPlaces, StartPlaces DEF IInv, TypeOK, Session, TurnState, Sessions
<1>3. GateKept /\ gate' \in [Sessions -> CancelledTurn \cup {None}]
  BY <1>1 DEF GateKept, IInv, TypeOK
<1>4. native' \in [Turns -> Native]
  BY <1>1, <1>2, NativeTyped DEF IInv
<1>5. \A n \in Turns : Live(n)' => Live(n) /\ native'[n] = native[n] /\ native[n].on # p
  BY <1>1, NativeTyped DEF IInv, Live
<1>6. CASE /\ child = p /\ child' = None /\ ready' = "wait" /\ Become(down)
           /\ owner' = [s \in Sessions |-> None]
           /\ IF ready = "ok" THEN UNCHANGED failures ELSE failures' \in AfterFailure
           /\ steer' = [t \in Turns |-> IF steer[t].st = "asked" THEN [steer[t] EXCEPT !.st = "unknown"]
                                        ELSE steer[t]]
  <2>1. \A t \in Turns : /\ down[t] \in TurnState
                         /\ \/ down[t] = turn[t] /\ ~Warm(t)
                            \/ /\ Warm(t) /\ Placed(turn[t], down[t], g)
                               /\ down[t].phase \in {"bad", "gate", "cold"}
    BY <1>2 DEF Placed
  <2>2. down \in [Turns -> TurnState]
    BY <2>1
  <2>3. turn' = down /\ cold' \subseteq Turns /\ ColdIn
    BY <1>6, <2>2, Becomes DEF IInv
  <2> HIDE DEF down
  <2>4. Moves(gate')
    BY <1>1, <2>1, <2>3 DEF Moves, Placed, Same
  <2>5. failures' \in 0..FailureLimit
    <3>1. failures \in 0..FailureLimit /\ FailureLimit \in Nat
      BY CodexAssumption DEF IInv, TypeOK
    <3> QED BY <1>6, <3>1 DEF AfterFailure, Disabled
  <2>6. steer' \in [Turns -> Steer]
    <3>1. \A t \in Turns : steer[t] \in Steer /\ [steer[t] EXCEPT !.st = "unknown"] \in Steer
      BY DEF IInv, TypeOK, Steer
    <3> QED BY <1>6, <3>1
  <2>7. TypeOK'
    BY <1>1, <1>3, <1>4, <1>6, <2>2, <2>3, <2>5, <2>6 DEF IInv, TypeOK
  <2>8. Lineage' /\ Serial' /\ Gates'
    BY <1>3, <2>4, LineageKept, SerialKept, GatesKept DEF IInv
  <2>9. \A c \in cold : gate'[Session(c)] = None
    BY <1>2, <1>3 DEF IInv, OneShots, GateKept, TypeOK
  <2>10. OneShots'
    BY <1>3, <2>3, <2>4, <2>9, GatesKept, OneShotsKept DEF IInv
  <2>11. Owners'
    BY <1>6 DEF Owners
  <2>12. Wired'
    <3>1. \A t \in Turns : turn'[t].phase \notin {"ready", "thread", "turn"}
      BY <2>1, <2>3 DEF Warm, Open
    <3>2. ASSUME NEW n \in Turns, Live(n)'
          PROVE  Stopping(n)' /\ gate'[Session(n)'].on = native'[n].on
      <4>1. /\ Live(n) /\ native'[n] = native[n] /\ native[n].on # p /\ Session(n)' = Session(n)
            /\ Session(n) \in Sessions
        BY <1>2, <1>5, <2>4, <3>2, MovesKeep DEF IInv
      <4>2. Stopping(n) /\ gate[Session(n)].on = native[n].on
        BY <1>6, <4>1 DEF IInv, Wired
      <4>3. gate'[Session(n)] = gate[Session(n)]
        BY <1>1, <4>1, <4>2 DEF HeldBy
      <4> QED BY <4>1, <4>2, <4>3 DEF Stopping
    <3> QED BY <3>1, <3>2 DEF Wired
  <2> QED BY <2>4, <2>7, <2>8, <2>10, <2>11, <2>12 DEF IInv
<1>7. CASE child # p /\ Become(on) /\ UNCHANGED <<child, ready, owner, failures, steer>>
  <2>1. \A t \in Turns : /\ on[t] \in TurnState
                         /\ on[t] = turn[t] \/ (turn[t].phase = "gate" /\ Placed(turn[t], on[t], g))
    BY <1>2 DEF Placed
  <2>2. on \in [Turns -> TurnState]
    BY <2>1
  <2>3. turn' = on /\ cold' \subseteq Turns /\ ColdIn
    BY <1>7, <2>2, Becomes DEF IInv
  <2> HIDE DEF on
  <2>4. Moves(gate')
    BY <1>1, <2>1, <2>3 DEF Moves, Placed, Same, Warm, Open
  <2>5. TypeOK'
    BY <1>1, <1>3, <1>4, <1>7, <2>2, <2>3 DEF IInv, TypeOK
  <2>6. \A t \in Turns : turn[t].phase = "turn" => turn'[t].phase = "turn"
    BY <2>1, <2>3
  <2>7. ASSUME NEW n \in Turns, Live(n)', Stopping(n) PROVE gate'[Session(n)] = gate[Session(n)]
    <3>1. Live(n) /\ native[n].on # p /\ turn[n].phase # "turn"
      BY <1>5, <2>7 DEF Stopping, IInv, Gates
    <3>2. gate[Session(n)].on # p
      BY <3>1 DEF IInv, Wired
    <3> QED BY <1>1, <1>2, <3>2 DEF HeldBy
  <2>8. \A s \in Sessions : owner'[s] \in {owner[s], None}
    BY <1>7
  <2> QED BY <1>3, <1>5, <1>7, <2>3, <2>4, <2>5, <2>6, <2>7, <2>8, WireStep
<1> QED BY <1>6, <1>7 DEF Exit


\* What becomes of the turn that is run, and of no other.
Begins(t) ==
  /\ ~Ran(t) /\ \A u \in Turns : u # t => turn'[u] = turn[u]
  /\ turn'[t].phase \in {"bad", "gate", "cold", "ready", "thread"} /\ ~turn'[t].known

LEMMA RunSafe ==
  ASSUME IInv, NEW t \in Turns, Run(t)
  PROVE  IInv' /\ Begins(t)
<1>1. PICK th \in Threads, rs \in Sessions \cup {None} :
        LET r == [NoTurn EXCEPT !.thread = th, !.resume = rs] IN
        /\ MayRun(t, r)
        /\ \/ /\ Refused(r) /\ Become([turn EXCEPT ![t] = Bad(r)])
              /\ UNCHANGED <<child, proc, ready, owner>>
           \/ /\ ~Refused(r) /\ Become([turn EXCEPT ![t] = FallBack(r, gate)])
              /\ UNCHANGED <<child, proc, ready, owner>>
           \/ /\ ~Refused(r) /\ Become([turn EXCEPT ![t] = Start(r, gate)])
              /\ UNCHANGED <<child, proc, ready, owner>>
           \/ /\ ~Refused(r) /\ child = None /\ \E p \in Pids : SpawnChild(p)
              /\ Become([turn EXCEPT ![t] = [r EXCEPT !.phase = "ready"]])
        /\ UNCHANGED <<gate, native, failures, shutdown, steer, strays>>
  BY DEF Run
<1> DEFINE r == [NoTurn EXCEPT !.thread = th, !.resume = rs]
           up == [r EXCEPT !.phase = "ready"]
<1>2. /\ r \in TurnState /\ r.thread = th /\ r.resume = rs /\ r.phase = "none"
      /\ up \in TurnState /\ Same(r, up) /\ up.phase = "ready"
      /\ ~r.known /\ ~up.known
  BY DEF NoTurn, TurnState, Same
<1>3. /\ ~Ran(t) /\ turn[t].thread = None /\ turn[t].resume = None /\ th # None
      /\ ~Settled(t) /\ ~Open(t)
      /\ turn \in [Turns -> TurnState]
      /\ \A u \in Turns : turn[u].thread = th => Settled(u) /\ Ran(u) /\ u # t
  BY <1>1, <1>2, CodexAssumption DEF MayRun, Ran, Settled, Open, IInv, Lineage, TypeOK
<1>4. rs # None => rs \in Turns /\ Settled(rs) /\ turn[rs].resume = None /\ turn[rs].thread = th
  <2> SUFFICES ASSUME rs # None
               PROVE  rs \in Turns /\ Settled(rs) /\ turn[rs].resume = None /\ turn[rs].thread = th
    OBVIOUS
  <2>1. PICK u \in Turns : turn[u].thread = th /\ Session(u) = rs
    BY <1>1, <1>2 DEF MayRun
  <2>2. Settled(u) /\ Ran(u)
    BY <1>3, <2>1
  <2> QED BY <2>1, <2>2 DEF Session, IInv, Lineage, Sessions
<1>5. Placed(r, FallBack(r, gate), gate) /\ Placed(r, Start(r, gate), gate)
  BY <1>2, FallBackPlaces, StartPlaces DEF IInv, TypeOK
<1>6. PICK q :
        /\ q \in TurnState /\ q.thread = th /\ q.resume = rs /\ ~q.known
        /\ Become([turn EXCEPT ![t] = q])
        /\ q.phase \in {"bad", "gate", "cold", "ready", "thread"}
        /\ q.phase \in {"ready", "thread"} => child' # None
        /\ q.phase \in {"thread", "cold"} => ~Gated(r, gate)
        /\ q.phase # "bad" => ~Unexited(r)
        /\ \/ UNCHANGED <<child, proc, ready, owner>>
           \/ /\ child = None /\ child' \in Pids /\ ready' = "wait"
              /\ owner' = [s \in Sessions |-> None]
              /\ proc' \in [Pids -> {"free", "up", "term", "dead"}]
  <2>1. CASE Refused(r) /\ Become([turn EXCEPT ![t] = Bad(r)]) /\ UNCHANGED <<child, proc, ready, owner>>
    <3>1. /\ Bad(r) \in TurnState /\ Same(r, Bad(r)) /\ Bad(r).phase = "bad"
          /\ Bad(r).known = r.known
      BY <1>2, BadTyped
    <3> QED BY <1>2, <2>1, <3>1 DEF Same
  <2>2. CASE /\ ~Refused(r) /\ Become([turn EXCEPT ![t] = FallBack(r, gate)])
             /\ UNCHANGED <<child, proc, ready, owner>>
    BY <1>2, <1>5, <2>2 DEF Placed, Same, Refused
  <2>3. CASE /\ ~Refused(r) /\ Become([turn EXCEPT ![t] = Start(r, gate)])
             /\ UNCHANGED <<child, proc, ready, owner>>
    BY <1>2, <1>5, <2>3 DEF Placed, Same, Refused
  <2>4. CASE /\ ~Refused(r) /\ child = None /\ \E p \in Pids : SpawnChild(p)
             /\ Become([turn EXCEPT ![t] = up])
    <3>1. /\ child' \in Pids /\ ready' = "wait" /\ owner' = [s \in Sessions |-> None]
          /\ proc' \in [Pids -> {"free", "up", "term", "dead"}]
      BY <2>4 DEF SpawnChild, IInv, TypeOK
    <3>2. child' # None
      BY <3>1, CodexAssumption DEF Pids
    <3> QED BY <1>2, <2>4, <3>1, <3>2 DEF Same, Refused
  <2> QED BY <1>1, <2>1, <2>2, <2>3, <2>4
<1> HIDE DEF up
<1> DEFINE new == [turn EXCEPT ![t] = q]
<1>7. new \in [Turns -> TurnState]
  BY <1>3, <1>6
<1>8. turn' = new /\ cold' \subseteq Turns /\ ColdIn
  BY <1>6, <1>7, Becomes DEF IInv
<1>9. UNCHANGED <<gate, native, failures, shutdown, steer, strays>>
  BY <1>1
<1>10. TypeOK'
  BY <1>6, <1>7, <1>8, <1>9 DEF IInv, TypeOK
<1>11. /\ turn'[t] = q /\ \A u \in Turns : u # t => turn'[u] = turn[u]
       /\ \A u \in Turns : u # t => /\ Session(u)' = Session(u) /\ (Settled(u)' <=> Settled(u))
                                    /\ (Open(u)' <=> Open(u)) /\ (Ran(u)' <=> Ran(u))
       /\ Ran(t)' /\ Session(t)' = (IF rs = None THEN t ELSE rs)
  BY <1>3, <1>6, <1>8 DEF Session, Settled, Open, Ran
<1>12. Lineage'
  <2>1. ASSUME NEW u \in Turns, u # t, Ran(u), turn[u].resume # None
        PROVE  turn[u].resume # t
    BY <1>3, <2>1 DEF IInv, Lineage
  <2>2. \A u \in Turns : turn[u].resume \in Turns \cup {None}
    BY <1>3 DEF TurnState, Sessions
  <2>3. rs # t
    BY <1>3, <1>4, CodexAssumption DEF Turns
  <2> QED BY <1>3, <1>4, <1>6, <1>11, <2>1, <2>2, <2>3 DEF IInv, Lineage, Sessions
<1>13. Serial'
  BY <1>3, <1>6, <1>11 DEF IInv, Serial, Settled, Open
<1>14. \A s \in Sessions : gate[s] # None =>
         /\ gate[s].turn \in Turns /\ gate[s].turn # t /\ Settled(gate[s].turn)
         /\ Session(gate[s].turn) = s
  BY <1>3 DEF IInv, Gates, TypeOK, CancelledTurn
<1>15. q.phase \in {"thread", "cold"} => gate[Session(t)'] = None
  <2>1. CASE rs = None
    BY <1>3, <1>11, <2>1, FreshUngated DEF IInv
  <2>2. CASE rs # None
    BY <1>2, <1>6, <1>11, <2>2 DEF Gated
  <2> QED BY <2>1, <2>2
<1>16. Gates'
  BY <1>6, <1>9, <1>11, <1>14, <1>15 DEF IInv, Gates
<1>17. \A c \in cold : c # t /\ c \in Turns
  BY <1>3 DEF IInv, OneShots, TypeOK, Ran, Settled
<1>18. OneShots'
  <2>1. ASSUME NEW c \in cold'
        PROVE  (Settled(c)' \/ turn'[c].phase = "cold") /\ gate'[Session(c)'] = None
    BY <1>8, <1>9, <1>11, <1>15, <1>17 DEF ColdIn, IInv, OneShots
  <2>2. ASSUME NEW c \in cold', NEW u \in Turns, turn'[u].thread = turn'[c].thread
        PROVE  (u \in cold' => u = c) /\ (Settled(c)' => ~Open(u)')
    <3>1. \A x \in cold' : x \in cold \/ (x = t /\ q.phase = "cold")
      BY <1>8, <1>11 DEF ColdIn
    <3>2. \A x \in cold : turn[x].thread = th => q.phase = "bad"
      BY <1>2, <1>3, <1>6, <1>17 DEF Unexited
    <3>3. CASE c \in cold /\ u # t
      BY <1>8, <1>11, <1>17, <2>2, <3>1, <3>3 DEF IInv, OneShots
    <3>4. CASE c \in cold /\ u = t
      BY <1>6, <1>11, <1>17, <2>2, <3>1, <3>2, <3>4 DEF Open
    <3>5. CASE c = t /\ q.phase = "cold"
      <4>1. ~Settled(c)'
        BY <1>11, <3>5 DEF Settled
      <4>2. u \in cold => FALSE
        BY <1>6, <1>11, <1>17, <2>2, <3>2, <3>5
      <4> QED BY <3>1, <3>5, <4>1, <4>2
    <3> QED BY <3>1, <3>3, <3>4, <3>5
  <2> QED BY <2>1, <2>2 DEF OneShots
<1>19. Owners'
  <2>1. ASSUME NEW s \in Sessions, owner'[s] # None
        PROVE  Session(owner[s])' = s /\ (turn'[owner'[s]].phase = "turn" \/ Settled(owner[s])')
    <3>1. owner' = owner
      BY <1>6, <2>1
    <3>2. /\ owner[s] \in Turns /\ Session(owner[s]) = s
          /\ (turn[owner[s]].phase = "turn" \/ Settled(owner[s]))
      BY <2>1, <3>1 DEF IInv, Owners, TypeOK
    <3>3. owner[s] # t
      BY <1>3, <3>2 DEF Ran
    <3> QED BY <1>11, <3>1, <3>2, <3>3
  <2> QED BY <2>1 DEF Owners
<1>20. Wired'
  <2>1. ASSUME NEW u \in Turns, turn'[u].phase \in {"ready", "thread", "turn"} PROVE child' # None
    <3>1. CASE u = t
      BY <1>6, <1>11, <2>1, <3>1
    <3>2. CASE u # t
      <4>1. child # None
        BY <1>11, <2>1, <3>2 DEF IInv, Wired
      <4> QED BY <1>6, <4>1
    <3> QED BY <3>1, <3>2
  <2>2. ASSUME NEW n \in Turns, Live(n)'
        PROVE  \/ turn'[n].phase = "turn" /\ native'[n].on = child'
               \/ Stopping(n)' /\ gate'[Session(n)'].on = native'[n].on
    <3>1. Live(n)
      BY <1>9, <2>2 DEF Live
    <3>2. CASE turn[n].phase = "turn" /\ native[n].on = child
      <4>1. n # t /\ child # None
        BY <1>3, <3>2 DEF Ran, IInv, Wired
      <4> QED BY <1>6, <1>9, <1>11, <3>2, <4>1
    <3>3. CASE Stopping(n) /\ gate[Session(n)].on = native[n].on
      <4>1. n # t
        BY <1>3, <1>14, <3>3 DEF Stopping, Session, Sessions
      <4> QED BY <1>9, <1>11, <3>3, <4>1 DEF Stopping
    <3> QED BY <3>1, <3>2, <3>3 DEF IInv, Wired
  <2> QED BY <2>1, <2>2 DEF Wired
<1>21. Begins(t)
  BY <1>3, <1>6, <1>11 DEF Begins
<1> QED BY <1>10, <1>12, <1>13, <1>16, <1>18, <1>19, <1>20, <1>21 DEF IInv


-----------------------------------------------------------------------------
LEMMA InitSafe == Init => IInv
<1> SUFFICES ASSUME Init PROVE IInv
  OBVIOUS
<1>1. NoTurn \in TurnState /\ NoNative \in Native /\ NoSteer \in Steer
  BY DEF NoTurn, TurnState, NoNative, Native, NoSteer, Steer
<1>2. TypeOK
  BY <1>1, CodexAssumption DEF Init, TypeOK
<1>3. \A t \in Turns : /\ turn[t] = NoTurn /\ ~Ran(t) /\ ~Open(t) /\ ~Live(t)
                       /\ turn[t].thread = None /\ turn[t].resume = None
  BY DEF Init, NoTurn, NoNative, Ran, Open, Live
<1>4. Lineage /\ Serial
  BY <1>3 DEF Lineage, Serial
<1>5. Gates /\ Owners /\ OneShots
  BY DEF Init, Gates, Owners, OneShots, Sessions, NoTurn
<1>6. Wired
  BY <1>3 DEF Wired, NoTurn
<1> QED BY <1>2, <1>4, <1>5, <1>6 DEF IInv

LEMMA StepSafe ==
  IInv /\ [Next]_vars => IInv' /\ (Moves(gate') \/ \E t \in Turns : Begins(t))
<1> SUFFICES ASSUME IInv, [Next]_vars PROVE IInv' /\ (Moves(gate') \/ \E t \in Turns : Begins(t))
  OBVIOUS
<1>1. ASSUME NEW t \in Turns, Progress(t) PROVE IInv' /\ (Moves(gate') \/ Begins(t))
  BY <1>1, RunSafe, ThreadAnsweredSafe, TurnAnsweredSafe, StartedSafe, StreamsSafe, CompletedSafe,
     ServerSafe, ColdSafe DEF Progress
<1>2. ASSUME NEW t \in Turns, Troubles(t) PROVE IInv' /\ Moves(gate')
  BY <1>2, StopsSafe, ThreadRefusedSafe, TurnRefusedSafe, ColdSafe DEF Troubles
<1>3. ASSUME NEW t \in Turns, Steering(t) PROVE IInv' /\ Moves(gate')
  BY <1>3, SteeringSafe
<1>4. CASE Process
  BY <1>4, ChildAnswers, ExitSafe DEF Process
<1>5. CASE Prewarm \/ ReapIdle \/ BeginShutdown \/ EndShutdown
  BY <1>5, ChildChangesSafe, BeginShutdownSafe, StopsSafe
<1>6. CASE UNCHANGED vars
  <2>1. IInv'
    BY <1>6 DEF vars, IInv, TypeOK, Lineage, Serial, Gates, Owners, OneShots, Wired, Live, Ran,
                Settled, Open, Session, Stopping
  <2>2. Moves(gate')
    BY <1>6 DEF vars, Moves, Same
  <2> QED BY <2>1, <2>2
<1> QED BY <1>1, <1>2, <1>3, <1>4, <1>5, <1>6 DEF Next

LEMMA InvariantHolds == Spec => []IInv
BY InitSafe, StepSafe, PTL DEF Spec

\* Type correctness of the turns, the gates and what the app-server runs.
THEOREM TypeCorrect == Spec => []TypeOK
<1>1. IInv => TypeOK
  BY DEF IInv
<1> QED BY <1>1, InvariantHolds, PTL

\* No two native turns or one-shots write one native thread, although stopped
\* turns and finished one-shots settle before they end.
THEOREM OneWriterHolds == Spec => []OneWriter
BY WritersAlone, InvariantHolds, PTL

\* No turn is ever given output of another turn of its native thread.
THEOREM OutputIsOwnHolds == Spec => []OutputIsOwn
<1>1. Init => OutputIsOwn
  BY DEF Init, OutputIsOwn
<1>2. OutputIsOwn /\ IInv /\ [Next]_vars => OutputIsOwn'
  <2> SUFFICES ASSUME OutputIsOwn, IInv, [Next]_vars PROVE OutputIsOwn'
    OBVIOUS
  <2>1. ASSUME NEW n \in Turns, Started(n) \/ Streams(n) \/ Completed(n) PROVE OutputIsOwn'
    <3>1. strays' = strays \/ (Feed(n) /\ Live(n) /\ gate[Session(n)] = None)
      BY <2>1 DEF Started, Streams, Completed, Live
    <3> QED BY <3>1, OwnReceiver DEF Feed, OutputIsOwn
  <2>2. CASE UNCHANGED strays
    BY <2>2 DEF OutputIsOwn
  <2>3. ASSUME NEW t \in Turns, Progress(t) PROVE OutputIsOwn'
    BY <2>1, <2>2, <2>3 DEF Progress, Run, ThreadAnswered, TurnAnswered, ServerAccepts, ServerEnds,
       ColdThread, ColdResult, ColdDone, ColdKeeps
  <2>4. ASSUME NEW t \in Turns, Troubles(t) \/ Steering(t) PROVE OutputIsOwn'
    BY <2>2, <2>4 DEF Troubles, Steering, Kill, ThreadRefused, TurnRefused, ColdRefused, ColdExits,
       ColdKeeps, SteerTurn, SteerReaches, SteerAnswered, SteerFails, SteerKeeps
  <2>5. CASE Process \/ Prewarm \/ ReapIdle \/ BeginShutdown \/ EndShutdown
    BY <2>2, <2>5 DEF Process, InitAnswered, InitRefused, Exit, Prewarm, ReapIdle, BeginShutdown,
       EndShutdown
  <2>6. CASE UNCHANGED vars
    BY <2>2, <2>6 DEF vars
  <2> QED BY <2>3, <2>4, <2>5, <2>6 DEF Next
<1> QED BY <1>1, <1>2, InvariantHolds, PTL DEF Spec

\* An input reported as rejected did not reach the turn it was meant for.
THEOREM RejectedStayedOutHolds == Spec => []RejectedStayedOut
<1>1. Init => RejectedStayedOut
  BY DEF Init, RejectedStayedOut, NoSteer
<1>2. RejectedStayedOut /\ IInv /\ [Next]_vars => RejectedStayedOut'
  <2> SUFFICES ASSUME RejectedStayedOut, IInv, [Next]_vars PROVE RejectedStayedOut'
    OBVIOUS
  <2>1. steer \in [Turns -> Steer]
    BY DEF IInv, TypeOK
  <2>2. CASE UNCHANGED steer
    BY <2>2 DEF RejectedStayedOut
  <2>3. ASSUME NEW t \in Turns, Steering(t) PROVE RejectedStayedOut'
    <3>1. \A x \in Turns : x # t => steer'[x] = steer[x]
      BY <2>1, <2>3 DEF Steering, SteerTurn, SteerReaches, SteerAnswered, SteerFails,
         SteerUnanswered, Steers
    <3>2. steer'[t].st = "rejected" => ~steer'[t].reached
      BY <2>1, <2>3 DEF Steering, SteerTurn, SteerReaches, SteerAnswered, SteerFails,
         SteerUnanswered, Steers, Steer
    <3> QED BY <3>1, <3>2 DEF RejectedStayedOut
  <2>4. ASSUME NEW p \in Pids, Exit(p) PROVE RejectedStayedOut'
    <3>1. CASE UNCHANGED steer
      BY <2>2, <3>1
    <3>2. CASE steer' = [t \in Turns |-> IF steer[t].st = "asked" THEN [steer[t] EXCEPT !.st = "unknown"]
                                         ELSE steer[t]]
      <4>1. \A t \in Turns : [steer[t] EXCEPT !.st = "unknown"].st = "unknown"
        BY <2>1 DEF Steer
      <4> QED BY <3>2, <4>1 DEF RejectedStayedOut
    <3> QED BY <2>4, <3>1, <3>2 DEF Exit
  <2>5. ASSUME NEW t \in Turns, Progress(t) \/ Troubles(t) PROVE RejectedStayedOut'
    BY <2>2, <2>5 DEF Progress, Troubles, Run, ThreadAnswered, TurnAnswered, Started, Streams,
       Completed, ServerAccepts, ServerEnds, ColdThread, ColdResult, ColdDone, ColdKeeps, Kill,
       ThreadRefused, TurnRefused, ColdRefused, ColdExits
  <2>6. CASE Prewarm \/ ReapIdle \/ BeginShutdown \/ EndShutdown \/
             \E p \in Pids : InitAnswered(p) \/ InitRefused(p)
    BY <2>2, <2>6 DEF InitAnswered, InitRefused, Prewarm, ReapIdle, BeginShutdown, EndShutdown
  <2>7. CASE UNCHANGED vars
    BY <2>2, <2>7 DEF vars
  <2> QED BY <2>3, <2>4, <2>5, <2>6, <2>7 DEF Next, Process
<1> QED BY <1>1, <1>2, InvariantHolds, PTL DEF Spec

-----------------------------------------------------------------------------
(* The runner contract.                                                    *)

\* Legal(a, b): a turn's handle may go from a to b.
Legal(a, b) ==
  \/ b = a
  \/ /\ a = Contract!Unborn
     /\ b = Contract!Rejected
        \/ \E y \in {"pool", "oneShot"} : b = [Contract!Unborn EXCEPT !.done = "pending", !.by = y]
  \/ /\ a.done = "pending"
     /\ \/ b \in {Contract!Resolved, [a EXCEPT !.output = TRUE]}
        \/ (a.cancelled => a.by = "oneShot") /\ b = Contract!Rejected
        \/ ~a.cancelled /\ b = [a EXCEPT !.cancelled = TRUE]
        \/ ~a.cancelled /\ ~a.output /\ a.by = "pool" /\ b = [a EXCEPT !.by = "oneShot"]

LEMMA SameHandle ==
  ASSUME NEW a \in Contract!Handle, NEW b \in Contract!Handle,
         a.done = b.done, a.cancelled = b.cancelled, a.output = b.output, a.by = b.by
  PROVE  a = b
BY DEF Contract!Handle

LEMMA Marks ==
  /\ Contract!Unborn \in Contract!Handle /\ Contract!Resolved \in Contract!Handle
  /\ Contract!Rejected \in Contract!Handle
  /\ Contract!Unborn.done = "unborn" /\ Contract!Resolved.done = "resolved"
  /\ Contract!Rejected.done = "rejected"
  /\ \A a \in {Contract!Unborn, Contract!Resolved, Contract!Rejected} :
       a.cancelled = FALSE /\ a.output = FALSE /\ a.by = "pool"
<1>1. /\ Contract!Unborn \in Contract!Handle /\ Contract!Unborn.done = "unborn"
      /\ Contract!Unborn.cancelled = FALSE /\ Contract!Unborn.output = FALSE
      /\ Contract!Unborn.by = "pool"
  BY DEF Contract!Handle, Contract!Unborn
<1>2. ASSUME NEW d \in {"resolved", "rejected"}
      PROVE  LET x == [Contract!Unborn EXCEPT !.done = d] IN
             /\ x \in Contract!Handle /\ x.done = d
             /\ x.cancelled = FALSE /\ x.output = FALSE /\ x.by = "pool"
  BY <1>1 DEF Contract!Handle
<1> QED BY <1>1, <1>2 DEF Contract!Resolved, Contract!Rejected

\* The handle of a turn, by phase.
LEMMA Handles ==
  ASSUME NEW r \in TurnState, r.stopped => r.phase = "cold"
  PROVE  /\ HandleOf(r) \in Contract!Handle
         /\ HandleOf(r).cancelled = r.stopped
         /\ r.phase \in {"none", "ok", "bad"} => HandleOf(r).output = FALSE /\ HandleOf(r).by = "pool"
         /\ r.phase \notin {"none", "ok", "bad"} =>
              /\ HandleOf(r).done = "pending" /\ HandleOf(r).output = r.known
              /\ HandleOf(r).by = IF r.phase = "cold" THEN "oneShot" ELSE "pool"
         /\ r.phase = "none" => HandleOf(r) = Contract!Unborn
         /\ r.phase = "ok" => HandleOf(r) = Contract!Resolved
         /\ r.phase = "bad" => HandleOf(r) = Contract!Rejected
<1>1. /\ r.known \in BOOLEAN /\ r.stopped \in BOOLEAN
      /\ r.phase \in {"none", "ready", "gate", "thread", "turn", "cold", "ok", "bad"}
  BY DEF TurnState
<1>2. /\ HandleOf(r).cancelled = r.stopped
      /\ HandleOf(r).done = (CASE r.phase = "none" -> "unborn" [] r.phase = "ok" -> "resolved"
                               [] r.phase = "bad" -> "rejected" [] OTHER -> "pending")
      /\ HandleOf(r).by = IF r.phase = "cold" THEN "oneShot" ELSE "pool"
      /\ HandleOf(r).output = (r.known /\ r.phase \notin {"none", "ok", "bad"})
      /\ HandleOf(r) = [done |-> HandleOf(r).done, cancelled |-> r.stopped,
                        output |-> HandleOf(r).output, by |-> HandleOf(r).by]
  BY DEF HandleOf
<1>3. HandleOf(r).done = IF r.phase = "none" THEN "unborn" ELSE IF r.phase = "ok" THEN "resolved"
                         ELSE IF r.phase = "bad" THEN "rejected" ELSE "pending"
  BY <1>1, <1>2
<1>4. HandleOf(r).output = IF r.phase \in {"none", "ok", "bad"} THEN FALSE ELSE r.known
  BY <1>1, <1>2
<1>5. HandleOf(r).output \in BOOLEAN
  BY <1>1, <1>4
<1>6. HandleOf(r) \in Contract!Handle
  <2>1. ASSUME NEW d \in {"unborn", "pending", "resolved", "rejected"}, NEW o \in BOOLEAN,
               NEW c \in BOOLEAN, NEW y \in {"pool", "oneShot"}
        PROVE  [done |-> d, cancelled |-> c, output |-> o, by |-> y] \in Contract!Handle
    BY DEF Contract!Handle
  <2> QED BY <1>1, <1>2, <1>3, <1>5, <2>1
<1>a. r.phase # "cold" => HandleOf(r).cancelled = FALSE
  BY <1>1, <1>2
<1>7. r.phase = "none" => HandleOf(r) = Contract!Unborn
  BY <1>2, <1>3, <1>4, <1>6, <1>a, Marks, SameHandle
<1>8. r.phase = "ok" => HandleOf(r) = Contract!Resolved
  BY <1>2, <1>3, <1>4, <1>6, <1>a, Marks, SameHandle
<1>9. r.phase = "bad" => HandleOf(r) = Contract!Rejected
  BY <1>2, <1>3, <1>4, <1>6, <1>a, Marks, SameHandle
<1>10. r.phase \notin {"none", "ok", "bad"} => HandleOf(r).done = "pending" /\ HandleOf(r).output = r.known
  BY <1>3, <1>4
<1> QED BY <1>2, <1>4, <1>6, <1>7, <1>8, <1>9, <1>10

\* Only a one-shot is marked as stopped while its turn is open, and the mark
\* stays until the turn settles.
StopInv == \A t \in Turns : turn[t].stopped => turn[t].phase = "cold"

StopMoves(r, q) ==
  /\ q.stopped => q.phase = "cold"
  /\ r.phase = "cold" /\ q.phase = "cold" =>
       q.stopped = r.stopped \/ (q.stopped /\ q.known = r.known)
  /\ r.phase # "cold" => ~q.stopped

\* What a turn that is not a one-shot goes on with carries no stop mark.
LEMMA PlacedUnstopped ==
  ASSUME ready \in {"wait", "ok", "no"}, NEW r \in TurnState, ~r.stopped, NEW g
  PROVE  /\ ~FallBack(r, g).stopped /\ ~Ask(r, g).stopped /\ ~Start(r, g).stopped
         /\ ~Ok(r).stopped /\ ~Bad(r).stopped /\ Ok(r).phase = "ok" /\ Bad(r).phase = "bad"
<1>1. \A f \in {"ok", "bad"} : ~SettledAs(r, f).stopped /\ SettledAs(r, f).phase = f
  BY DEF TurnState, SettledAs
<1>2. \A f, c : ~[r EXCEPT !.phase = f, !.cold = c].stopped
  BY DEF TurnState
<1>3. \A f : ~[r EXCEPT !.phase = f].stopped
  BY DEF TurnState
<1>4. ~FallBack(r, g).stopped
  BY <1>1, <1>2 DEF FallBack, Bad
<1>5. ~Ask(r, g).stopped
  BY <1>3 DEF Ask
<1>6. ~Start(r, g).stopped
  <2>1. CASE child = None \/ ready = "no"
    BY <1>4, <2>1 DEF Start
  <2>2. CASE child # None /\ ready = "wait"
    BY <1>3, <2>2 DEF Start
  <2>3. CASE child # None /\ ready = "ok"
    BY <1>5, <2>3 DEF Start
  <2> QED BY <2>1, <2>2, <2>3
<1> QED BY <1>1, <1>4, <1>5, <1>6 DEF Ok, Bad

LEMMA SettledUnstopped ==
  ASSUME NEW r \in TurnState
  PROVE  ~Ok(r).stopped /\ ~Bad(r).stopped /\ Ok(r).phase = "ok" /\ Bad(r).phase = "bad"
BY DEF TurnState, SettledAs, Ok, Bad

\* Every step moves the stop marks this way.
LEMMA StopStep ==
  ASSUME TypeOK, StopInv, [Next]_vars
  PROVE  \A t \in Turns : StopMoves(turn[t], turn'[t])
<1> SUFFICES ASSUME NEW u \in Turns PROVE StopMoves(turn[u], turn'[u])
  OBVIOUS
<1> DEFINE r == turn[u]
<1>1. /\ r \in TurnState /\ r.stopped \in BOOLEAN /\ (r.phase # "cold" => ~r.stopped)
      /\ ready \in {"wait", "ok", "no"}
  BY DEF TypeOK, StopInv, TurnState
<1>2. ASSUME turn'[u] = r PROVE StopMoves(turn[u], turn'[u])
  BY <1>1, <1>2 DEF StopMoves
<1>3. ASSUME turn'[u] \in {Ok(r), Bad(r)} PROVE StopMoves(turn[u], turn'[u])
  BY <1>1, <1>3, SettledUnstopped DEF StopMoves
<1>4. ASSUME r.phase # "cold", NEW g, turn'[u] \in {FallBack(r, g), Ask(r, g), Start(r, g)}
      PROVE  StopMoves(turn[u], turn'[u])
  BY <1>1, <1>4, PlacedUnstopped DEF StopMoves
<1>5. ASSUME r.phase # "cold", turn'[u].stopped = r.stopped PROVE StopMoves(turn[u], turn'[u])
  BY <1>1, <1>5 DEF StopMoves
<1>6. ASSUME NEW t \in Turns, Run(t) PROVE StopMoves(turn[u], turn'[u])
  <2>1. CASE u # t
    BY <1>2, <1>6, <2>1 DEF Run, Become, TypeOK
  <2>2. CASE u = t
    <3>1. PICK th \in Threads, rs \in Sessions \cup {None} :
          LET n == [NoTurn EXCEPT !.thread = th, !.resume = rs] IN
          /\ turn[t].phase = "none"
          /\ turn'[t] \in {Bad(n), FallBack(n, gate), Start(n, gate), [n EXCEPT !.phase = "ready"]}
      <4>1. PICK th \in Threads, rs \in Sessions \cup {None} :
            LET n == [NoTurn EXCEPT !.thread = th, !.resume = rs] IN
            /\ MayRun(t, n)
            /\ turn' \in {[turn EXCEPT ![t] = Bad(n)], [turn EXCEPT ![t] = FallBack(n, gate)],
                         [turn EXCEPT ![t] = Start(n, gate)],
                         [turn EXCEPT ![t] = [n EXCEPT !.phase = "ready"]]}
        BY <1>6 DEF Run, Become
      <4>2. turn[t].phase = "none"
        BY <4>1 DEF MayRun
      <4> QED BY <4>1, <4>2 DEF TypeOK
    <3> DEFINE n == [NoTurn EXCEPT !.thread = th, !.resume = rs]
    <3>2. n \in TurnState /\ ~n.stopped /\ ~[n EXCEPT !.phase = "ready"].stopped
      BY DEF NoTurn, TurnState
    <3>a. turn'[t] \in {Bad(n), FallBack(n, gate), Start(n, gate), [n EXCEPT !.phase = "ready"]}
      BY <3>1
    <3> HIDE DEF n
    <3>3. ~turn'[t].stopped
      BY <1>1, <3>a, <3>2, PlacedUnstopped
    <3> QED BY <2>2, <3>1, <3>3 DEF StopMoves
  <2> QED BY <2>1, <2>2
<1>7. ASSUME NEW ts \in SUBSET Turns, Interrupt(ts) PROVE StopMoves(turn[u], turn'[u])
  <2>1. \/ turn'[u] = r \/ turn'[u] = Ok(r)
        \/ r.phase = "cold" /\ turn'[u] = [r EXCEPT !.stopped = TRUE]
    BY <1>7 DEF Interrupt, Open, Warm
  <2>2. CASE r.phase = "cold" /\ turn'[u] = [r EXCEPT !.stopped = TRUE]
    <3>1. turn'[u].stopped /\ turn'[u].phase = "cold" /\ turn'[u].known = r.known
      BY <1>1, <2>2 DEF TurnState
    <3> QED BY <2>2, <3>1 DEF StopMoves
  <2> QED BY <1>2, <1>3, <2>1, <2>2
<1>8. ASSUME NEW t \in Turns, Progress(t) PROVE StopMoves(turn[u], turn'[u])
  <2>1. CASE ThreadAnswered(t)
    <3>1. CASE u = t
      <4>1. turn'[u] = [r EXCEPT !.phase = "turn", !.known = TRUE] /\ r.phase = "thread"
        BY <2>1, <3>1 DEF ThreadAnswered, TypeOK
      <4>2. turn'[u].stopped = r.stopped
        BY <1>1, <4>1 DEF TurnState
      <4> QED BY <1>5, <4>1, <4>2
    <3>2. CASE u # t
      BY <1>2, <2>1, <3>2 DEF ThreadAnswered, TypeOK
    <3> QED BY <3>1, <3>2
  <2>2. ASSUME turn'[u] \in {r, [r EXCEPT !.id = t]} PROVE StopMoves(turn[u], turn'[u])
    <3>1. /\ turn'[u].stopped = r.stopped /\ turn'[u].phase = r.phase /\ turn'[u].known = r.known
      BY <1>1, <2>2 DEF TurnState
    <3> QED BY <1>1, <3>1 DEF StopMoves
  <2>3. CASE TurnAnswered(t)
    BY <2>2, <2>3 DEF TurnAnswered, TypeOK
  <2>4. CASE Started(t)
    BY <2>2, <2>4 DEF Started
  <2>5. CASE Streams(t) \/ ServerAccepts(t) \/ ServerEnds(t)
    BY <1>2, <2>5 DEF Streams, ServerAccepts, ServerEnds
  <2>6. CASE Completed(t)
    <3>1. CASE gate[Session(t)] # None
      <4>1. turn' = turn \/ Release(Session(t))
        BY <2>6, <3>1 DEF Completed
      <4>2. CASE Release(Session(t))
        <5>1. \/ turn'[u] = r
              \/ r.phase # "cold" /\ \E g : turn'[u] \in {FallBack(r, g), Start(r, g)}
          BY <4>2 DEF Release, Become, Waits
        <5> QED BY <1>2, <1>4, <5>1
      <4> QED BY <1>2, <4>1, <4>2
    <3>2. CASE gate[Session(t)] = None
      BY <1>2, <1>3, <2>6, <3>2 DEF Completed
    <3> QED BY <3>1, <3>2
  <2>7. CASE ColdThread(t)
    <3>1. turn'[u] = r \/ (r.phase = "cold" /\ turn'[u] = [r EXCEPT !.known = TRUE])
      BY <2>7 DEF ColdThread, ColdRuns, TypeOK
    <3>2. CASE r.phase = "cold" /\ turn'[u] = [r EXCEPT !.known = TRUE]
      <4>1. turn'[u].stopped = r.stopped /\ turn'[u].phase = r.phase
        BY <1>1, <3>2 DEF TurnState
      <4> QED BY <3>2, <4>1 DEF StopMoves
    <3> QED BY <1>2, <3>1, <3>2
  <2>8. CASE ColdResult(t) \/ ColdDone(t)
    <3>1. turn'[u] \in {r, Ok(r), Bad(r)}
      BY <2>8 DEF ColdResult, ColdDone, TypeOK
    <3> QED BY <1>2, <1>3, <3>1
  <2> QED BY <1>6, <1>8, <2>1, <2>3, <2>4, <2>5, <2>6, <2>7, <2>8 DEF Progress
<1>9. ASSUME NEW t \in Turns, Troubles(t) PROVE StopMoves(turn[u], turn'[u])
  <2>1. CASE Kill(t)
    BY <1>7, <2>1 DEF Kill
  <2>2. CASE ThreadRefused(t)
    <3>1. turn'[u] = r \/ (r.phase # "cold" /\ turn'[u] = FallBack(r, gate))
      BY <2>2 DEF ThreadRefused, Become, TypeOK
    <3> QED BY <1>2, <1>4, <3>1
  <2>3. CASE TurnRefused(t)
    <3>1. CASE Stopping(t) /\ Release(Session(t))
      <4>1. \/ turn'[u] = r
            \/ r.phase # "cold" /\ \E g : turn'[u] \in {FallBack(r, g), Start(r, g)}
        BY <3>1 DEF Release, Become, Waits
      <4> QED BY <1>2, <1>4, <4>1
    <3>2. CASE turn' = IF Open(t) THEN [turn EXCEPT ![t] = Bad(@)] ELSE turn
      <4>1. turn'[u] \in {r, Bad(r)}
        BY <3>2 DEF TypeOK
      <4> QED BY <1>2, <1>3, <4>1
    <3> QED BY <2>3, <3>1, <3>2 DEF TurnRefused
  <2>4. CASE ColdRefused(t) \/ ColdExits(t)
    <3>1. turn'[u] \in {r, Bad(r)}
      BY <2>4 DEF ColdRefused, ColdExits, TypeOK
    <3> QED BY <1>2, <1>3, <3>1
  <2> QED BY <1>9, <2>1, <2>2, <2>3, <2>4 DEF Troubles
<1>10. ASSUME NEW p \in Pids, InitAnswered(p) \/ InitRefused(p) \/ Exit(p)
       PROVE  StopMoves(turn[u], turn'[u])
  <2>1. \/ turn'[u] = r
        \/ r.phase # "cold" /\ \E g : turn'[u] \in {FallBack(r, g), Ask(r, g), Start(r, g)}
    <3>1. CASE InitAnswered(p) \/ InitRefused(p)
      BY <3>1 DEF InitAnswered, InitRefused, Become
    <3>2. CASE Exit(p)
      <4> DEFINE g == [s \in Sessions |-> IF HeldBy(s, p) THEN None ELSE gate[s]]
      <4>1. \/ turn' = [t \in Turns |-> IF Warm(t) THEN FallBack(turn[t], g) ELSE turn[t]]
            \/ turn' = [t \in Turns |->
                 IF ~(turn[t].phase = "gate" /\ HeldBy(Session(t), p)) THEN turn[t]
                 ELSE IF turn[t].cold THEN FallBack(turn[t], g) ELSE Start(turn[t], g)]
        BY <3>2 DEF Exit, Become
      <4> HIDE DEF g
      <4> QED BY <4>1 DEF Warm
    <3> QED BY <1>10, <3>1, <3>2
  <2> QED BY <1>2, <1>4, <2>1
<1>11. CASE BeginShutdown \/ EndShutdown
  <2>1. CASE BeginShutdown
    <3>1. turn'[u] \in {r, Bad(r)}
      BY <2>1 DEF BeginShutdown, Become
    <3> QED BY <1>2, <1>3, <3>1
  <2>2. CASE EndShutdown
    BY <1>7, <2>2 DEF EndShutdown
  <2> QED BY <1>11, <2>1, <2>2
<1>12. CASE Prewarm \/ ReapIdle \/ UNCHANGED vars \/ \E t \in Turns : Steering(t)
  BY <1>2, <1>12 DEF Prewarm, ReapIdle, vars, Steering, SteerTurn, SteerReaches, SteerAnswered,
     SteerFails, SteerKeeps
<1> QED BY <1>8, <1>9, <1>10, <1>11, <1>12 DEF Next, Process

LEMMA StopInvHolds == Spec => []StopInv
<1>1. Init => StopInv
  BY DEF Init, NoTurn, StopInv
<1>2. TypeOK /\ StopInv /\ [Next]_vars => StopInv'
  BY StopStep DEF StopMoves, StopInv
<1> QED BY <1>1, <1>2, InvariantHolds, PTL DEF Spec, IInv

LEMMA LegalSteps ==
  ASSUME NEW r \in TurnState, NEW q \in TurnState, r.phase # "none" => (r.known => q.known),
         r.stopped => r.phase = "cold", StopMoves(r, q),
         \/ q.phase = r.phase
         \/ r.phase \notin {"none", "ok", "bad"} /\ q.phase \in {"ok", "bad"}
         \/ r.phase = "thread" /\ q.phase = "turn"
         \/ /\ r.phase \notin {"none", "ok", "bad", "cold"}
            /\ q.phase \in {"gate", "ready", "thread"} \/ (q.phase = "cold" /\ ~r.known /\ ~q.stopped)
            /\ q.known = r.known
         \/ /\ r.phase = "none" /\ q.phase \in {"bad", "gate", "cold", "ready", "thread"}
            /\ ~q.known /\ ~q.stopped
  PROVE  Legal(HandleOf(r), HandleOf(q))
<1> DEFINE a == HandleOf(r)
           b == HandleOf(q)
<1>0. q.stopped => q.phase = "cold"
  BY DEF StopMoves
<1>1. /\ r.known \in BOOLEAN /\ q.known \in BOOLEAN /\ a \in Contract!Handle /\ b \in Contract!Handle
      /\ r.stopped \in BOOLEAN /\ q.stopped \in BOOLEAN
  BY <1>0, Handles DEF TurnState
<1>2. CASE r.phase = "none" /\ q.phase \notin {"none", "bad"}
  <2>1. \A y \in {"pool", "oneShot"} :
          LET x == [Contract!Unborn EXCEPT !.done = "pending", !.by = y] IN
          /\ x \in Contract!Handle /\ x.done = "pending" /\ x.cancelled = FALSE /\ x.output = FALSE
          /\ x.by = y
    BY DEF Contract!Handle, Contract!Unborn
  <2>2. q.phase \notin {"none", "ok", "bad"} /\ q.known = FALSE /\ q.stopped = FALSE
    BY <1>1, <1>2
  <2>3. b.done = "pending" /\ b.cancelled = FALSE /\ b.output = FALSE /\ b.by \in {"pool", "oneShot"}
    BY <1>0, <2>2, Handles
  <2> HIDE DEF b
  <2>4. b = [Contract!Unborn EXCEPT !.done = "pending", !.by = b.by]
    BY <1>1, <2>1, <2>3, SameHandle
  <2>5. a = Contract!Unborn
    BY <1>2, Handles
  <2> QED BY <2>3, <2>4, <2>5 DEF Legal, b
<1>3. CASE r.phase \in {"none", "ok", "bad"} /\ q.phase \in {"none", "ok", "bad"}
  BY <1>0, <1>3, Handles DEF Legal
<1>4. CASE r.phase \notin {"none", "ok", "bad"} /\ q.phase \in {"ok", "bad"}
  BY <1>0, <1>4, Handles DEF Legal
<1>5. CASE r.phase \notin {"none", "ok", "bad"} /\ q.phase \notin {"none", "ok", "bad"}
  <2>1. /\ a.done = "pending" /\ b.done = "pending" /\ a.cancelled = r.stopped /\ b.cancelled = q.stopped
        /\ a.output = r.known /\ b.output = q.known
        /\ a.by = (IF r.phase = "cold" THEN "oneShot" ELSE "pool")
        /\ b.by = (IF q.phase = "cold" THEN "oneShot" ELSE "pool")
    BY <1>0, <1>5, Handles
  <2>2. LET x == [a EXCEPT !.output = TRUE] IN
        /\ x \in Contract!Handle /\ x.done = a.done /\ x.cancelled = a.cancelled /\ x.output = TRUE
        /\ x.by = a.by
    BY <1>1 DEF Contract!Handle
  <2>3. LET x == [a EXCEPT !.by = "oneShot"] IN
        /\ x \in Contract!Handle /\ x.done = a.done /\ x.cancelled = a.cancelled
        /\ x.output = a.output /\ x.by = "oneShot"
    BY <1>1 DEF Contract!Handle
  <2>b. LET x == [a EXCEPT !.cancelled = TRUE] IN
        /\ x \in Contract!Handle /\ x.done = a.done /\ x.cancelled = TRUE
        /\ x.output = a.output /\ x.by = a.by
    BY <1>1 DEF Contract!Handle
  <2> HIDE DEF a, b
  <2>4. CASE a.by = b.by /\ a.output = b.output /\ a.cancelled = b.cancelled
    BY <1>1, <2>1, <2>4, SameHandle DEF Legal, a, b
  <2>5. CASE a.by = b.by /\ b.output = TRUE /\ a.cancelled = b.cancelled
    <3>1. b = [a EXCEPT !.output = TRUE]
      BY <1>1, <2>1, <2>2, <2>5, SameHandle
    <3> QED BY <2>1, <3>1 DEF Legal, a, b
  <2>6. CASE /\ a.by = "pool" /\ b.by = "oneShot" /\ a.output = FALSE /\ b.output = FALSE
             /\ a.cancelled = FALSE /\ b.cancelled = FALSE
    <3>1. b = [a EXCEPT !.by = "oneShot"]
      BY <1>1, <2>1, <2>3, <2>6, SameHandle
    <3> QED BY <2>1, <2>6, <3>1 DEF Legal, a, b
  <2>7. CASE a.by = b.by /\ a.output = b.output /\ a.cancelled = FALSE /\ b.cancelled = TRUE
    <3>1. b = [a EXCEPT !.cancelled = TRUE]
      BY <1>1, <2>1, <2>b, <2>7, SameHandle
    <3> QED BY <2>1, <2>7, <3>1 DEF Legal, a, b
  <2>8. CASE r.phase = "cold" /\ q.phase = "cold"
    <3>1. a.by = b.by /\ (a.cancelled = b.cancelled \/ (b.cancelled = TRUE /\ b.output = a.output))
      BY <1>1, <2>1, <2>8 DEF StopMoves
    <3>2. /\ a.output = b.output \/ b.output = TRUE
          /\ a.cancelled \in BOOLEAN
      BY <1>1, <2>1, <2>8
    <3> QED BY <2>4, <2>5, <2>7, <3>1, <3>2
  <2>9. CASE ~(r.phase = "cold" /\ q.phase = "cold")
    <3>1. a.cancelled = FALSE /\ b.cancelled = FALSE
      BY <1>0, <1>1, <1>5, <2>1, <2>9
    <3> QED BY <1>1, <1>5, <2>1, <2>4, <2>5, <2>6, <2>9, <3>1
  <2> QED BY <2>8, <2>9
<1> QED BY <1>2, <1>3, <1>4, <1>5

LEMMA ContractStep ==
  ASSUME TypeOK, TypeOK', StopInv, StopInv', Moves(gate') \/ \E t \in Turns : Begins(t),
         \A t \in Turns : StopMoves(turn[t], turn'[t])
  PROVE  Contract!Next
<1> DEFINE h == [t \in Turns |-> HandleOf(turn[t])]
           g == [t \in Turns |-> HandleOf(turn'[t])]
<1>1. ASSUME NEW t \in Turns
      PROVE  /\ turn[t] \in TurnState /\ turn'[t] \in TurnState
             /\ turn[t].stopped => turn[t].phase = "cold"
             /\ turn'[t].stopped => turn'[t].phase = "cold"
             /\ StopMoves(turn[t], turn'[t])
  BY DEF TypeOK, StopInv
<1>2. ASSUME NEW t \in Turns PROVE Legal(h[t], g[t])
  <2>1. CASE Moves(gate')
    <3>1. /\ turn[t].known => turn'[t].known
          /\ \/ turn'[t].phase = turn[t].phase
             \/ turn[t].phase \notin {"none", "ok", "bad"} /\ turn'[t].phase \in {"ok", "bad"}
             \/ turn[t].phase = "thread" /\ turn'[t].phase = "turn"
             \/ /\ turn[t].phase \notin {"none", "ok", "bad", "cold"}
                /\ \/ turn'[t].phase \in {"gate", "ready", "thread"}
                   \/ turn'[t].phase = "cold" /\ ~turn[t].known /\ ~turn'[t].stopped
                /\ turn'[t].known = turn[t].known
      <4>1. turn[t].phase # "cold" => ~turn'[t].stopped
        BY <1>1 DEF StopMoves
      <4> QED BY <2>1, <4>1 DEF Moves, Same, Open, Warm, Placed
    <3>2. turn[t].phase # "none" => (turn[t].known => turn'[t].known)
      BY <3>1
    <3>3. Legal(HandleOf(turn[t]), HandleOf(turn'[t]))
      BY <1>1, <3>1, <3>2, LegalSteps
    <3> QED BY <3>3
  <2>2. ASSUME NEW u \in Turns, Begins(u) PROVE Legal(h[t], g[t])
    <3>1. CASE t = u
      <4>1. /\ turn[t].phase = "none" /\ ~turn'[t].known
            /\ turn'[t].phase \in {"bad", "gate", "cold", "ready", "thread"}
            /\ ~turn'[t].stopped
        BY <1>1, <2>2, <3>1 DEF Begins, Ran, StopMoves
      <4>2. Legal(HandleOf(turn[t]), HandleOf(turn'[t]))
        BY <1>1, <4>1, LegalSteps
      <4> QED BY <4>2
    <3>2. CASE t # u
      BY <2>2, <3>2 DEF Begins, Legal
    <3> QED BY <3>1, <3>2
  <2> QED BY <2>1, <2>2
<1>3. g \in [Turns -> Contract!Handle]
  BY <1>1, Handles
<1>4. ASSUME NEW t \in Turns
      PROVE  Contract!Accept(t) \/ Contract!Refuse(t) \/ Contract!Cancel(t)
               \/ Contract!Output(t) \/ Contract!ExecuteAgain(t) \/ Contract!Resolve(t)
               \/ Contract!Reject(t) \/ g[t] = h[t]
  <2>1. h[t].done = "unborn" \/ h[t] # Contract!Unborn
    BY DEF Contract!Unborn
  <2> QED BY <1>2, <2>1 DEF Legal, Contract!Accept, Contract!Refuse, Contract!Cancel, Contract!Output,
             Contract!ExecuteAgain, Contract!Resolve, Contract!Reject
<1> QED BY <1>3, <1>4 DEF Contract!Next

\* The pool implements the runner contract: done settles once, a stopped turn
\* of the app-server resolves (a stopped one-shot may reject), and only a turn
\* that has shown no output and was not stopped is executed again, as a one-shot.
THEOREM KeepsRunnerContract == Spec => KeepsContract
<1>1. Init => Contract!Init
  <2>1. NoTurn \in TurnState /\ NoTurn.phase = "none" /\ ~NoTurn.stopped
    BY DEF NoTurn, TurnState
  <2>2. HandleOf(NoTurn) = Contract!Unborn
    BY <2>1, Handles
  <2> QED BY <2>2 DEF Init, Contract!Init
<1>2. IInv /\ StopInv /\ StopInv' /\ [Next]_vars => [Contract!Next]_[t \in Turns |-> HandleOf(turn[t])]
  BY StepSafe, StopStep, ContractStep DEF IInv
<1> QED BY <1>1, <1>2, InvariantHolds, StopInvHolds, PTL DEF Spec, KeepsContract, Contract!Spec
================================================================================
