---------------------------- MODULE BridgeHandler ----------------------------
(***************************************************************************)
(* The dispatch loop of a bot's bridge (run, deliverToActiveTurn,          *)
(* handleStopCommand and the skeleton of handleOne in                      *)
(* src/src/bridge/handler.ts): an inbound event is routed (offered to the  *)
(* running turn as live input, or queued), a queue key runs one turn at a  *)
(* time under the bot's semaphore, a bare /stop overtakes both.            *)
(*                                                                         *)
(* One action is one synchronous section between two awaits.  What a turn  *)
(* does to its surfaces is in TurnSurfaces, to its session in Sessions;    *)
(* here it is probed, set up, run, finalized or failed.  Operators marked  *)
(* "mutant" are plausible bugs of the definition below them.               *)
(***************************************************************************)
EXTENDS Naturals, FiniteSets, Sequences, Functions

CONSTANTS
  Messages,       \* inbound events, the unit of delivery
  Event,          \* [Messages -> record]: root, parent, p2p, kind, plain
  StickyKey,      \* the session key of the direct chat, p2p-<chat_id>
  Sticky,         \* botConfig.p2pStickySession
  TaskCards,      \* message ids that are shared task cards
  MaxConcurrent,  \* max_concurrent_turns
  Steerable,      \* the runner's handle has steer()
  Cold,           \* the runner is one-shot: its child may outlive its turn
  ModelFirst,     \* the surfaces are made while the runner already runs
  MaxReplays, MaxCrashes, MaxFaults,   \* bounds of the environment
  None

Kinds == {"user", "card", "synthetic", "stop"}
Ids   == {Event[m].root : m \in Messages} \cup {Event[m].parent : m \in Messages}

ASSUME BridgeAssumption ==
  /\ IsFiniteSet(Messages)
  /\ Event \in [Messages -> [root : Ids, parent : Ids, p2p : BOOLEAN,
                             kind : Kinds, plain : BOOLEAN]]
  /\ {MaxConcurrent, MaxReplays, MaxCrashes, MaxFaults} \subseteq Nat
  /\ MaxConcurrent > 0 /\ None \notin Messages \cup {StickyKey}
  /\ {Sticky, Steerable, Cold, ModelFirst} \subseteq BOOLEAN

VARIABLES
  client,      \* ChannelClient's view of every message
  routes,      \* per queue key: the routing chain, its head being routed
  pending,     \* pendingByKey: events waiting for a drain
  links,       \* threadQueues: drain links not finished, per queue key
  slot,        \* the head link's place at the semaphore
  running,     \* occupied semaphore slots
  waiters,     \* queue keys waiting for a slot, first come first served
  turn,        \* handleOne of every queue key
  active,      \* activeInputs: the queue key whose turn runs the session
  stops,       \* activeTurnStops: queue keys with a kill hook
  lingering,   \* children that outlive their turn: coldProcessLifetimes that are
               \* done, <<session, queue key>>, and those a crash left, <<session, None>>
  journal,     \* InputDeliveryStore on disk
  fed,         \* messages a native turn may have received as live input
  cancelled,   \* messages a /stop found waiting
  budget       \* what was delivered; replays, crashes and faults spent

vars == <<client, routes, pending, links, slot, running, waiters, turn,
          active, stops, lingering, journal, fed, cancelled, budget>>

-----------------------------------------------------------------------------
(* Keys.                                                                   *)

SessionKey(m) ==
  LET e == Event[m] IN
  IF e.root # None THEN e.root
  ELSE IF Sticky /\ e.parent = None /\ e.p2p THEN StickyKey ELSE m

\* mutant of QueueKey: a quote reply is queued under its own session
OwnKey(m) == SessionKey(m)
QueueKey(m) ==
  IF Event[m].root = None /\ Event[m].parent # None THEN Event[m].parent
                                                    ELSE SessionKey(m)

Queues   == {QueueKey(m) : m \in Messages}
Sessions == {SessionKey(m) : m \in Messages} \cup (TaskCards \cap Ids)

CanCoalesce(p, c) ==
  /\ Event[p].kind = "user" /\ Event[c].kind = "user"
  /\ SessionKey(p) = SessionKey(c)
  /\ Event[c].plain /\ Event[c].parent = None

StepsOfRoute == {"check", "journal", "put", "prepare", "steer", "ack", "enqueue"}
Results      == {"none", "accepted", "rejected", "unknown"}

\* stale: the stop epoch moved since the event was received; live: the
\* handle captured for the delivery still belongs to a running turn.
Route(m) == [m |-> m, stale |-> FALSE, pc |-> "check", live |-> FALSE,
             result |-> "none"]

NoTurn == [phase |-> "none", msgs |-> << >>, session |-> None, attempt |-> 1,
           hold |-> FALSE, stopped |-> FALSE]

Routed(k)  == {r.m : r \in Range(routes[k])}
\* A closing turn has settled its messages.
InTurn(k)  == IF turn[k].phase = "closing" THEN {} ELSE Range(turn[k].msgs)

TypeOK ==
  /\ client \in [Messages -> {"away", "inFlight", "handled"}]
  /\ \A k \in Queues :
       /\ Range(routes[k]) \subseteq
            [m : Messages, stale : BOOLEAN, pc : StepsOfRoute, live : BOOLEAN,
             result : Results]
       /\ Range(pending[k]) \subseteq Messages
       /\ turn[k].phase \in {"none", "probe", "setup", "ready", "run", "again",
                             "retry", "finalize", "failing", "refused", "closing"}
       /\ slot[k] \in {"none", "waiting", "held"}
  /\ running \in 0 .. MaxConcurrent
  /\ active \in [Sessions -> Queues \cup {None}] /\ stops \subseteq Queues
  /\ lingering \subseteq Sessions \X (Queues \cup {None})
  /\ journal \in [Messages -> {"none", "sending", "accepted", "rejected", "unknown"}]
  /\ fed \subseteq Messages /\ cancelled \subseteq Messages

Init ==
  /\ routes = [k \in Queues |-> << >>] /\ pending = [k \in Queues |-> << >>]
  /\ links = [k \in Queues |-> 0] /\ slot = [k \in Queues |-> "none"]
  /\ running = 0 /\ waiters = << >>
  /\ turn = [k \in Queues |-> NoTurn]
  /\ active = [s \in Sessions |-> None] /\ stops = {} /\ lingering = {}
  /\ client \in [Messages -> {"away", "handled"}]
  /\ journal = [m \in Messages |-> "none"]
  /\ fed = {} /\ cancelled = {}
  /\ budget = [seen |-> {}, replays |-> 0, crashes |-> 0, faults |-> 0]

Spend(what, max) ==
  budget[what] < max /\ budget' = [budget EXCEPT ![what] = @ + 1]

Fault == Spend("faults", MaxFaults)

MarkHandled(S) == client' = [m \in Messages |-> IF m \in S THEN "handled" ELSE client[m]]
MarkUnhandled(S) == client' = [m \in Messages |-> IF m \in S THEN "away" ELSE client[m]]

-----------------------------------------------------------------------------
(* The for-await loop.                                                     *)

Delivered(m) ==
  /\ client[m] = "away"
  /\ IF m \in budget.seen
     THEN budget.replays < MaxReplays /\ budget' = [budget EXCEPT !.replays = @ + 1]
     ELSE budget' = [budget EXCEPT !.seen = @ \cup {m}]

Receive(m) ==
  /\ Event[m].kind # "stop" /\ Delivered(m)
  /\ client' = [client EXCEPT ![m] = "inFlight"]
  /\ routes' = [routes EXCEPT ![QueueKey(m)] = Append(@, Route(m))]
  /\ UNCHANGED <<pending, links, slot, running, waiters, turn, active, stops,
                 lingering, journal, fed, cancelled>>

\* The sticky session of the direct chat is a second candidate: its turn's
\* stop button sends /stop from inside the topic.
Candidates(m) ==
  {QueueKey(m)} \cup (IF Sticky /\ Event[m].p2p THEN {StickyKey} \cap Queues ELSE {})

\* mutant of Stale: the stop clears the queue and forgets what is routed
NothingStale(k) == routes[k]
Stale(k) == [i \in DOMAIN routes[k] |-> [routes[k][i] EXCEPT !.stale = TRUE]]

\* mutant of Hit: only the raw queue key's hook is looked up
HitRaw(m) == {QueueKey(m)} \cap stops
Hit(m) == IF QueueKey(m) \in stops THEN {QueueKey(m)} ELSE Candidates(m) \cap stops

\* The kill hook: the running turn's, or the one held for a retry's runner.
StopTurn(K) ==
  /\ turn' = [k \in Queues |->
       IF k \notin K THEN turn[k]
       ELSE IF turn[k].phase = "retry" THEN [turn[k] EXCEPT !.hold = TRUE]
       ELSE [turn[k] EXCEPT !.stopped = TRUE]]
  /\ active' = [s \in Sessions |->
       IF \E k \in K : turn[k].phase = "run" /\ turn[k].session = s
       THEN None ELSE active[s]]

Stop(m) ==
  /\ Event[m].kind = "stop" /\ Delivered(m)
  /\ LET C == Candidates(m)
         dropped == UNION {Range(pending[k]) : k \in C}
     IN /\ MarkHandled({m} \cup dropped)
        /\ pending' = [k \in Queues |-> IF k \in C THEN << >> ELSE pending[k]]
        /\ routes' = [routes EXCEPT ![QueueKey(m)] = Stale(QueueKey(m))]
        /\ StopTurn(Hit(m))
        /\ cancelled' = cancelled \cup dropped \cup Routed(QueueKey(m))
  /\ UNCHANGED <<links, slot, running, waiters, stops, lingering, journal, fed>>

-----------------------------------------------------------------------------
(* Routing one event: live input or the queue.                             *)

Head1(k) == routes[k] # << >>
Routing(k, pc) == Head1(k) /\ routes[k][1].pc = pc
GoTo(k, pc) == routes' = [routes EXCEPT ![k][1].pc = pc]
Leave(k) == routes' = [routes EXCEPT ![k] = Tail(@)]

Dispatching == <<pending, links, slot, running, waiters, turn, active, stops, lingering>>

\* A routed event that was stopped, was consumed or is held for an operator.
Done(k) ==
  /\ Leave(k) /\ MarkHandled({routes[k][1].m})

\* mutant of StaleNow: the second look at the stop epoch is forgotten
StaleAtStart(k) == routes[k][1].stale /\ routes[k][1].pc = "check"
StaleNow(k) == routes[k][1].stale

CheckRoute(k) ==
  /\ Routing(k, "check")
  /\ \/ /\ StaleNow(k) /\ Done(k)
     \/ /\ ~StaleNow(k)
        /\ IF Event[routes[k][1].m].kind = "synthetic" THEN GoTo(k, "enqueue")
                                                       ELSE GoTo(k, "journal")
        /\ UNCHANGED client
     \/ \* the button's decision version is not the current one
        /\ ~StaleNow(k) /\ Event[routes[k][1].m].kind = "card" /\ Done(k)
  /\ UNCHANGED <<Dispatching, journal, fed, cancelled, budget>>

\* mutant of AlreadyDelivered: only an acknowledged delivery counts
Acknowledged(m) == journal[m] = "accepted"
AlreadyDelivered(m) == journal[m] \notin {"none", "rejected"}

LookUpDelivery(k) ==
  /\ Routing(k, "journal")
  /\ LET r == routes[k][1]  s == SessionKey(r.m) IN
     IF AlreadyDelivered(r.m) THEN Done(k)
     ELSE /\ IF Steerable /\ active[s] # None
             THEN routes' = [routes EXCEPT ![k][1].pc = "put", ![k][1].live = TRUE]
             ELSE GoTo(k, "enqueue")
          /\ UNCHANGED client
  /\ UNCHANGED <<Dispatching, journal, fed, cancelled, budget>>

\* Any journal or file error holds the event: a send may already have
\* happened, so it is handled and left to an operator.
HoldRoute(k) ==
  /\ Head1(k) /\ Fault
  /\ LET r == routes[k][1] IN
     /\ \/ r.pc \in {"journal", "put", "prepare"}
        \/ r.pc = "check" /\ Event[r.m].kind = "card"
     /\ \/ UNCHANGED journal
        \/ r.pc = "prepare" /\ journal' = [journal EXCEPT ![r.m] = "rejected"]
  /\ Done(k)
  /\ UNCHANGED <<Dispatching, fed, cancelled>>

\* mutant of PutSending: the record is only written with the result
PutNothing(k) ==
  /\ Routing(k, "put") /\ GoTo(k, "prepare")
  /\ UNCHANGED <<Dispatching, client, journal, fed, cancelled, budget>>
PutSending(k) ==
  /\ Routing(k, "put")
  /\ journal' = [journal EXCEPT ![routes[k][1].m] = "sending"]
  /\ GoTo(k, "prepare")
  /\ UNCHANGED <<Dispatching, client, fed, cancelled, budget>>

Prepare(k) ==
  /\ Routing(k, "prepare") /\ GoTo(k, "steer")
  /\ UNCHANGED <<Dispatching, client, journal, fed, cancelled, budget>>

\* steer() answers; a handle whose turn is over can only refuse or not know.
Steer(k) ==
  /\ Routing(k, "steer")
  /\ \E res \in Results \ {"none"} :
       /\ res = "accepted" => routes[k][1].live
       /\ routes' = [routes EXCEPT ![k][1].pc = "ack", ![k][1].result = res]
       /\ fed' \in {fed \cup (IF res = "rejected" THEN {} ELSE {routes[k][1].m})}
  /\ UNCHANGED <<Dispatching, client, journal, cancelled, budget>>

\* The result is journalled; a rejection falls back to the queue.
Acknowledge(k) ==
  /\ Routing(k, "ack")
  /\ LET r == routes[k][1] IN
     /\ journal' = [journal EXCEPT ![r.m] = r.result]
     /\ IF r.result = "rejected" THEN GoTo(k, "enqueue") /\ UNCHANGED client
                                 ELSE Done(k)
  /\ UNCHANGED <<Dispatching, fed, cancelled, budget>>

\* "sending" still blocks a replay when the acknowledgement is not written.
AcknowledgeFails(k) ==
  /\ Routing(k, "ack") /\ Fault /\ Done(k)
  /\ UNCHANGED <<Dispatching, journal, fed, cancelled>>

Enqueue(k) ==
  /\ Routing(k, "enqueue")
  /\ IF StaleNow(k)
     THEN Done(k) /\ UNCHANGED <<pending, links>>
     ELSE /\ Leave(k)
          /\ pending' = [pending EXCEPT ![k] = Append(@, routes[k][1].m)]
          /\ links' = [links EXCEPT ![k] = @ + 1]
          /\ UNCHANGED client
  /\ UNCHANGED <<slot, running, waiters, turn, active, stops, lingering,
                 journal, fed, cancelled, budget>>

-----------------------------------------------------------------------------
(* The per-key chain of drains under the bot's semaphore.                  *)

Routers == <<client, routes, journal, fed, cancelled, budget>>

Acquire(k) ==
  /\ links[k] > 0 /\ slot[k] = "none"
  /\ IF running < MaxConcurrent
     THEN slot' = [slot EXCEPT ![k] = "held"] /\ running' = running + 1
          /\ UNCHANGED waiters
     ELSE slot' = [slot EXCEPT ![k] = "waiting"] /\ waiters' = Append(waiters, k)
          /\ UNCHANGED running
  /\ UNCHANGED <<Routers, pending, links, turn, active, stops, lingering>>

\* mutant of ReleaseSlot: the slot is freed and nobody is woken
ReleaseUnheard(k) ==
  slot' = [slot EXCEPT ![k] = "none"] /\ running' = running - 1 /\ UNCHANGED waiters
\* mutant of ReleaseSlot: the count falls although the slot was handed on
ReleaseTwice(k) ==
  /\ running' = running - 1
  /\ IF waiters # << >>
     THEN /\ slot' = [slot EXCEPT ![k] = "none", ![waiters[1]] = "held"]
          /\ waiters' = Tail(waiters)
     ELSE slot' = [slot EXCEPT ![k] = "none"] /\ UNCHANGED waiters
\* The slot goes to the next waiter; running only falls when none waits.
ReleaseSlot(k) ==
  IF waiters # << >>
  THEN /\ slot' = [slot EXCEPT ![k] = "none", ![waiters[1]] = "held"]
       /\ waiters' = Tail(waiters) /\ UNCHANGED running
  ELSE slot' = [slot EXCEPT ![k] = "none"] /\ running' = running - 1 /\ UNCHANGED waiters

EndLink(k) == ReleaseSlot(k) /\ links' = [links EXCEPT ![k] = @ - 1]

\* The drain absorbs the follow-ups that may ride in the first one's turn.
Absorbed(q) ==
  CHOOSE n \in 1 .. Len(q) :
    /\ \A i \in 2 .. n : CanCoalesce(q[1], q[i])
    /\ n = Len(q) \/ ~CanCoalesce(q[1], q[n + 1])

\* mutant of Taken: the absorbed follow-ups are not carried by the turn
TakenAlone(q) == <<q[1]>>
Taken(q) == SubSeq(q, 1, Absorbed(q))

Drain(k) ==
  /\ slot[k] = "held" /\ turn[k].phase = "none"
  /\ LET q == pending[k] IN
     IF q = << >>
     THEN EndLink(k) /\ UNCHANGED <<pending, turn>>    \* absorbed earlier
     ELSE /\ turn' = [turn EXCEPT ![k] = [NoTurn EXCEPT !.phase = "probe",
                                            !.msgs = Taken(q)]]
          /\ pending' = [pending EXCEPT ![k] = SubSeq(q, Absorbed(q) + 1, Len(q))]
          /\ UNCHANGED <<links, slot, running, waiters>>
  /\ UNCHANGED <<Routers, active, stops, lingering>>

-----------------------------------------------------------------------------
(* handleOne.                                                              *)

At(k, phase) == turn[k].phase = phase
Primary(k) == turn[k].msgs[1]

\* A quote reply on a shared task card moves its turn to the card's session;
\* the lookup may fail, and then it does not.
Probe(k) ==
  /\ At(k, "probe")
  /\ \E s \in {SessionKey(Primary(k))} \cup
              (IF Event[Primary(k)].root = None
               THEN {Event[Primary(k)].parent} \cap TaskCards ELSE {}) :
       turn' = [turn EXCEPT ![k].phase = "setup", ![k].session = s]
  /\ UNCHANGED <<Routers, pending, links, slot, running, waiters, active, stops, lingering>>

SetUp(k) ==
  /\ At(k, "setup")
  /\ turn' = [turn EXCEPT ![k].phase = "ready"]
  /\ UNCHANGED <<Routers, pending, links, slot, running, waiters, active, stops, lingering>>

\* A repository, a workspace file or the prompt: the turn fails and settles.
SetUpFails(k) ==
  /\ turn[k].phase \in {"probe", "setup", "ready", "again", "retry"} /\ Fault
  /\ turn' = [turn EXCEPT ![k].phase = "failing"]
  /\ UNCHANGED <<client, routes, journal, fed, cancelled, pending, links, slot,
                 running, waiters, active, stops, lingering>>

\* mutant of Unconfirmed: a finished turn's child counts as dead
NoneUnconfirmed(s) == {}
\* The set of processes is memory: a child left by a crash is not in it.
Unconfirmed(s) == {x \in lingering : x[1] = s /\ x[2] # None}

\* Fail closed: while the session's last child is not known dead the turn is
\* refused.
RefuseTurn(k) ==
  /\ turn[k].phase \in {"ready", "retry"} /\ Unconfirmed(turn[k].session) # {}
  /\ turn' = [turn EXCEPT ![k].phase = "refused"]
  /\ UNCHANGED <<Routers, pending, links, slot, running, waiters, active, stops, lingering>>

\* createRunner().run(), then the live-input and kill hooks are registered.
\* A /stop held for a retry's runner stops it at once.
Spawn(k) ==
  /\ turn[k].phase \in {"ready", "retry"} /\ Unconfirmed(turn[k].session) = {}
  /\ turn' = [turn EXCEPT ![k].phase = "run", ![k].stopped = turn[k].hold]
  /\ active' = [active EXCEPT ![turn[k].session] = IF turn[k].hold THEN None ELSE k]
  /\ stops' = stops \cup {k}
  /\ UNCHANGED <<Routers, pending, links, slot, running, waiters, lingering>>

\* The handle is gone: a delivery that captured it can no longer be accepted.
Orphaned(s) ==
  [k \in Queues |-> [i \in DOMAIN routes[k] |->
     IF SessionKey(routes[k][i].m) = s
     THEN [routes[k][i] EXCEPT !.live = FALSE] ELSE routes[k][i]]]

Deactivated(k) ==
  IF active[turn[k].session] = k THEN [active EXCEPT ![turn[k].session] = None] ELSE active

\* handle.done settles: the hooks go, and a cold child may still be exiting.
\* Of a stopped turn it resolves, but the codex one-shot rejects when the error
\* of a request comes before the exit.
RunEnds(k) ==
  /\ At(k, "run")
  /\ routes' = Orphaned(turn[k].session)
  /\ active' = Deactivated(k)
  /\ lingering' = lingering \cup (IF Cold THEN {<<turn[k].session, k>>} ELSE {})
  /\ \/ turn' = [turn EXCEPT ![k].phase = "finalize"] /\ stops' = stops \ {k}
        /\ UNCHANGED budget
     \/ /\ turn[k].stopped => Cold            \* done is rejected
        /\ Fault
        /\ turn' = [turn EXCEPT ![k].phase = "failing"] /\ stops' = stops \ {k}
     \/ \* the resumed session is gone: once more, with a fresh one
        /\ turn[k].stopped => Cold
        /\ turn[k].attempt = 1 /\ Fault
        /\ turn' = [turn EXCEPT ![k].phase = "again", ![k].attempt = 2]
        /\ stops' = stops \ {k}
  /\ UNCHANGED <<client, pending, links, slot, running, waiters, journal, fed, cancelled>>

\* The session is marked for a fresh start; a model-first turn then waits for
\* its surfaces, and holds a /stop that comes meanwhile for the next runner.
TryAgain(k) ==
  /\ At(k, "again") /\ turn' = [turn EXCEPT ![k].phase = "retry"]
  /\ stops' = IF ModelFirst THEN stops \cup {k} ELSE stops
  /\ UNCHANGED <<Routers, pending, links, slot, running, waiters, active, lingering>>

Settled(k) ==
  /\ turn' = [turn EXCEPT ![k].phase = "closing"]
  /\ UNCHANGED <<routes, pending, links, slot, running, waiters, active, stops,
                 lingering, journal, fed, cancelled, budget>>

\* mutant of SettleOk: only the message that opened the turn is settled
SettlePrimary(k) == MarkHandled({Primary(k)})
SettleOk(k) == MarkHandled(InTurn(k))

Finalize(k) == At(k, "finalize") /\ SettleOk(k) /\ Settled(k)

\* The session write or the last card failed after the agent ran.
FinalizeFails(k) ==
  /\ At(k, "finalize") /\ Fault
  /\ turn' = [turn EXCEPT ![k].phase = "failing"]
  /\ UNCHANGED <<client, routes, journal, fed, cancelled, pending, links, slot,
                 running, waiters, active, stops, lingering>>

\* The failure path, a few awaits later: the messages are released for another
\* delivery, those of a refused turn are handled, not replayed.
FailTurn(k) ==
  /\ \/ At(k, "failing") /\ MarkUnhandled(InTurn(k))
     \/ At(k, "refused") /\ MarkHandled(InTurn(k))
  /\ Settled(k)

\* The last records and the failure card; then the drain link ends.
CloseTurn(k) ==
  /\ At(k, "closing")
  /\ turn' = [turn EXCEPT ![k] = NoTurn] /\ stops' = stops \ {k} /\ EndLink(k)
  /\ UNCHANGED <<Routers, pending, active, lingering>>

ChildExits(x) ==
  /\ x \in lingering /\ lingering' = lingering \ {x}
  /\ UNCHANGED <<Routers, pending, links, slot, running, waiters, turn, active, stops>>

-----------------------------------------------------------------------------
(* The process dies and starts again: what it had not marked handled comes *)
(* back through the client's gap-fill, also what a /stop caught while it   *)
(* was still being routed; the journal stays.  A one-shot child does not   *)
(* die with the bridge.                                                    *)
\* The sessions some one-shot child may be writing.
ChildOf == {turn[k].session : k \in {j \in Queues : Cold /\ At(j, "run")}}
             \cup {x[1] : x \in lingering}

Crash ==
  /\ Spend("crashes", MaxCrashes)
  /\ routes' = [k \in Queues |-> << >>] /\ pending' = [k \in Queues |-> << >>]
  /\ links' = [k \in Queues |-> 0] /\ slot' = [k \in Queues |-> "none"]
  /\ running' = 0 /\ waiters' = << >>
  /\ turn' = [k \in Queues |-> NoTurn]
  /\ active' = [s \in Sessions |-> None] /\ stops' = {} /\ lingering' = ChildOf \X {None}
  /\ client' = [m \in Messages |-> IF client[m] = "inFlight" THEN "away" ELSE client[m]]
  /\ cancelled' = {m \in cancelled : client[m] = "handled"}
  /\ UNCHANGED <<journal, fed>>

Progress ==
  \E k \in Queues :
    \/ CheckRoute(k) \/ LookUpDelivery(k) \/ PutSending(k) \/ Prepare(k)
    \/ Steer(k) \/ Acknowledge(k) \/ Enqueue(k)
    \/ Acquire(k) \/ Drain(k) \/ Probe(k) \/ SetUp(k) \/ Spawn(k) \/ RefuseTurn(k)
    \/ RunEnds(k) \/ TryAgain(k) \/ Finalize(k) \/ FailTurn(k)
    \/ CloseTurn(k)

Troubles ==
  \/ \E k \in Queues : \/ HoldRoute(k) \/ AcknowledgeFails(k) \/ SetUpFails(k)
                       \/ FinalizeFails(k)
  \/ Crash

Next ==
  \/ \E m \in Messages : Receive(m) \/ Stop(m)
  \/ Progress \/ Troubles
  \/ \E x \in lingering : ChildExits(x)

Spec == Init /\ [][Next]_vars

\* Node runs every ready continuation; journal writes, lookups and the
\* platform's calls return; an agent's turn ends (no deadline is set by
\* default, so this is an assumption about the agent, or its user's /stop).
FairSpec == Spec /\ WF_vars(Progress)

-----------------------------------------------------------------------------
(* What must hold.                                                         *)

Owners(m) ==
  Cardinality({k \in Queues : m \in Routed(k)}) +
  Cardinality({k \in Queues : m \in Range(pending[k])}) +
  Cardinality({k \in Queues : m \in InTurn(k)})

\* A message in flight is in exactly one place that will settle it, and no
\* message outside flight is left where it could start a turn: the client
\* drops a message for good when its owner forgets it, and runs it twice when
\* two have it (the settle guard of handleOne, the routing chain, /stop).
NoneStranded == \A m \in Messages : Owners(m) = IF client[m] = "inFlight" THEN 1 ELSE 0

\* The semaphore counts exactly the keys that hold a slot, never hands one out
\* twice, and nobody waits while a slot is free (acquire and release).
SlotsAccounted ==
  /\ running = Cardinality({k \in Queues : slot[k] = "held"})
  /\ waiters # << >> => running = MaxConcurrent
  /\ \A k \in Queues :
       Cardinality({i \in DOMAIN waiters : waiters[i] = k}) = IF slot[k] = "waiting" THEN 1 ELSE 0

\* One writer per session: two turns never run on one session at a time, and
\* none runs while a child of this bridge's last turn on the session may still
\* be alive (the queue key "must SERIALIZE every event that can end up on the
\* same session").  A one-shot child that outlived a crash of the bridge is not
\* counted: coldProcessLifetimes is memory, and nothing looks for it.
SessionExclusive ==
  /\ \A k, j \in Queues :
       At(k, "run") /\ At(j, "run") /\ k # j => turn[k].session # turn[j].session
  /\ \A k \in Queues : At(k, "run") =>
       \A x \in lingering : x[1] = turn[k].session => x[2] = None

Starts(m) ==
  \E k \in Queues : At(k, "none") /\ m \in Range(turn'[k].msgs)

\* A follow-up that a running turn may have received is never also run as a
\* turn of its own, whatever crashes, failing writes and redeliveries follow
\* (the delivery journal: "must not replay possible side effects").
InputOnce == [][\A m \in Messages : Starts(m) => m \notin fed]_vars

\* What a /stop found waiting on its key, queued or still being routed, never
\* runs afterwards ("would resurrect exactly the work the user just cancelled").
StopHolds == [][\A m \in Messages : Starts(m) => m \notin cancelled]_vars

\* Every event the loop takes is settled in the end, handled or released, with
\* any number of turns ahead of it.
EventuallySettled == \A m \in Messages : client[m] = "inFlight" ~> client[m] # "inFlight"
=============================================================================
