----------------------------- MODULE ChannelClient -----------------------------
(***************************************************************************)
(* How one bot receives messages (src/src/lark/channelClient.ts): live     *)
(* events of a WebSocket that may go down, go half-open or sleep with its  *)
(* host, local hand-offs of sibling bots, and pulls of the chat history    *)
(* after a reconnect, on the replay timer of a bot with a chat list, and   *)
(* in the discovery cycle of an open bot.  A pull asks for one chat at a   *)
(* time; the request and what is done with its answer are two steps, and   *)
(* turns, live events and other pulls come between.                        *)
(***************************************************************************)
EXTENDS Integers, FiniteSetsExt

CONSTANTS
  Msgs,         \* messages that @ the bot, or are sent to it directly
  Chats, ChatOf,
  Groups,       \* chats the chat list of a bot shows; the others are p2p
  Local,        \* messages a sibling bot's bridge posts and hands over itself
  Allowlists,   \* values of opts.allowedChatIds; {} is an open bot
  Learned,      \* values of the chats an earlier process has saved
  Slots,        \* bound of reconnect pulls at a time
  MaxTime,      \* bound of the clock
  Buffer,       \* BUFFER_MS and the look-back buffers
  Clamp,        \* the 5 minutes of MAX_GAP_FILL_WINDOW_MS
  ReplayAge,    \* UNRESOLVED_WINDOW_MAX_AGE_MS
  ReconnectAge, \* RECONNECT_GAP_FILL_MAX_AGE_MS
  SuspendDetect,\* LIVENESS_SUSPEND_DETECT_MS
  Interval,     \* resolveOpenChatDiscoveryMs
  Bootstrap,    \* OPEN_CHAT_DISCOVERY_BOOTSTRAP_LOOKBACK_MS
  MaxBackoff,   \* OPEN_CHAT_DISCOVERY_MAX_BACKOFF_CYCLES
  MaxAttempts,  \* MAX_MESSAGE_ATTEMPTS
  MaxWindows,   \* UNRESOLVED_WINDOW_MAX_CHATS
  GoneStrikes,  \* CHAT_ACCESS_GONE_UNTRACK_AFTER
  Budgets,      \* bounds of one behaviour: its instants, its messages, the times the
                \* connection is lost or the host sleeps, the requests that fail or end early
  None

ASSUME ChannelAssumption ==
  /\ ChatOf \in [Msgs -> Chats] /\ Groups \subseteq Chats /\ Local \subseteq Msgs
  /\ Allowlists \subseteq SUBSET Chats /\ Learned \subseteq SUBSET Chats
  /\ {MaxTime, Buffer, Clamp, ReplayAge, ReconnectAge, SuspendDetect, Interval, Bootstrap} \subseteq Nat
  /\ Budgets \subseteq [time : 0..MaxTime, posts : Nat, outages : Nat, trouble : Nat]
  /\ {MaxBackoff, MaxAttempts, MaxWindows, GoneStrikes} \subseteq Nat \ {0}
  /\ None \notin Int /\ "timer" \notin Slots

Times == 0..MaxTime
Pulls == Slots \cup {"timer"}   \* the timer is the replay or the discovery cycle

VARIABLES
  clock, sent,    \* the time, and when each message was posted
  link,           \* the connection: up, half (open for the SDK only) or down
  awake,          \* the host is not suspended
  wire,           \* events on their way: the live copy and the local hand-off
  health,         \* lastDisconnectAt, lastHealthyAt, blindSince and the sampler's ticks
  allowed,        \* opts.allowedChatIds
  inFlight, seen, attempts,   \* inFlightMessageIds, seenMessageIds, messageAttempts
  windows,        \* unresolvedGapWindowByChat
  strikes,        \* chatAccessGoneCountByChat
  tracked,        \* recentlySeenChatIds
  disc,           \* openChatDiscoveryBootstrapped, ...Failures and ...Skips
  pull,           \* the running gapFill() calls
  runs,           \* dispatches of each message, ever
  owed,           \* messages released for replay and not yet dispatched again
  blindFrom,      \* since when nothing is delivered live
  unnoticed,      \* a sample took the blind connection for healthy
  budget          \* what is left of one of Budgets

world == <<clock, sent, link, awake, wire, blindFrom>>
book == <<inFlight, seen, attempts, runs>>
vars == <<clock, sent, link, awake, wire, health, allowed, inFlight, seen, attempts, windows,
          strikes, tracked, disc, pull, runs, owed, blindFrom, unnoticed, budget>>

Time == Times \cup {None}
Health == [disconnect : Time, healthy : Times, blindSince : Time, tick : Time, before : Time]
Pull == [phase : {"idle", "list", "next", "asked"}, start : Times, until : Nat,
         todo : SUBSET Chats, chat : Chats \cup {None}, got : SUBSET Msgs, whole : BOOLEAN]
IdlePull == [phase |-> "idle", start |-> 0, until |-> 0, todo |-> {}, chat |-> None,
             got |-> {}, whole |-> FALSE]

Open == allowed = {}

Init ==
  /\ clock = 0 /\ sent = [m \in Msgs |-> None]
  /\ link = "up" /\ awake = TRUE /\ wire = {}
  /\ health = [disconnect |-> None, healthy |-> 0, blindSince |-> None,
               tick |-> None, before |-> None]
  /\ allowed \in Allowlists
  /\ inFlight = {} /\ seen = {} /\ attempts = [m \in Msgs |-> 0]
  /\ windows = [c \in Chats |-> None] /\ strikes = [c \in Chats |-> 0]
  /\ tracked \in Learned
  /\ disc = [booted |-> FALSE, failures |-> 0, skips |-> 0]
  /\ pull = [p \in Pulls |-> IdlePull]
  /\ runs = [m \in Msgs |-> 0] /\ owed = {}
  /\ blindFrom = None /\ unnoticed = FALSE /\ budget \in Budgets

Spend(what) == budget[what] > 0 /\ budget' = [budget EXCEPT ![what] = @ - 1]

-----------------------------------------------------------------------------
(* The messages, the connection and the host.                              *)

\* A live event arrives before the next sample, which comes in time.
Elapse ==
  /\ Spend("time") /\ clock' = clock + 1
  /\ awake => wire = {} /\ (clock = 0 \/ health.tick = clock)
  /\ UNCHANGED <<sent, link, awake, wire, health, allowed, book, windows, strikes, tracked,
                 disc, pull, owed, blindFrom, unnoticed>>

\* The SDK's policy passes the groups of the list and every p2p chat.
Delivered(c) == Open \/ c \in allowed \cup (Chats \ Groups)

Post(m) ==
  /\ m \in Local => awake
  /\ sent[m] = None /\ Spend("posts") /\ sent' = [sent EXCEPT ![m] = clock]
  /\ wire' = wire \cup (IF link = "up" /\ Delivered(ChatOf[m]) THEN {<<m, "live">>} ELSE {})
                  \cup (IF m \in Local THEN {<<m, "local">>} ELSE {})
  /\ UNCHANGED <<clock, link, awake, health, allowed, book, windows, strikes, tracked,
                 disc, pull, owed, blindFrom, unnoticed>>

Lose(to) ==
  /\ link = "up" /\ link' = to /\ blindFrom' = clock /\ wire' = {e \in wire : e[2] = "local"}

GoHalfOpen ==
  /\ awake /\ Lose("half") /\ Spend("outages")
  /\ UNCHANGED <<clock, sent, awake, health, allowed, book, windows, strikes, tracked,
                 disc, pull, owed, unnoticed>>

Suspend ==
  /\ awake /\ awake' = FALSE /\ Spend("outages")
  /\ \/ Lose("half")
     \/ link # "up" /\ UNCHANGED <<link, blindFrom, wire>>
  /\ UNCHANGED <<clock, sent, health, allowed, book, windows, strikes, tracked,
                 disc, pull, owed, unnoticed>>

Resume ==
  /\ ~awake /\ awake' = TRUE
  /\ UNCHANGED <<clock, sent, link, wire, health, allowed, book, windows, strikes, tracked,
                 disc, pull, owed, blindFrom, unnoticed, budget>>

-----------------------------------------------------------------------------
(* Dispatching, and the handler's verdict.                                 *)

\* The two-set guard, and the counter of the poison-message guard.
DispatchAnyway(S) == S   \* mutant
Fresh(S) == S \ (seen \cup inFlight)

Dispatch(S) ==
  /\ inFlight' = inFlight \cup S
  /\ attempts' = [m \in Msgs |-> IF m \in S THEN attempts[m] + 1 ELSE attempts[m]]
  /\ runs' = [m \in Msgs |-> IF m \in S THEN runs[m] + 1 ELSE runs[m]]
  /\ UNCHANGED seen

\* channel.on("message") and ingestLocalEvent: the same bookkeeping.
Arrive(e) ==
  /\ awake /\ e \in wire /\ wire' = wire \ {e}
  /\ tracked' = tracked \cup {ChatOf[e[1]]}
  /\ strikes' = [strikes EXCEPT ![ChatOf[e[1]]] = 0]
  /\ Dispatch(Fresh({e[1]})) /\ owed' = owed \ {e[1]}
  /\ UNCHANGED <<clock, sent, link, awake, health, allowed, windows, disc, pull,
                 blindFrom, unnoticed, budget>>

MarkHandled(m) ==
  /\ awake /\ m \in inFlight /\ inFlight' = inFlight \ {m}
  /\ attempts' = [attempts EXCEPT ![m] = 0] /\ seen' = seen \cup {m}
  /\ UNCHANGED <<world, health, allowed, windows, strikes, tracked, disc, pull, runs, owed,
                 unnoticed, budget>>

\* recordUnresolvedGapWindow: the oldest start per chat; at the cap the chat
\* with the newest window goes, or the new one is not kept.
Newest == CHOOSE c \in Chats : /\ windows[c] # None
                               /\ \A d \in Chats : windows[d] # None => windows[d] <= windows[c]
Full == Cardinality({c \in Chats : windows[c] # None}) >= MaxWindows

\* mutant
RecordLatest(c, start) ==
  IF windows[c] # None \/ ~Full THEN [windows EXCEPT ![c] = start]
  ELSE IF windows[Newest] > start THEN [windows EXCEPT ![Newest] = None, ![c] = start]
  ELSE windows
Recorded(c, start) ==
  IF windows[c] # None
  THEN IF windows[c] <= start THEN windows ELSE [windows EXCEPT ![c] = start]
  ELSE IF ~Full THEN [windows EXCEPT ![c] = start]
  ELSE IF windows[Newest] > start THEN [windows EXCEPT ![Newest] = None, ![c] = start]
  ELSE windows

\* Messages whose chat has no window after a step that drops windows.
Forgotten(ws) == {m \in Msgs : ws[ChatOf[m]] = None}

GaveUp(m) == attempts[m] >= MaxAttempts

MarkUnhandled(m, replay) ==
  /\ awake /\ m \in inFlight /\ inFlight' = inFlight \ {m}
  /\ IF GaveUp(m)
     THEN /\ seen' = seen \cup {m} /\ attempts' = [attempts EXCEPT ![m] = 0]
          /\ UNCHANGED <<windows, owed>>
     ELSE /\ UNCHANGED <<seen, attempts>>
          /\ windows' = IF replay THEN Recorded(ChatOf[m], sent[m]) ELSE windows
          /\ owed' = IF replay THEN (owed \cup {m}) \ Forgotten(windows') ELSE owed
  /\ UNCHANGED <<world, health, allowed, strikes, tracked, disc, pull, runs, unnoticed, budget>>

-----------------------------------------------------------------------------
(* gapFill.                                                                *)

\* pruneUnresolvedGapWindows.
Pruned ==
  [c \in Chats |->
     IF windows[c] # None /\ windows[c] < clock - Max({ReplayAge, ReconnectAge})
     THEN None ELSE windows[c]]

\* --start of a pull: the look-back reaches the oldest window of a chat that
\* is pulled, as far as the ceiling lets it.
IgnoreWindows(from, chats, floor, maxAge) ==   \* mutant
  Max({0, from - Buffer, clock - Min({Max({Clamp, floor}), maxAge})})
WindowStart(from, chats, floor, maxAge) ==
  LET old == {Pruned[c] : c \in chats} \ {None}
      ceiling == IF old # {} THEN maxAge ELSE Min({Max({Clamp, floor}), maxAge})
  IN Max({0, Min({from} \cup old) - Buffer, clock - ceiling})

\* The part of gapFill before its first await.
BeginPull(p, from, chats, floor, maxAge) ==
  /\ windows' = Pruned /\ owed' = owed \ Forgotten(Pruned)
  /\ pull' = [pull EXCEPT ![p] =
       IF chats = {} THEN IdlePull
       ELSE [IdlePull EXCEPT !.phase = "next", !.todo = chats, !.until = clock + Buffer,
                             !.start = WindowStart(from, chats, floor, maxAge)]]

Visible(q, c) ==
  {m \in Msgs : ChatOf[m] = c /\ sent[m] # None /\ sent[m] >= q.start /\ sent[m] <= q.until}

\* The pages of one chat, oldest first; a page cap, the run's page budget or an
\* answer that does not parse ends them early.
AskChat(p, c, got) ==
  /\ awake /\ pull[p].phase = "next" /\ c \in pull[p].todo
  /\ LET all == Visible(pull[p], c) IN
     /\ got \subseteq all /\ \A m \in got, n \in all \ got : sent[m] <= sent[n]
     /\ pull' = [pull EXCEPT ![p].phase = "asked", ![p].chat = c, ![p].got = got,
                             ![p].whole = got = all]
     /\ IF got = all THEN UNCHANGED budget ELSE Spend("trouble")
  /\ UNCHANGED <<world, health, allowed, book, windows, strikes, tracked, disc, owed, unnoticed>>

NextChat(q) == [IdlePull EXCEPT !.phase = "next", !.todo = q.todo \ {q.chat},
                                !.start = q.start, !.until = q.until]

\* resolveUnresolvedGapWindow: only if the pull began at or before the window.
Resolved(q) ==
  IF windows[q.chat] # None /\ q.start <= windows[q.chat]
  THEN [windows EXCEPT ![q.chat] = None] ELSE windows

\* Messages a whole pull could not see: posted after it asked, or after its --end.
TooLate(q) == {m \in owed : ChatOf[m] = q.chat /\ m \notin q.got /\ sent[m] >= q.start}

TakeChat(p) ==
  LET q == pull[p] IN
  /\ awake /\ q.phase = "asked"
  /\ Dispatch(Fresh(q.got))
  /\ windows' = IF q.whole THEN Resolved(q) ELSE Recorded(q.chat, q.start)
  /\ owed' = (owed \ Fresh(q.got))
               \ IF q.whole THEN TooLate(q) \cap Forgotten(windows') ELSE Forgotten(windows')
  /\ strikes' = [strikes EXCEPT ![q.chat] = 0]
  /\ pull' = [pull EXCEPT ![p] = NextChat(q)]
  /\ UNCHANGED <<world, health, allowed, tracked, disc, unnoticed, budget>>

\* Every attempt failed, or the run has no pages left.
ChatFails(p, c) ==
  /\ awake /\ pull[p].phase = "next" /\ c \in pull[p].todo
  /\ Spend("trouble")
  /\ windows' = Recorded(c, pull[p].start) /\ owed' = owed \ Forgotten(windows')
  /\ pull' = [pull EXCEPT ![p].todo = @ \ {c}]
  /\ UNCHANGED <<world, health, allowed, book, strikes, tracked, disc, unnoticed>>

\* noteChatAccessGone: the bot was removed from the chat.
ChatGone(p, c) ==
  /\ awake /\ pull[p].phase = "next" /\ c \in pull[p].todo
  /\ Spend("trouble")
  /\ windows' = [windows EXCEPT ![c] = None] /\ owed' = owed \ Forgotten(windows')
  /\ LET gone == strikes[c] + 1 >= GoneStrikes IN
     /\ strikes' = [strikes EXCEPT ![c] = IF gone THEN 0 ELSE @ + 1]
     /\ tracked' = IF gone THEN tracked \ {c} ELSE tracked
  /\ pull' = [pull EXCEPT ![p].todo = @ \ {c}]
  /\ UNCHANGED <<world, health, allowed, book, disc, unnoticed>>

\* A discovery cycle that got through resets its back-off.
EndPull(p) ==
  /\ awake /\ pull[p].phase = "next" /\ pull[p].todo = {}
  /\ pull' = [pull EXCEPT ![p] = IdlePull]
  /\ disc' = IF p = "timer" /\ Open THEN [disc EXCEPT !.failures = 0, !.skips = 0] ELSE disc
  /\ UNCHANGED <<world, health, allowed, book, windows, strikes, tracked, owed, unnoticed, budget>>

-----------------------------------------------------------------------------
(* What starts a pull.                                                     *)

Reconnecting ==
  /\ awake /\ health' = [health EXCEPT !.disconnect = clock]
  /\ \/ Lose("down") /\ Spend("outages")
     \/ link = "half" /\ link' = "down" /\ UNCHANGED <<blindFrom, wire, budget>>
  /\ UNCHANGED <<clock, sent, awake, allowed, book, windows, strikes, tracked, disc, pull,
                 owed, unnoticed>>

HealthyStart ==
  Min({health.disconnect,
       IF health.blindSince # None THEN health.blindSince ELSE health.healthy})

Reconnected(p) ==
  /\ awake /\ link = "down" /\ link' = "up" /\ p \in Slots /\ pull[p].phase = "idle"
  /\ BeginPull(p, HealthyStart, allowed \cup tracked, clock - HealthyStart + Buffer, ReconnectAge)
  /\ health' = [health EXCEPT !.blindSince = None, !.healthy = clock]
  /\ blindFrom' = None /\ unnoticed' = FALSE
  /\ UNCHANGED <<clock, sent, awake, wire, allowed, book, strikes, tracked, disc, budget>>

\* A sample in time, while the connection has been blind since before the SDK
\* said so, if it has: the host did not sleep, or for less than the sampler
\* tells, or before the first sample.
HiddenFromSampler ==
  /\ link = "half" \/ (link = "down" /\ health.disconnect > blindFrom)
  /\ health.blindSince = None
  /\ health.tick = None \/ clock <= health.tick + SuspendDetect

\* startLivenessSampler: a late tick is a suspend, whose anchor is kept.
Late == health.tick # None /\ clock - health.tick > SuspendDetect

\* mutant
MoveAnchor == IF health.before # None THEN health.before ELSE health.healthy
Anchor ==
  IF health.blindSince # None THEN health.blindSince
  ELSE IF health.before # None THEN health.before ELSE health.healthy

Sample ==
  /\ awake /\ health.tick # clock /\ clock > 0
  /\ health' = IF Late THEN [health EXCEPT !.tick = clock, !.blindSince = Anchor]
               ELSE [health EXCEPT !.tick = clock, !.before = clock,
                       !.healthy = IF health.blindSince = None THEN clock ELSE @]
  /\ unnoticed' = (unnoticed \/ HiddenFromSampler)
  /\ UNCHANGED <<world, allowed, book, windows, strikes, tracked, disc, pull, owed, budget>>

\* replayUnresolvedWindows.
Replay ==
  /\ awake /\ ~Open /\ pull["timer"].phase = "idle"
  /\ \E c \in Chats : windows[c] # None
  /\ BeginPull("timer", clock, {c \in Chats : Pruned[c] # None}, 0, ReplayAge)
  /\ UNCHANGED <<world, health, allowed, book, strikes, tracked, disc, unnoticed, budget>>

\* discoverOpenChatsAndGapFill, up to the chat list's answer.
Discover ==
  /\ awake /\ Open /\ pull["timer"].phase = "idle"
  /\ IF disc.skips > 0
     THEN disc' = [disc EXCEPT !.skips = @ - 1] /\ UNCHANGED pull
     ELSE pull' = [pull EXCEPT !["timer"].phase = "list"] /\ UNCHANGED disc
  /\ UNCHANGED <<world, health, allowed, book, windows, strikes, tracked, owed, unnoticed, budget>>

Learn(listed) ==
  /\ tracked' = tracked \cup listed
  /\ strikes' = [c \in Chats |-> IF c \in listed THEN 0 ELSE strikes[c]]

\* A later page of the list fails: what the earlier ones showed is learned.
DiscoverFails(listed) ==
  /\ awake /\ pull["timer"].phase = "list" /\ Learn(listed)
  /\ Spend("trouble")
  /\ LET n == Min({disc.failures + 1, MaxBackoff}) IN
     disc' = [disc EXCEPT !.failures = n, !.skips = 2 ^ (n - 1)]
  /\ pull' = [pull EXCEPT !["timer"] = IdlePull]
  /\ UNCHANGED <<world, health, allowed, book, windows, owed, unnoticed>>

\* The first cycle pulls every chat, later ones the new and the unresolved.
DiscoverLists(listed) ==
  /\ awake /\ pull["timer"].phase = "list" /\ Learn(listed)
  /\ LET targets == IF disc.booted
                    THEN {c \in listed : c \notin tracked \/ windows[c] # None} ELSE listed
         back == IF disc.booted THEN Interval + Buffer ELSE Bootstrap
     IN IF targets = {}
        THEN /\ pull' = [pull EXCEPT !["timer"] = IdlePull]
             /\ disc' = [booted |-> TRUE, failures |-> 0, skips |-> 0]
             /\ UNCHANGED <<windows, owed>>
        ELSE /\ BeginPull("timer", clock - back, targets,
                          IF disc.booted THEN back ELSE 0, ReplayAge)
             /\ disc' = [disc EXCEPT !.booted = TRUE]
  /\ UNCHANGED <<world, health, allowed, book, unnoticed, budget>>

-----------------------------------------------------------------------------
Next ==
  \/ Elapse \/ GoHalfOpen \/ Suspend \/ Resume \/ Reconnecting \/ Sample \/ Replay \/ Discover
  \/ \E m \in Msgs : Post(m) \/ MarkHandled(m) \/ \E replay \in BOOLEAN : MarkUnhandled(m, replay)
  \/ \E e \in wire : Arrive(e)
  \/ \E listed \in SUBSET Groups : DiscoverFails(listed) \/ DiscoverLists(listed)
  \/ \E p \in Pulls :
       \/ Reconnected(p) \/ TakeChat(p) \/ EndPull(p)
       \/ \E c \in Chats : ChatFails(p, c) \/ ChatGone(p, c)
       \/ \E c \in Chats, got \in SUBSET Msgs : AskChat(p, c, got)

Spec == Init /\ [][Next]_vars

\* Timers of a host that is awake fire, requests are answered, and the chat list
\* shows the groups the bot is in, again and again.
Fairness ==
  /\ WF_vars(Resume) /\ WF_vars(Replay) /\ WF_vars(Discover) /\ SF_vars(DiscoverLists(Groups))
  /\ \A p \in Pulls :
       /\ WF_vars(TakeChat(p)) /\ WF_vars(EndPull(p))
       /\ WF_vars(\E c \in Chats, got \in SUBSET Msgs : AskChat(p, c, got))

FairSpec == Spec /\ Fairness

-----------------------------------------------------------------------------
TypeOK ==
  /\ clock \in Times /\ sent \in [Msgs -> Time] /\ link \in {"up", "half", "down"}
  /\ awake \in BOOLEAN /\ wire \subseteq Msgs \X {"live", "local"} /\ health \in Health
  /\ allowed \in SUBSET Chats
  /\ inFlight \subseteq Msgs /\ seen \subseteq Msgs /\ inFlight \cap seen = {}
  /\ attempts \in [Msgs -> 0..MaxAttempts] /\ runs \in [Msgs -> Nat] /\ owed \subseteq Msgs
  /\ windows \in [Chats -> Time] /\ strikes \in [Chats -> 0..GoneStrikes - 1]
  /\ tracked \subseteq Chats
  /\ disc \in [booted : BOOLEAN, failures : 0..MaxBackoff, skips : Nat]
  /\ pull \in [Pulls -> Pull]
  /\ blindFrom \in Time /\ unnoticed \in BOOLEAN
  /\ budget \in [time : 0..MaxTime, posts : Nat, outages : Nat, trouble : Nat]
  /\ Cardinality({c \in Chats : windows[c] # None}) <= MaxWindows

\* "Either way exactly one turn runs", at most MaxAttempts in all, and none
\* after the message was handled or given up, however its live copy, its local
\* hand-off and overlapping pulls race.
Promise == INSTANCE Inbox WITH
  inbox <- [m \in Msgs |-> [open |-> m \in inFlight, tries |-> runs[m], done |-> m \in seen]]
KeepsInbox == Promise!Spec

\* A message released for replay keeps an unresolved window of its chat that
\* reaches back to it until it is dispatched again, unless the window was
\* pruned, evicted, lost its chat, or resolved by a pull that had asked
\* before the message was posted.
OwedIsTracked ==
  \A m \in owed : windows[ChatOf[m]] # None /\ windows[ChatOf[m]] <= sent[m]

\* The pull of a reconnect reaches back to where the connection went blind,
\* however long the host slept, up to its ceiling, unless a sample took the
\* blind connection for healthy.
OutageIsCovered ==
  [][\A p \in Slots : Reconnected(p) /\ pull'[p].phase = "next" /\ ~unnoticed =>
       pull'[p].start <= Max({blindFrom, clock - ReconnectAge})]_vars

\* A released message does not stay owed: it is dispatched again, or gets too
\* old for a replay.
OwedIsRetried ==
  \A m \in Msgs : []<>
    (m \in owed => clock - sent[m] > ReplayAge \/ (Open /\ ChatOf[m] \notin Groups))
=============================================================================
