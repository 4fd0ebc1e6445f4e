------------------------- MODULE ChannelClient_proofs --------------------------
(***************************************************************************)
(* Four results for all messages, chats, configurations and bounds.        *)
(*                                                                         *)
(* ChannelClient implements Inbox: whatever a step of the client is, its   *)
(* books (in-flight and seen ids, attempts) change in one of three ways,   *)
(* and BookInv is inductive under these.                                   *)
(*                                                                         *)
(* A message released for a replay is behind a window (OwedInv), and a     *)
(* reconnect reaches back to where the connection went blind (AnchorInv).  *)
(***************************************************************************)
EXTENDS ChannelClient, WellFoundedInduction, TLAPS

\* A step that dispatches some messages not in flight and not seen.
Dispatched == \E X : Dispatch(Fresh(X))

\* A step that settles the turn of m.
Handled(m) ==
  /\ m \in inFlight /\ inFlight' = inFlight \ {m}
  /\ attempts' = [attempts EXCEPT ![m] = 0] /\ seen' = seen \cup {m} /\ runs' = runs

Released(m) ==
  /\ m \in inFlight /\ inFlight' = inFlight \ {m} /\ runs' = runs
  /\ IF GaveUp(m)
     THEN seen' = seen \cup {m} /\ attempts' = [attempts EXCEPT ![m] = 0]
     ELSE UNCHANGED <<seen, attempts>>

\* Until a message is settled its counter is the number of its dispatches,
\* and one that is waiting to be dispatched again has an attempt left.
CountersAgree ==
  \A m \in Msgs :
    /\ m \notin seen => attempts[m] = runs[m]
    /\ runs[m] <= MaxAttempts
    /\ m \notin seen \cup inFlight => runs[m] < MaxAttempts

BookInv ==
  /\ attempts \in [Msgs -> Nat] /\ runs \in [Msgs -> Nat]
  /\ \A m \in Msgs : ~(m \in inFlight /\ m \in seen)
  /\ CountersAgree

box == [m \in Msgs |-> [open |-> m \in inFlight, tries |-> runs[m], done |-> m \in seen]]

LEMMA BookStep ==
  ASSUME Next
  PROVE  UNCHANGED book \/ Dispatched \/ \E m \in Msgs : Handled(m) \/ Released(m)
<1>1. CASE Elapse \/ GoHalfOpen \/ Suspend \/ Resume \/ Reconnecting
  BY <1>1 DEF Elapse, GoHalfOpen, Suspend, Resume, Reconnecting
<1>2. CASE Sample \/ Replay \/ Discover
  BY <1>2 DEF Sample, Replay, Discover
<1>3. ASSUME NEW m \in Msgs, Post(m) PROVE UNCHANGED book
  BY <1>3 DEF Post
<1>4. ASSUME NEW m \in Msgs, MarkHandled(m) PROVE Handled(m)
  BY <1>4 DEF MarkHandled, Handled
<1>5. ASSUME NEW m \in Msgs, NEW replay \in BOOLEAN, MarkUnhandled(m, replay) PROVE Released(m)
  BY <1>5 DEF MarkUnhandled, Released
<1>6. ASSUME NEW e \in wire, Arrive(e) PROVE Dispatched
  BY <1>6 DEF Arrive, Dispatched
<1>7. ASSUME NEW listed \in SUBSET Groups, DiscoverFails(listed) \/ DiscoverLists(listed)
      PROVE  UNCHANGED book
  BY <1>7 DEF DiscoverFails, DiscoverLists
<1>8. ASSUME NEW p \in Pulls, TakeChat(p) PROVE Dispatched
  BY <1>8 DEF TakeChat, Dispatched
<1>9. ASSUME NEW p \in Pulls, Reconnected(p) \/ EndPull(p) PROVE UNCHANGED book
  BY <1>9 DEF Reconnected, EndPull
<1>10. ASSUME NEW p \in Pulls, NEW c \in Chats, ChatFails(p, c) \/ ChatGone(p, c)
       PROVE  UNCHANGED book
  BY <1>10 DEF ChatFails, ChatGone
<1>11. ASSUME NEW p \in Pulls, NEW c \in Chats, NEW got \in SUBSET Msgs, AskChat(p, c, got)
       PROVE  UNCHANGED book
  BY <1>11 DEF AskChat
<1>12. QED
  BY <1>1, <1>2, <1>3, <1>4, <1>5, <1>6, <1>7, <1>8, <1>9, <1>10, <1>11 DEF Next

\* A slot of the mapped state, with the truth values it stands for.
LEMMA Slot ==
  ASSUME NEW m \in Msgs, NEW o \in BOOLEAN, NEW t, NEW d \in BOOLEAN
  PROVE  /\ (m \in inFlight <=> o) /\ runs[m] = t /\ (m \in seen <=> d)
              => box[m] = [open |-> o, tries |-> t, done |-> d]
         /\ ((m \in inFlight <=> o) /\ runs[m] = t /\ (m \in seen <=> d))'
              => box'[m] = [open |-> o, tries |-> t, done |-> d]
<1>1. ASSUME (m \in inFlight <=> o) /\ runs[m] = t /\ (m \in seen <=> d)
      PROVE  box[m] = [open |-> o, tries |-> t, done |-> d]
  <2>1. (m \in inFlight) = o /\ (m \in seen) = d
    BY <1>1
  <2>2. QED BY <1>1, <2>1, Zenon DEF box
<1>2. ASSUME ((m \in inFlight <=> o) /\ runs[m] = t /\ (m \in seen <=> d))'
      PROVE  box'[m] = [open |-> o, tries |-> t, done |-> d]
  <2>1. (m \in inFlight') = o /\ (m \in seen') = d
    BY <1>2
  <2>2. QED BY <1>2, <2>1, Zenon DEF box
<1>3. QED BY <1>1, <1>2

LEMMA DispatchStep ==
  ASSUME BookInv, Dispatched
  PROVE  BookInv' /\ Promise!Next
<1>1. PICK X : Dispatch(Fresh(X))
  BY DEF Dispatched
<1>2. BookInv'
  BY <1>1, ChannelAssumption DEF BookInv, CountersAgree, Dispatch, Fresh
<1>3. ASSUME NEW m \in Msgs
      PROVE  Promise!Dispatch(m) \/ box'[m] = box[m]
  <2>1. CASE m \in Fresh(X)
    <3>1. /\ m \notin inFlight /\ m \notin seen /\ runs[m] < MaxAttempts
          /\ m \in inFlight' /\ m \notin seen' /\ runs'[m] = runs[m] + 1
      BY <1>1, <2>1 DEF Dispatch, Fresh, BookInv, CountersAgree
    <3>2. /\ box[m] = [open |-> FALSE, tries |-> runs[m], done |-> FALSE]
          /\ box'[m] = [open |-> TRUE, tries |-> runs[m] + 1, done |-> FALSE]
      BY <3>1, Slot
    <3>3. QED BY <3>1, <3>2 DEF box, Promise!Dispatch
  <2>2. CASE m \notin Fresh(X)
    BY <1>1, <2>2 DEF Dispatch, BookInv, box
  <2>3. QED BY <2>1, <2>2
<1>4. box' \in [Msgs -> Promise!Entry]
  BY <1>2, ChannelAssumption DEF BookInv, CountersAgree, box, Promise!Entry
<1>5. QED
  BY <1>2, <1>3, <1>4 DEF box, Promise!Next

LEMMA HandledStep ==
  ASSUME BookInv, NEW m \in Msgs, Handled(m)
  PROVE  BookInv' /\ Promise!Next
<1>1. BookInv'
  BY DEF BookInv, CountersAgree, Handled
<1>2. Promise!Handle(m)
  <2>1. /\ m \in inFlight /\ m \notin seen
        /\ m \notin inFlight' /\ m \in seen' /\ runs'[m] = runs[m]
    BY DEF BookInv, Handled
  <2>2. /\ box[m] = [open |-> TRUE, tries |-> runs[m], done |-> FALSE]
        /\ box'[m] = [open |-> FALSE, tries |-> runs[m], done |-> TRUE]
    BY <2>1, Slot
  <2>3. QED BY <2>2 DEF box, Promise!Handle
<1>3. ASSUME NEW n \in Msgs, n # m PROVE box'[n] = box[n]
  BY <1>3 DEF Handled, box
<1>4. box' \in [Msgs -> Promise!Entry]
  BY <1>1, ChannelAssumption DEF BookInv, CountersAgree, box, Promise!Entry
<1>5. QED
  BY <1>1, <1>2, <1>3, <1>4 DEF box, Promise!Next

LEMMA ReleasedStep ==
  ASSUME BookInv, NEW m \in Msgs, Released(m)
  PROVE  BookInv' /\ Promise!Next
<1>1. GaveUp(m) <=> runs[m] = MaxAttempts
  BY ChannelAssumption DEF BookInv, CountersAgree, Released, GaveUp
<1>2. BookInv'
  BY <1>1, ChannelAssumption DEF BookInv, CountersAgree, Released
<1>3. Promise!Release(m)
  <2> DEFINE last == runs[m] = MaxAttempts
  <2>1. /\ m \in inFlight /\ m \notin seen
        /\ m \notin inFlight' /\ (m \in seen' <=> last) /\ runs'[m] = runs[m]
    BY <1>1 DEF BookInv, Released
  <2>2. /\ box[m] = [open |-> TRUE, tries |-> runs[m], done |-> FALSE]
        /\ box'[m] = [open |-> FALSE, tries |-> runs[m], done |-> last]
    BY <2>1, Slot
  <2>3. QED BY <2>2 DEF box, Promise!Release
<1>4. ASSUME NEW n \in Msgs, n # m PROVE box'[n] = box[n]
  BY <1>4 DEF Released, box
<1>5. box' \in [Msgs -> Promise!Entry]
  BY <1>2, ChannelAssumption DEF BookInv, CountersAgree, box, Promise!Entry
<1>6. QED
  BY <1>2, <1>3, <1>4, <1>5 DEF box, Promise!Next

LEMMA InitInv == Init => BookInv /\ Promise!Init
<1>1. MaxAttempts \in Nat /\ MaxAttempts > 0
  BY ChannelAssumption
<1>2. ASSUME Init PROVE BookInv
  BY <1>1, <1>2 DEF Init, BookInv, CountersAgree
<1>3. ASSUME Init PROVE Promise!Init
  <2>1. ASSUME NEW m \in Msgs
        PROVE  box[m] = [open |-> FALSE, tries |-> 0, done |-> FALSE]
    BY <1>3, Slot DEF Init
  <2>2. QED BY <2>1, Zenon DEF box, Promise!Init
<1>4. QED BY <1>2, <1>3

LEMMA NextInv == BookInv /\ [Next]_vars => BookInv' /\ [Promise!Next]_box
<1>1. ASSUME BookInv, UNCHANGED book PROVE BookInv' /\ UNCHANGED box
  BY <1>1 DEF book, BookInv, CountersAgree, box
<1>2. vars' = vars => UNCHANGED book
  BY DEF vars, book
<1>3. QED
  BY <1>1, <1>2, BookStep, DispatchStep, HandledStep, ReleasedStep

\* The counter of the poison-message guard is the number of dispatches until
\* the message is settled, so the cap means that many real turns.
THEOREM CapCountsTurns == Spec => []CountersAgree
<1>1. BookInv => CountersAgree
  BY DEF BookInv
<1>2. QED BY <1>1, InitInv, NextInv, PTL DEF Spec

\* One turn at a time works on a message, MaxAttempts at most in all, and none
\* after it was handled or given up, whatever arrives, fails and overlaps.
THEOREM KeepsInboxPromise == Spec => KeepsInbox
BY InitInv, NextInv, PTL DEF Spec, KeepsInbox, Promise!Spec, box
-----------------------------------------------------------------------------
(* Least and greatest elements.                                            *)

LEMMA LeastOf ==
  ASSUME NEW S \in SUBSET Nat, S # {}
  PROVE  Min(S) \in S /\ \A y \in S : Min(S) <= y
<1>1. PICK x \in S : \A y \in S : ~(<<y, x>> \in OpToRel(<, Nat))
  BY WFMin, NatLessThanWellFounded, Zenon
<1>2. \A y \in S : ~(y < x)
  BY <1>1 DEF OpToRel
<1>3. \A y \in S : x <= y
  BY <1>2
<1>4. QED BY <1>3 DEF Min

LEMMA LeastWith ==
  ASSUME NEW a \in Int, NEW S \in SUBSET Nat
  PROVE  /\ Min({a} \cup S) \in Int /\ Min({a} \cup S) <= a
         /\ \A y \in S : Min({a} \cup S) <= y
<1>1. PICK x \in {a} \cup S : \A y \in {a} \cup S : x <= y
  <2>1. CASE S = {}
    BY <2>1
  <2>2. CASE S # {}
    <3>1. PICK l \in S : \A y \in S : l <= y
      BY <2>2, LeastOf
    <3>2. CASE l <= a
      BY <3>1, <3>2
    <3>3. CASE a < l
      BY <3>1, <3>3
    <3>4. QED BY <3>2, <3>3
  <2>3. QED BY <2>1, <2>2
<1>2. Min({a} \cup S) \in {a} \cup S /\ \A y \in {a} \cup S : Min({a} \cup S) <= y
  BY <1>1 DEF Min
<1>3. ASSUME NEW z \in {a} \cup S, \A y \in {a} \cup S : z <= y
      PROVE  z \in Int /\ z <= a /\ \A y \in S : z <= y
  BY <1>3
<1>4. QED BY <1>2, <1>3, Zenon

LEMMA LeastOfTwo ==
  ASSUME NEW a \in Int, NEW b \in Int
  PROVE  Min({a, b}) \in {a, b} /\ Min({a, b}) <= a /\ Min({a, b}) <= b
<1>1. CASE a <= b
  BY <1>1 DEF Min
<1>2. CASE b <= a
  BY <1>2 DEF Min
<1>3. QED BY <1>1, <1>2

LEMMA GreatestOfTwo ==
  ASSUME NEW a \in Int, NEW b \in Int
  PROVE  Max({a, b}) \in {a, b} /\ a <= Max({a, b}) /\ b <= Max({a, b})
<1>1. CASE a <= b
  BY <1>1 DEF Max
<1>2. CASE b <= a
  BY <1>2 DEF Max
<1>3. QED BY <1>1, <1>2

LEMMA GreatestOfThree ==
  ASSUME NEW a \in Int, NEW b \in Int, NEW c \in Int
  PROVE  /\ Max({a, b, c}) \in {a, b, c}
         /\ a <= Max({a, b, c}) /\ b <= Max({a, b, c}) /\ c <= Max({a, b, c})
<1>1. CASE b <= a /\ c <= a
  BY <1>1 DEF Max
<1>2. CASE a <= b /\ c <= b
  BY <1>2 DEF Max
<1>3. CASE a <= c /\ b <= c
  BY <1>3 DEF Max
<1>4. QED BY <1>1, <1>2, <1>3

-----------------------------------------------------------------------------
(* Types of what the two invariants speak of.                              *)

Instants == Nat \cup {None}
Watch == [disconnect : Instants, healthy : Nat, blindSince : Instants,
          tick : Instants, before : Instants]
Asking == [phase : {"idle", "list", "next", "asked"}, start : Nat, until : Nat,
           todo : SUBSET Chats, chat : Chats \cup {None}, got : SUBSET Msgs, whole : BOOLEAN]

PullsTyped ==
  /\ pull \in [Pulls -> Asking]
  /\ \A p \in Pulls : pull[p].phase = "asked" => pull[p].chat \in Chats

Typed ==
  /\ clock \in Nat /\ sent \in [Msgs -> Instants] /\ link \in {"up", "half", "down"}
  /\ wire \subseteq Msgs \X {"live", "local"} /\ health \in Watch
  /\ allowed \subseteq Chats /\ tracked \subseteq Chats
  /\ inFlight \subseteq Msgs /\ owed \subseteq Msgs
  /\ windows \in [Chats -> Instants] /\ PullsTyped
  /\ blindFrom \in Instants /\ unnoticed \in BOOLEAN

LEMMA Constants ==
  /\ ChatOf \in [Msgs -> Chats] /\ Groups \subseteq Chats
  /\ Buffer \in Nat /\ Clamp \in Nat /\ ReplayAge \in Nat /\ ReconnectAge \in Nat
  /\ Interval \in Nat /\ Bootstrap \in Nat /\ SuspendDetect \in Nat
  /\ None \notin Int /\ "timer" \in Pulls
BY ChannelAssumption DEF Pulls

LEMMA IdleIsTyped == IdlePull \in Asking
BY DEF IdlePull, Asking

\* recordUnresolvedGapWindow leaves a chat no window, or one that reaches as
\* far back as the one it had and, for the chat itself, as asked.
LEMMA RecordedReaches ==
  ASSUME Typed, NEW c \in Chats, NEW s \in Nat
  PROVE  /\ Recorded(c, s) \in [Chats -> Instants]
         /\ Recorded(c, s)[c] # None => Recorded(c, s)[c] <= s
         /\ \A d \in Chats : Recorded(c, s)[d] # None =>
              d = c \/ (windows[d] # None /\ Recorded(c, s)[d] = windows[d])
         /\ windows[c] # None => Recorded(c, s)[c] # None /\ Recorded(c, s)[c] <= windows[c]
<1>1. None \notin Int /\ s # None
  BY Constants
<1>2. CASE windows[c] # None
  BY <1>1, <1>2 DEF Recorded, Typed, Instants
<1>3. CASE windows[c] = None
  BY <1>1, <1>3 DEF Recorded, Typed, Instants
<1>4. QED BY <1>2, <1>3

LEMMA PrunedTyped ==
  ASSUME Typed
  PROVE  /\ Pruned \in [Chats -> Instants]
         /\ \A c \in Chats : Pruned[c] # None => Pruned[c] = windows[c]
BY DEF Pruned, Typed, Instants

\* The --start of a pull: not before the first instant, and as far back as it
\* was asked and the ceiling allow.
LEMMA StartReaches ==
  ASSUME Typed, NEW from \in Int, NEW chats \in SUBSET Chats, NEW floor \in Int,
         NEW maxAge \in Nat, NEW t \in Nat, from - Buffer <= t, clock - floor <= t
  PROVE  /\ WindowStart(from, chats, floor, maxAge) \in Nat
         /\ WindowStart(from, chats, floor, maxAge) <= Max({t, clock - maxAge})
<1> DEFINE old == {Pruned[c] : c \in chats} \ {None}
           top == Max({Clamp, floor})
           ceiling == IF old # {} THEN maxAge ELSE Min({top, maxAge})
           back == Min({from} \cup old)
<1>1. old \in SUBSET Nat
  BY PrunedTyped DEF Instants
<1>2. back \in Int /\ back <= from
  <2> HIDE DEF old
  <2>1. QED BY <1>1, LeastWith
<1>3. top \in Int /\ floor <= top
  BY Constants, GreatestOfTwo
<1>4. ceiling \in Int /\ (ceiling = maxAge \/ floor <= ceiling)
  <2> HIDE DEF old, top
  <2>1. Min({top, maxAge}) \in {top, maxAge}
    BY <1>3, LeastOfTwo
  <2>2. QED BY <1>3, <2>1
<1>5. WindowStart(from, chats, floor, maxAge) = Max({0, back - Buffer, clock - ceiling})
  BY DEF WindowStart
<1>6. /\ Max({0, back - Buffer, clock - ceiling}) \in {0, back - Buffer, clock - ceiling}
      /\ 0 <= Max({0, back - Buffer, clock - ceiling})
  <2> HIDE DEF back, ceiling
  <2>1. back - Buffer \in Int /\ clock - ceiling \in Int
    BY <1>2, <1>4, Constants DEF Typed
  <2>2. QED BY <2>1, GreatestOfThree
<1>7. /\ Max({t, clock - maxAge}) \in Int
      /\ t <= Max({t, clock - maxAge}) /\ clock - maxAge <= Max({t, clock - maxAge})
  <2>1. clock - maxAge \in Int
    BY DEF Typed
  <2>2. QED BY <2>1, GreatestOfTwo
<1>8. QED
  <2> HIDE DEF back, ceiling
  <2>1. back - Buffer \in Int /\ back - Buffer <= t
    BY <1>2, Constants
  <2>2. clock - ceiling \in Int /\ (clock - ceiling <= t \/ clock - ceiling = clock - maxAge)
    BY <1>4 DEF Typed
  <2>3. QED BY <1>5, <1>6, <1>7, <2>1, <2>2
LEMMA BeginPullTyped ==
  ASSUME Typed, NEW p \in Pulls, NEW from \in Int, NEW chats \in SUBSET Chats,
         NEW floor \in Int, NEW maxAge \in Nat, BeginPull(p, from, chats, floor, maxAge)
  PROVE  /\ windows' = Pruned /\ owed' = owed \ Forgotten(Pruned) /\ PullsTyped'
         /\ \A q \in Pulls : pull'[q].got \subseteq pull[q].got
<1> DEFINE late == IF from - Buffer <= clock - floor THEN clock - floor ELSE from - Buffer
           t == IF late <= 0 THEN 0 ELSE late
<1>1. t \in Nat /\ from - Buffer <= t /\ clock - floor <= t
  <2>1. from - Buffer \in Int /\ clock - floor \in Int
    BY Constants DEF Typed
  <2>2. QED BY <2>1
<1>2. WindowStart(from, chats, floor, maxAge) \in Nat
  <2> HIDE DEF t
  <2>1. QED BY <1>1, StartReaches
<1>3. clock + Buffer \in Nat
  BY Constants DEF Typed
<1>4. QED
  BY <1>2, <1>3, IdleIsTyped DEF BeginPull, PullsTyped, Typed, Asking, IdlePull

LEMMA TypedInit == Init => Typed
<1> SUFFICES ASSUME Init PROVE Typed
  OBVIOUS
<1>1. PullsTyped
  <2>1. IdlePull.phase # "asked"
    BY DEF IdlePull
  <2>2. QED BY <2>1, IdleIsTyped DEF Init, PullsTyped
<1>2. allowed \subseteq Chats /\ tracked \subseteq Chats
  BY ChannelAssumption DEF Init
<1>3. health \in Watch
  BY DEF Init, Watch, Instants
<1>4. QED BY <1>1, <1>2, <1>3 DEF Init, Typed, Instants

\* The messages, the connection and the host.
LEMMA TypedWorld ==
  ASSUME Typed, Elapse \/ GoHalfOpen \/ Suspend \/ Resume \/ \E m \in Msgs : Post(m)
  PROVE  Typed'
<1>1. CASE Elapse
  BY <1>1 DEF Elapse, Typed, PullsTyped, book
<1>2. CASE GoHalfOpen \/ Suspend
  BY <1>2 DEF GoHalfOpen, Suspend, Lose, Typed, PullsTyped, book, Instants
<1>3. CASE Resume
  BY <1>3 DEF Resume, Typed, PullsTyped, book
<1>4. ASSUME NEW m \in Msgs, Post(m) PROVE Typed'
  BY <1>4 DEF Post, Typed, PullsTyped, book, Instants
<1>5. QED BY <1>1, <1>2, <1>3, <1>4

\* The handler's verdicts and what arrives.
LEMMA TypedBooks ==
  ASSUME Typed, \A m \in inFlight : sent[m] # None,
         \/ \E e \in wire : Arrive(e)
         \/ \E m \in Msgs : MarkHandled(m) \/ \E replay \in BOOLEAN : MarkUnhandled(m, replay)
  PROVE  Typed'
<1>1. ASSUME NEW e \in wire, Arrive(e) PROVE Typed'
  BY <1>1, Constants DEF Arrive, Dispatch, Fresh, Typed, PullsTyped
<1>2. ASSUME NEW m \in Msgs, MarkHandled(m) PROVE Typed'
  BY <1>2 DEF MarkHandled, world, Typed, PullsTyped
<1>3. ASSUME NEW m \in Msgs, NEW replay \in BOOLEAN, MarkUnhandled(m, replay) PROVE Typed'
  <2>1. sent[m] \in Nat /\ ChatOf[m] \in Chats
    BY <1>3, Constants DEF MarkUnhandled, Typed, Instants
  <2>2. windows' \in [Chats -> Instants]
    BY <1>3, <2>1, RecordedReaches DEF MarkUnhandled, Typed
  <2>3. QED BY <1>3, <2>2 DEF MarkUnhandled, world, Typed, PullsTyped
<1>4. QED BY <1>1, <1>2, <1>3

\* A pull, one chat after the other.
LEMMA TypedPull ==
  ASSUME Typed, NEW p \in Pulls,
         \/ TakeChat(p) \/ EndPull(p)
         \/ \E c \in Chats : ChatFails(p, c) \/ ChatGone(p, c)
         \/ \E c \in Chats, got \in SUBSET Msgs : AskChat(p, c, got)
  PROVE  Typed'
<1>0. pull[p] \in Asking
  BY DEF Typed, PullsTyped
<1>1. CASE TakeChat(p)
  <2>1. pull[p].chat \in Chats /\ pull[p].start \in Nat /\ pull[p].got \subseteq Msgs
    BY <1>0, <1>1 DEF TakeChat, Typed, PullsTyped, Asking
  <2>2. windows' \in [Chats -> Instants]
    BY <1>1, <2>1, RecordedReaches DEF TakeChat, Resolved, Typed, Instants
  <2>3. inFlight' \subseteq Msgs /\ owed' \subseteq Msgs
    BY <1>1, <2>1 DEF TakeChat, Dispatch, Fresh, Typed
  <2>4. NextChat(pull[p]) \in Asking /\ NextChat(pull[p]).phase = "next"
    BY <1>0, IdleIsTyped DEF NextChat, Asking, IdlePull
  <2>5. PullsTyped'
    BY <1>1, <2>4 DEF TakeChat, Typed, PullsTyped
  <2>6. QED BY <1>1, <2>2, <2>3, <2>5 DEF TakeChat, world, Typed
<1>2. CASE EndPull(p)
  <2>1. PullsTyped'
    BY <1>2, IdleIsTyped DEF EndPull, Typed, PullsTyped, IdlePull
  <2>2. QED BY <1>2, <2>1 DEF EndPull, world, book, Typed
<1>3. ASSUME NEW c \in Chats, ChatFails(p, c) PROVE Typed'
  <2>1. pull[p].start \in Nat
    BY <1>0 DEF Asking
  <2>2. windows' \in [Chats -> Instants]
    BY <1>3, <2>1, RecordedReaches DEF ChatFails
  <2>3. PullsTyped'
    BY <1>3 DEF ChatFails, Typed, PullsTyped, Asking
  <2>4. QED BY <1>3, <2>2, <2>3 DEF ChatFails, world, book, Typed
<1>4. ASSUME NEW c \in Chats, ChatGone(p, c) PROVE Typed'
  <2>1. PullsTyped'
    BY <1>4 DEF ChatGone, Typed, PullsTyped, Asking
  <2>2. QED BY <1>4, <2>1 DEF ChatGone, world, book, Typed, Instants
<1>5. ASSUME NEW c \in Chats, NEW got \in SUBSET Msgs, AskChat(p, c, got) PROVE Typed'
  <2>1. PullsTyped'
    <3> DEFINE whole == got = Visible(pull[p], c)
    <3>1. whole \in BOOLEAN
      OBVIOUS
    <3>2. pull' = [pull EXCEPT ![p].phase = "asked", ![p].chat = c, ![p].got = got,
                               ![p].whole = whole]
      BY <1>5 DEF AskChat
    <3>3. QED
      <4> HIDE DEF whole
      <4>1. /\ pull' = [pull EXCEPT ![p] = pull'[p]]
            /\ pull'[p] = [pull[p] EXCEPT !.phase = "asked", !.chat = c, !.got = got,
                                         !.whole = whole]
        BY <3>2 DEF Typed, PullsTyped
      <4>2. pull'[p] \in Asking /\ pull'[p].chat = c
        BY <1>0, <3>1, <4>1 DEF Asking
      <4>3. QED BY <4>1, <4>2 DEF Typed, PullsTyped
  <2>2. QED BY <1>5, <2>1 DEF AskChat, world, book, Typed
<1>6. QED BY <1>1, <1>2, <1>3, <1>4, <1>5

\* What starts a pull, and the sampler.
LEMMA HealthyStartTyped ==
  ASSUME Typed, health.disconnect # None
  PROVE  /\ HealthyStart \in Int /\ HealthyStart <= health.disconnect
         /\ health.blindSince # None => HealthyStart <= health.blindSince
         /\ health.blindSince = None => HealthyStart <= health.healthy
<1> DEFINE anchor == IF health.blindSince # None THEN health.blindSince ELSE health.healthy
<1>1. health.disconnect \in Int /\ anchor \in Int
  BY DEF Typed, Watch, Instants
<1>2. HealthyStart = Min({health.disconnect, anchor})
  BY DEF HealthyStart
<1>3. HealthyStart \in Int /\ HealthyStart <= health.disconnect /\ HealthyStart <= anchor
  <2> HIDE DEF anchor
  <2>1. QED BY <1>1, <1>2, LeastOfTwo
<1>4. QED BY <1>3

\* What the three starts of a pull have in common: gapFill's first part.
Begun ==
  /\ windows' = Pruned /\ owed' = owed \ Forgotten(Pruned) /\ PullsTyped'
  /\ \A q \in Pulls : pull'[q].got \subseteq pull[q].got

LEMMA ReconnectBegins ==
  ASSUME Typed, link = "down" => health.disconnect # None, NEW p \in Pulls, Reconnected(p)
  PROVE  Begun
<1>1. BeginPull(p, HealthyStart, allowed \cup tracked, clock - HealthyStart + Buffer, ReconnectAge)
  BY DEF Reconnected
<1>2. HealthyStart \in Int /\ clock - HealthyStart + Buffer \in Int
  BY HealthyStartTyped, Constants DEF Reconnected, Typed
<1>3. allowed \cup tracked \in SUBSET Chats /\ ReconnectAge \in Nat
  BY Constants DEF Typed
<1>4. QED
  <2> HIDE DEF HealthyStart
  <2>1. QED BY <1>1, <1>2, <1>3, BeginPullTyped DEF Begun

LEMMA ReplayBegins ==
  ASSUME Typed, Replay
  PROVE  Begun
<1> DEFINE chats == {c \in Chats : Pruned[c] # None}
<1>1. /\ chats \in SUBSET Chats /\ clock \in Int /\ 0 \in Int
      /\ BeginPull("timer", clock, chats, 0, ReplayAge)
  BY DEF Replay, Typed
<1>2. QED
  <2> HIDE DEF chats
  <2>1. QED BY <1>1, BeginPullTyped, Constants, Zenon DEF Begun

LEMMA DiscoveryBegins ==
  ASSUME Typed, NEW listed \in SUBSET Groups, DiscoverLists(listed)
  PROVE  \/ UNCHANGED <<windows, owed>> /\ pull' = [pull EXCEPT !["timer"] = IdlePull]
         \/ Begun
<1> DEFINE targets == IF disc.booted
                      THEN {c \in listed : c \notin tracked \/ windows[c] # None} ELSE listed
           back == IF disc.booted THEN Interval + Buffer ELSE Bootstrap
           floor == IF disc.booted THEN back ELSE 0
<1>1. CASE targets = {}
  BY <1>1 DEF DiscoverLists
<1>2. CASE targets # {}
  <2>1. BeginPull("timer", clock - back, targets, floor, ReplayAge)
    BY <1>2 DEF DiscoverLists
  <2>2. targets \in SUBSET Chats /\ clock - back \in Int /\ floor \in Int
    BY Constants DEF Typed
  <2>3. QED
    <3> HIDE DEF targets, back, floor
    <3>1. QED BY <2>1, <2>2, BeginPullTyped, Constants DEF Begun
<1>3. QED BY <1>1, <1>2

LEMMA TypedReconnect ==
  ASSUME Typed, link = "down" => health.disconnect # None,
         Reconnecting \/ Sample \/ \E p \in Pulls : Reconnected(p)
  PROVE  Typed'
<1>1. CASE Reconnecting
  BY <1>1 DEF Reconnecting, Lose, Typed, PullsTyped, book, Instants, Watch
<1>2. CASE Sample
  <2>1. health' \in Watch
    BY <1>2 DEF Sample, Anchor, Typed, Watch, Instants
  <2>2. unnoticed' \in BOOLEAN
    BY <1>2, Zenon DEF Sample, Typed, HiddenFromSampler
  <2>3. QED BY <1>2, <2>1, <2>2 DEF Sample, world, book, Typed, PullsTyped
<1>3. ASSUME NEW p \in Pulls, Reconnected(p) PROVE Typed'
  <2>1. Begun
    BY <1>3, ReconnectBegins
  <2>2. health' \in Watch
    BY <1>3 DEF Reconnected, Typed, Watch, Instants
  <2>3. QED
    BY <1>3, <2>1, <2>2, PrunedTyped DEF Reconnected, Begun, book, Typed, Instants
<1>4. QED BY <1>1, <1>2, <1>3

LEMMA TypedTimer ==
  ASSUME Typed,
         \/ Replay \/ Discover
         \/ \E listed \in SUBSET Groups : DiscoverFails(listed) \/ DiscoverLists(listed)
  PROVE  Typed'
<1>1. CASE Replay
  BY <1>1, ReplayBegins, PrunedTyped DEF Begun, Replay, world, book, Typed
<1>2. CASE Discover
  <2>1. PullsTyped'
    BY <1>2, Constants DEF Discover, Typed, PullsTyped, Asking
  <2>2. QED BY <1>2, <2>1 DEF Discover, world, book, Typed
<1>3. ASSUME NEW listed \in SUBSET Groups, DiscoverFails(listed) PROVE Typed'
  <2>1. PullsTyped'
    BY <1>3, IdleIsTyped, Constants DEF DiscoverFails, Typed, PullsTyped, IdlePull
  <2>2. QED BY <1>3, <2>1, Constants DEF DiscoverFails, Learn, world, book, Typed
<1>4. ASSUME NEW listed \in SUBSET Groups, DiscoverLists(listed) PROVE Typed'
  <2>1. tracked' \subseteq Chats
    BY <1>4, Constants DEF DiscoverLists, Learn, Typed
  <2>2. windows' \in [Chats -> Instants] /\ owed' \subseteq Msgs /\ PullsTyped'
    <3>1. CASE UNCHANGED <<windows, owed>> /\ pull' = [pull EXCEPT !["timer"] = IdlePull]
      BY <3>1, IdleIsTyped, Constants DEF Typed, PullsTyped, IdlePull
    <3>2. CASE Begun
      BY <3>2, PrunedTyped DEF Begun, Typed
    <3>3. QED BY <1>4, <3>1, <3>2, DiscoveryBegins
  <2>3. QED BY <1>4, <2>1, <2>2 DEF DiscoverLists, world, book, Typed
<1>5. QED BY <1>1, <1>2, <1>3, <1>4
-----------------------------------------------------------------------------
(* A message released for a replay is behind a window of its chat.         *)

Posted(S) == \A m \in S : sent[m] # None

\* Nothing owed is at work or settled, and only posted messages are on their
\* way, at work, owed or in the answer of a pull.
OwedInv ==
  /\ \A m \in owed : m \notin seen /\ m \notin inFlight
  /\ Posted(inFlight) /\ Posted(owed)
  /\ \A e \in wire : sent[e[1]] # None
  /\ \A p \in Pulls : Posted(pull[p].got)
  /\ OwedIsTracked

\* A step that records a window, and forgets what it drops.
LEMMA RecordStep ==
  ASSUME Typed, OwedInv, NEW c \in Chats, NEW s \in Nat,
         windows' = Recorded(c, s), owed' \subseteq owed \ Forgotten(windows'), sent' = sent
  PROVE  OwedIsTracked'
<1> SUFFICES ASSUME NEW m \in owed'
             PROVE  windows'[ChatOf[m]] # None /\ windows'[ChatOf[m]] <= sent[m]
  BY DEF OwedIsTracked
<1>1. /\ m \in Msgs /\ ChatOf[m] \in Chats /\ sent[m] \in Nat
      /\ windows[ChatOf[m]] \in Nat /\ windows[ChatOf[m]] <= sent[m]
  BY Constants DEF Typed, OwedInv, OwedIsTracked, Posted, Instants
<1>2. windows'[ChatOf[m]] # None
  BY <1>1 DEF Forgotten
<1>3. /\ Recorded(c, s) \in [Chats -> Instants]
      /\ \A d \in Chats : Recorded(c, s)[d] # None =>
           d = c \/ (windows[d] # None /\ Recorded(c, s)[d] = windows[d])
      /\ windows[c] # None => Recorded(c, s)[c] # None /\ Recorded(c, s)[c] <= windows[c]
  BY RecordedReaches, Zenon
<1>4. windows'[ChatOf[m]] \in Nat /\ windows'[ChatOf[m]] <= windows[ChatOf[m]]
  <2> HIDE DEF Recorded
  <2>1. windows'[ChatOf[m]] \in Instants /\ windows[ChatOf[m]] # None
    BY <1>1, <1>3, Constants
  <2>2. CASE ChatOf[m] = c
    BY <1>2, <1>3, <2>1, <2>2 DEF Instants
  <2>3. CASE ChatOf[m] # c
    BY <1>1, <1>2, <1>3, <2>3
  <2>4. QED BY <2>2, <2>3
<1>5. QED BY <1>1, <1>2, <1>4

\* A step that only drops windows, and forgets what it drops.
LEMMA DropStep ==
  ASSUME Typed, OwedInv, sent' = sent, owed' \subseteq owed \ Forgotten(windows'),
         \A c \in Chats : windows'[c] # None => windows'[c] = windows[c]
  PROVE  OwedIsTracked'
BY Constants DEF Typed, OwedInv, OwedIsTracked, Forgotten

LEMMA OwedInit == Init => OwedInv
BY IdleIsTyped DEF Init, OwedInv, OwedIsTracked, Posted, IdlePull

LEMMA OwedWorld ==
  ASSUME Typed, OwedInv, Elapse \/ GoHalfOpen \/ Suspend \/ Resume \/ \E m \in Msgs : Post(m)
  PROVE  OwedInv'
<1>1. CASE Elapse \/ Resume
  BY <1>1 DEF Elapse, Resume, OwedInv, OwedIsTracked, Posted, book
<1>2. CASE GoHalfOpen \/ Suspend
  BY <1>2 DEF GoHalfOpen, Suspend, Lose, OwedInv, OwedIsTracked, Posted, book
<1>3. ASSUME NEW m \in Msgs, Post(m) PROVE OwedInv'
  <2>1. /\ \A n \in Msgs : sent[n] # None => sent'[n] = sent[n]
        /\ sent'[m] # None
    BY <1>3, Constants DEF Post, Typed
  <2>2. \A e \in wire' : e \in wire \/ e[1] = m
    BY <1>3 DEF Post
  <2>3. \A e \in wire' : sent'[e[1]] # None
    BY <2>1, <2>2 DEF OwedInv, Typed
  <2>4. UNCHANGED <<inFlight, seen, owed, windows, pull>>
    BY <1>3 DEF Post, book
  <2>5. \A p \in Pulls : pull[p].got \subseteq Msgs
    BY DEF Typed, PullsTyped, Asking
  <2>6. QED BY <2>1, <2>3, <2>4, <2>5 DEF OwedInv, OwedIsTracked, Posted, Typed
<1>4. QED BY <1>1, <1>2, <1>3

LEMMA OwedBooks ==
  ASSUME Typed, BookInv, OwedInv,
         \/ \E e \in wire : Arrive(e)
         \/ \E m \in Msgs : MarkHandled(m) \/ \E replay \in BOOLEAN : MarkUnhandled(m, replay)
  PROVE  OwedInv'
<1>1. ASSUME NEW e \in wire, Arrive(e) PROVE OwedInv'
  BY <1>1 DEF Arrive, Dispatch, Fresh, OwedInv, OwedIsTracked, Posted
<1>2. ASSUME NEW m \in Msgs, MarkHandled(m) PROVE OwedInv'
  BY <1>2 DEF MarkHandled, world, OwedInv, OwedIsTracked, Posted
<1>3. ASSUME NEW m \in Msgs, NEW replay \in BOOLEAN, MarkUnhandled(m, replay) PROVE OwedInv'
  <2>1. /\ m \in inFlight /\ m \notin seen /\ sent[m] \in Nat /\ ChatOf[m] \in Chats
        /\ inFlight' = inFlight \ {m} /\ UNCHANGED <<sent, wire, pull>>
    BY <1>3, Constants DEF MarkUnhandled, world, Typed, Instants, OwedInv, Posted, BookInv
  <2>2. CASE GaveUp(m) \/ ~replay
    <3>1. UNCHANGED <<windows, owed>> /\ (seen' = seen \/ seen' = seen \cup {m})
      BY <1>3, <2>2 DEF MarkUnhandled
    <3>2. QED BY <2>1, <3>1 DEF OwedInv, OwedIsTracked, Posted
  <2>3. CASE ~GaveUp(m) /\ replay
    <3>1. /\ seen' = seen /\ windows' = Recorded(ChatOf[m], sent[m])
          /\ owed' = (owed \cup {m}) \ Forgotten(windows')
      BY <1>3, <2>3 DEF MarkUnhandled
    <3>2. /\ Recorded(ChatOf[m], sent[m])[ChatOf[m]] # None =>
              Recorded(ChatOf[m], sent[m])[ChatOf[m]] <= sent[m]
          /\ \A d \in Chats : Recorded(ChatOf[m], sent[m])[d] # None =>
               d = ChatOf[m] \/ (windows[d] # None /\ Recorded(ChatOf[m], sent[m])[d] = windows[d])
          /\ windows[ChatOf[m]] # None =>
               Recorded(ChatOf[m], sent[m])[ChatOf[m]] <= windows[ChatOf[m]]
          /\ Recorded(ChatOf[m], sent[m]) \in [Chats -> Instants]
      BY <2>1, RecordedReaches
    <3>3. ASSUME NEW n \in owed'
          PROVE  windows'[ChatOf[n]] # None /\ windows'[ChatOf[n]] <= sent'[n]
      <4>1. n \in Msgs /\ ChatOf[n] \in Chats /\ windows'[ChatOf[n]] # None
        BY <3>1, Constants DEF Forgotten, Typed
      <4>2. CASE n = m
        BY <2>1, <3>1, <3>2, <4>1, <4>2
      <4>3. CASE n # m
        <5>1. /\ n \in owed /\ sent[n] \in Nat /\ windows[ChatOf[n]] \in Nat
              /\ windows[ChatOf[n]] <= sent[n]
          BY <3>1, <4>1, <4>3 DEF OwedInv, OwedIsTracked, Posted, Typed, Instants
        <5>2. windows'[ChatOf[n]] \in Nat /\ windows'[ChatOf[n]] <= windows[ChatOf[n]]
          BY <3>1, <3>2, <4>1, <5>1, Constants DEF Instants
        <5>3. QED BY <2>1, <4>1, <5>1, <5>2
      <4>4. QED BY <4>2, <4>3
    <3>4. QED BY <2>1, <3>1, <3>3 DEF OwedInv, OwedIsTracked, Posted
  <2>4. QED BY <2>2, <2>3
<1>4. QED BY <1>1, <1>2, <1>3

\* A whole answer takes the messages of its chat with it; those that it could
\* not have seen are forgotten with the window.
LEMMA OwedTake ==
  ASSUME Typed, BookInv, OwedInv, NEW p \in Pulls, TakeChat(p)
  PROVE  OwedInv'
<1> DEFINE q == pull[p]
<1>1. /\ q \in Asking /\ q.chat \in Chats /\ q.start \in Nat /\ q.got \subseteq Msgs
      /\ Posted(q.got)
  BY DEF TakeChat, Typed, PullsTyped, Asking, OwedInv
<1>2. /\ inFlight' = inFlight \cup Fresh(q.got) /\ seen' = seen /\ UNCHANGED <<sent, wire>>
      /\ pull' = [pull EXCEPT ![p] = NextChat(q)] /\ owed' \subseteq owed \ Fresh(q.got)
  BY DEF TakeChat, Dispatch, world
<1>3. OwedIsTracked'
  <2>1. CASE ~q.whole
    <3>1. windows' = Recorded(q.chat, q.start) /\ owed' \subseteq owed \ Forgotten(windows')
      BY <2>1 DEF TakeChat
    <3>2. QED BY <1>1, <1>2, <3>1, RecordStep
  <2>2. CASE q.whole
    <3>1. /\ windows' = Resolved(q)
          /\ owed' = (owed \ Fresh(q.got)) \ (TooLate(q) \cap Forgotten(windows'))
      BY <2>2 DEF TakeChat
    <3>2. \A c \in Chats : windows'[c] # None => windows'[c] = windows[c]
      BY <3>1 DEF Resolved, Typed
    <3>3. ASSUME NEW m \in owed', windows'[ChatOf[m]] = None PROVE FALSE
      <4>1. /\ m \in owed /\ m \in Msgs /\ ChatOf[m] \in Chats /\ sent[m] \in Nat
            /\ windows[ChatOf[m]] \in Nat /\ windows[ChatOf[m]] <= sent[m]
        BY <1>2, Constants DEF OwedInv, OwedIsTracked, Posted, Typed, Instants
      <4>2. ChatOf[m] = q.chat /\ q.start <= windows[ChatOf[m]]
        BY <3>1, <3>3, <4>1, Constants DEF Resolved, Typed
      <4>3. m \in Forgotten(windows') /\ m \notin TooLate(q)
        BY <3>1, <3>3, <4>1 DEF Forgotten
      <4>4. m \in q.got
        BY <1>1, <4>1, <4>2, <4>3 DEF TooLate
      <4>5. m \in Fresh(q.got)
        BY <4>1, <4>4 DEF Fresh, OwedInv
      <4>6. QED BY <1>2, <4>5
    <3>4. QED BY <1>2, <3>2, <3>3, DropStep DEF Forgotten
  <2>3. QED BY <2>1, <2>2
<1>4. \A r \in Pulls : pull'[r].got \subseteq pull[r].got
  BY <1>2 DEF NextChat, IdlePull, Typed, PullsTyped
<1>5. QED BY <1>1, <1>2, <1>3, <1>4 DEF OwedInv, Posted, Fresh

LEMMA OwedPull ==
  ASSUME Typed, BookInv, OwedInv, NEW p \in Pulls,
         \/ TakeChat(p) \/ EndPull(p)
         \/ \E c \in Chats : ChatFails(p, c) \/ ChatGone(p, c)
         \/ \E c \in Chats, got \in SUBSET Msgs : AskChat(p, c, got)
  PROVE  OwedInv'
<1>0. pull \in [Pulls -> Asking]
  BY DEF Typed, PullsTyped
<1>1. CASE EndPull(p)
  BY <1>0, <1>1 DEF EndPull, world, book, OwedInv, OwedIsTracked, Posted, IdlePull
<1>2. ASSUME NEW c \in Chats, ChatFails(p, c) PROVE OwedInv'
  <2>1. pull[p].start \in Nat /\ \A r \in Pulls : pull'[r].got = pull[r].got
    BY <1>0, <1>2 DEF ChatFails, Asking
  <2>2. OwedIsTracked'
    BY <1>2, <2>1, RecordStep DEF ChatFails, world
  <2>3. QED BY <1>2, <2>1, <2>2 DEF ChatFails, world, book, OwedInv, Posted
<1>3. ASSUME NEW c \in Chats, ChatGone(p, c) PROVE OwedInv'
  <2>1. \A r \in Pulls : pull'[r].got = pull[r].got
    BY <1>0, <1>3 DEF ChatGone, Asking
  <2>2. OwedIsTracked'
    BY <1>3, DropStep DEF ChatGone, world, Typed
  <2>3. QED BY <1>3, <2>1, <2>2 DEF ChatGone, world, book, OwedInv, Posted
<1>4. ASSUME NEW c \in Chats, NEW got \in SUBSET Msgs, AskChat(p, c, got) PROVE OwedInv'
  <2>1. Posted(got)
    BY <1>4 DEF AskChat, Visible, Posted
  <2>2. \A r \in Pulls : pull'[r].got = pull[r].got \/ pull'[r].got = got
    <3> DEFINE whole == got = Visible(pull[p], c)
    <3>1. pull' = [pull EXCEPT ![p].phase = "asked", ![p].chat = c, ![p].got = got,
                               ![p].whole = whole]
      BY <1>4 DEF AskChat
    <3>2. QED
      <4> HIDE DEF whole
      <4>1. QED BY <1>0, <3>1 DEF Asking
  <2>3. QED BY <1>4, <2>1, <2>2 DEF AskChat, world, book, OwedInv, OwedIsTracked, Posted
<1>5. QED BY <1>1, <1>2, <1>3, <1>4, OwedTake

LEMMA OwedBegun ==
  ASSUME Typed, OwedInv, Begun, UNCHANGED <<sent, wire, inFlight, seen>>
  PROVE  OwedInv'
<1>1. OwedIsTracked'
  BY PrunedTyped, DropStep DEF Begun
<1>2. QED BY <1>1 DEF Begun, OwedInv, Posted

\* What starts a pull, and the sampler.
LEMMA OwedStarts ==
  ASSUME Typed, link = "down" => health.disconnect # None, OwedInv,
         \/ Reconnecting \/ Sample \/ Replay \/ Discover
         \/ \E p \in Pulls : Reconnected(p)
         \/ \E listed \in SUBSET Groups : DiscoverFails(listed) \/ DiscoverLists(listed)
  PROVE  OwedInv'
<1>1. CASE Reconnecting
  BY <1>1 DEF Reconnecting, Lose, book, OwedInv, OwedIsTracked, Posted
<1>2. CASE Sample
  BY <1>2 DEF Sample, world, book, OwedInv, OwedIsTracked, Posted
<1>3. CASE Replay
  BY <1>3, ReplayBegins, OwedBegun DEF Replay, world, book
<1>4. CASE Discover
  <2>1. \A r \in Pulls : pull'[r].got = pull[r].got
    BY <1>4 DEF Discover, Typed, PullsTyped, Asking
  <2>2. QED BY <1>4, <2>1 DEF Discover, world, book, OwedInv, OwedIsTracked, Posted
<1>5. ASSUME NEW p \in Pulls, Reconnected(p) PROVE OwedInv'
  BY <1>5, ReconnectBegins, OwedBegun DEF Reconnected, book
<1>6. \A r \in Pulls : pull' = [pull EXCEPT !["timer"] = IdlePull] =>
        pull'[r].got \subseteq pull[r].got
  BY DEF Typed, PullsTyped, IdlePull
<1>7. ASSUME NEW listed \in SUBSET Groups, DiscoverFails(listed) PROVE OwedInv'
  BY <1>6, <1>7 DEF DiscoverFails, world, book, OwedInv, OwedIsTracked, Posted
<1>8. ASSUME NEW listed \in SUBSET Groups, DiscoverLists(listed) PROVE OwedInv'
  <2>1. UNCHANGED <<sent, wire, inFlight, seen>>
    BY <1>8 DEF DiscoverLists, world, book
  <2>2. CASE UNCHANGED <<windows, owed>> /\ pull' = [pull EXCEPT !["timer"] = IdlePull]
    BY <1>6, <2>1, <2>2 DEF OwedInv, OwedIsTracked, Posted
  <2>3. QED BY <1>8, <2>1, <2>2, DiscoveryBegins, OwedBegun
<1>9. QED BY <1>1, <1>2, <1>3, <1>4, <1>5, <1>7, <1>8

-----------------------------------------------------------------------------
(* Where the connection went blind.                                        *)

NotAfter(t, u) == t # None => t <= u

\* The connection has been blind since before the SDK said so, if it has.
Blind == link # "up" /\ (link = "down" => health.disconnect > blindFrom)

\* Until a sample takes the blind connection for healthy, the anchor of a late
\* sample, and of the reconnect, is not after it went blind.
AnchorInv ==
  /\ health.healthy <= clock /\ NotAfter(health.before, clock)
  /\ NotAfter(health.blindSince, clock) /\ NotAfter(health.disconnect, clock)
  /\ link # "up" => blindFrom # None /\ blindFrom <= clock
  /\ link = "down" => health.disconnect # None
  /\ Blind /\ ~unnoticed =>
       IF health.blindSince # None THEN health.blindSince <= blindFrom
       ELSE health.healthy <= blindFrom /\ NotAfter(health.before, blindFrom)

LEMMA AnchorInit == Init => AnchorInv
BY DEF Init, AnchorInv, NotAfter, Blind

LEMMA AnchorQuiet ==
  ASSUME AnchorInv, UNCHANGED <<clock, link, health, blindFrom, unnoticed>>
  PROVE  AnchorInv'
BY DEF AnchorInv, NotAfter, Blind

LEMMA AnchorStep ==
  ASSUME Typed, AnchorInv,
         \/ Elapse \/ GoHalfOpen \/ Suspend \/ Reconnecting \/ Sample
         \/ \E p \in Pulls : Reconnected(p)
  PROVE  AnchorInv'
<1>0. /\ clock \in Nat /\ blindFrom \in Instants /\ health \in Watch /\ None \notin Int
      /\ SuspendDetect \in Nat /\ link \in {"up", "half", "down"}
  BY Constants DEF Typed
<1>1. CASE Elapse
  BY <1>0, <1>1 DEF Elapse, AnchorInv, NotAfter, Blind, Watch, Instants
<1>2. CASE GoHalfOpen \/ Suspend
  BY <1>0, <1>2 DEF GoHalfOpen, Suspend, Lose, AnchorInv, NotAfter, Blind, Watch, Instants
<1>3. CASE Reconnecting
  BY <1>0, <1>3 DEF Reconnecting, Lose, AnchorInv, NotAfter, Blind, Watch, Instants
<1>4. CASE Sample
  <2>1. UNCHANGED <<clock, link, blindFrom>> /\ health'.disconnect = health.disconnect
    BY <1>0, <1>4 DEF Sample, world, Watch
  <2>2. CASE Late
    <3>1. health' = [health EXCEPT !.tick = clock, !.blindSince = Anchor]
      BY <1>4, <2>2 DEF Sample
    <3>2. ~unnoticed' => ~unnoticed
      BY <1>4, Zenon DEF Sample
    <3>3. QED
      BY <1>0, <2>1, <3>1, <3>2 DEF Anchor, AnchorInv, NotAfter, Blind, Watch, Instants
  <2>3. CASE ~Late
    <3>1. health' = [health EXCEPT !.tick = clock, !.before = clock,
                       !.healthy = IF health.blindSince = None THEN clock ELSE @]
      BY <1>4, <2>3 DEF Sample
    <3>2. ~unnoticed' => ~unnoticed /\ ~HiddenFromSampler
      BY <1>4, Zenon DEF Sample
    <3>3. HiddenFromSampler \/ ~Blind \/ health.blindSince # None
      BY <1>0, <2>3 DEF HiddenFromSampler, Late, Blind, Watch, Instants
    <3>4. QED
      BY <1>0, <2>1, <3>1, <3>2, <3>3 DEF AnchorInv, NotAfter, Blind, Watch, Instants
  <2>4. QED BY <2>2, <2>3
<1>5. ASSUME NEW p \in Pulls, Reconnected(p) PROVE AnchorInv'
  BY <1>0, <1>5 DEF Reconnected, AnchorInv, NotAfter, Blind, Watch, Instants
<1>6. QED BY <1>1, <1>2, <1>3, <1>4, <1>5

-----------------------------------------------------------------------------
ClientInv == Typed /\ BookInv /\ OwedInv /\ AnchorInv

LEMMA ClientInit == Init => ClientInv
BY InitInv, TypedInit, OwedInit, AnchorInit DEF ClientInv

LEMMA ClientNext == ClientInv /\ [Next]_vars => ClientInv'
<1> SUFFICES ASSUME ClientInv, [Next]_vars PROVE ClientInv'
  OBVIOUS
<1>0. /\ Typed /\ BookInv /\ OwedInv /\ AnchorInv /\ BookInv'
      /\ \A m \in inFlight : sent[m] # None
      /\ link = "down" => health.disconnect # None
  BY NextInv DEF ClientInv, OwedInv, Posted, AnchorInv
<1>1. CASE Elapse \/ GoHalfOpen \/ Suspend \/ Resume \/ \E m \in Msgs : Post(m)
  <2>1. AnchorInv'
    <3>1. CASE Resume \/ \E m \in Msgs : Post(m)
      BY <1>0, <3>1, AnchorQuiet DEF Resume, Post
    <3>2. QED BY <1>0, <1>1, <3>1, AnchorStep
  <2>2. QED BY <1>0, <1>1, <2>1, TypedWorld, OwedWorld DEF ClientInv
<1>2. CASE \/ \E e \in wire : Arrive(e)
           \/ \E m \in Msgs : MarkHandled(m) \/ \E replay \in BOOLEAN : MarkUnhandled(m, replay)
  <2>1. AnchorInv'
    BY <1>0, <1>2, AnchorQuiet DEF Arrive, MarkHandled, MarkUnhandled, world
  <2>2. QED BY <1>0, <1>2, <2>1, TypedBooks, OwedBooks DEF ClientInv
<1>3. ASSUME NEW p \in Pulls,
             \/ TakeChat(p) \/ EndPull(p)
             \/ \E c \in Chats : ChatFails(p, c) \/ ChatGone(p, c)
             \/ \E c \in Chats, got \in SUBSET Msgs : AskChat(p, c, got)
      PROVE  ClientInv'
  <2>1. AnchorInv'
    BY <1>0, <1>3, AnchorQuiet DEF TakeChat, EndPull, ChatFails, ChatGone, AskChat, world
  <2>2. QED BY <1>0, <1>3, <2>1, TypedPull, OwedPull DEF ClientInv
<1>4. CASE Reconnecting \/ Sample \/ \E p \in Pulls : Reconnected(p)
  BY <1>0, <1>4, TypedReconnect, OwedStarts, AnchorStep DEF ClientInv
<1>5. CASE \/ Replay \/ Discover
           \/ \E listed \in SUBSET Groups : DiscoverFails(listed) \/ DiscoverLists(listed)
  <2>1. AnchorInv'
    BY <1>0, <1>5, AnchorQuiet DEF Replay, Discover, DiscoverFails, DiscoverLists, world
  <2>2. QED BY <1>0, <1>5, <2>1, TypedTimer, OwedStarts DEF ClientInv
<1>6. CASE UNCHANGED vars
  BY <1>0, <1>6, AnchorQuiet DEF vars, ClientInv, Typed, PullsTyped, OwedInv, OwedIsTracked, Posted
<1>7. QED
  BY <1>1, <1>2, <1>3, <1>4, <1>5, <1>6 DEF Next

\* The pull of a reconnect after an outage that no sample missed.
LEMMA ReconnectReaches ==
  ASSUME ClientInv, NEW p \in Slots, Reconnected(p), pull'[p].phase = "next", ~unnoticed
  PROVE  pull'[p].start <= Max({blindFrom, clock - ReconnectAge})
<1> DEFINE chats == allowed \cup tracked
           floor == clock - HealthyStart + Buffer
<1>1. /\ Typed /\ AnchorInv /\ p \in Pulls /\ link = "down" /\ clock \in Nat
      /\ blindFrom \in Nat /\ health.disconnect # None /\ Buffer \in Nat /\ ReconnectAge \in Nat
  BY Constants DEF ClientInv, Reconnected, Typed, AnchorInv, Instants, Pulls
<1>2. /\ HealthyStart \in Int /\ HealthyStart <= health.disconnect
      /\ health.blindSince # None => HealthyStart <= health.blindSince
      /\ health.blindSince = None => HealthyStart <= health.healthy
  BY <1>1, HealthyStartTyped
<1>3. HealthyStart <= blindFrom
  <2>1. /\ health.disconnect \in Int /\ health.healthy \in Int
        /\ health.blindSince # None => health.blindSince \in Int
    BY <1>1 DEF Typed, Watch, Instants
  <2>2. CASE health.disconnect <= blindFrom
    BY <1>1, <1>2, <2>1, <2>2
  <2>3. CASE health.disconnect > blindFrom
    BY <1>1, <1>2, <2>1, <2>3 DEF AnchorInv, Blind
  <2>4. QED BY <1>1, <2>1, <2>2, <2>3
<1>4. BeginPull(p, HealthyStart, chats, floor, ReconnectAge)
  BY DEF Reconnected
<1>5. /\ HealthyStart - Buffer <= blindFrom /\ floor \in Int /\ clock - floor <= blindFrom
      /\ chats \in SUBSET Chats
  BY <1>1, <1>2, <1>3 DEF Typed
<1>6. pull'[p].start = WindowStart(HealthyStart, chats, floor, ReconnectAge)
  BY <1>1, <1>4 DEF BeginPull, IdlePull, Typed, PullsTyped
<1>7. QED
  <2> HIDE DEF chats, floor, HealthyStart
  <2>1. QED BY <1>1, <1>2, <1>5, <1>6, StartReaches

\* A message released for a replay keeps a window of its chat that reaches
\* back to it until it is dispatched again, however pulls overlap it.
THEOREM OwedStaysTracked == Spec => []OwedIsTracked
<1>1. ClientInv => OwedIsTracked
  BY DEF ClientInv, OwedInv
<1>2. QED BY <1>1, ClientInit, ClientNext, PTL DEF Spec

\* The pull of a reconnect reaches back to where the connection went blind, up
\* to its ceiling, unless a sample took the blind connection for healthy.
THEOREM OutageCovered == Spec => OutageIsCovered
<1>1. ClientInv /\ [Next]_vars =>
        [\A p \in Slots : Reconnected(p) /\ pull'[p].phase = "next" /\ ~unnoticed =>
           pull'[p].start <= Max({blindFrom, clock - ReconnectAge})]_vars
  BY ReconnectReaches
<1>2. QED BY <1>1, ClientInit, ClientNext, PTL DEF Spec, OutageIsCovered
===============================================================================
