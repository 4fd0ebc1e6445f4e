------------------------ MODULE BridgeHandler_proofs ------------------------
(***************************************************************************)
(* For any set of events, any number of concurrent turns, crashes, faults  *)
(* and redeliveries: the dispatch loop owns every message in flight in     *)
(* exactly one place, the semaphore's count is exact, a follow-up that a   *)
(* turn may have received and a message that a /stop found waiting never   *)
(* start a turn, and one queue key per session gives one writer per        *)
(* session.                                                                *)
(***************************************************************************)
EXTENDS BridgeHandler, FiniteSetTheorems, SequenceTheorems, TLAPS

Phases == {"none", "probe", "setup", "ready", "run", "again", "retry",
           "finalize", "failing", "refused", "closing"}
RouteRecs == [m : Messages, stale : BOOLEAN, pc : StepsOfRoute, live : BOOLEAN,
              result : Results]
TurnRecs == [phase : Phases, msgs : Seq(Messages), session : Sessions \cup {None},
             attempt : Nat, hold : BOOLEAN, stopped : BOOLEAN]
ClientViews  == {"away", "inFlight", "handled"}
JournalViews == {"none", "sending", "accepted", "rejected", "unknown"}

RouteTypes ==
  /\ client \in [Messages -> ClientViews]
  /\ routes \in [Queues -> Seq(RouteRecs)]
  /\ pending \in [Queues -> Seq(Messages)]
  /\ journal \in [Messages -> JournalViews]
  /\ fed \subseteq Messages /\ cancelled \subseteq Messages
TurnTypes ==
  /\ turn \in [Queues -> TurnRecs]
  /\ \A k \in Queues : turn[k].phase = "none" => turn[k].msgs = << >>
  /\ \A k \in Queues : turn[k].phase \notin {"none", "closing", "failing"}
                         => turn[k].msgs # << >>
  /\ \A k \in Queues : turn[k].phase \notin {"none", "probe", "closing", "failing"}
                         => turn[k].session \in Sessions
  /\ active \in [Sessions -> Queues \cup {None}] /\ stops \subseteq Queues
  /\ lingering \subseteq Sessions \X (Queues \cup {None})
SlotTypes ==
  /\ links \in [Queues -> Nat]
  /\ slot \in [Queues -> {"none", "waiting", "held"}]
  /\ running \in Nat /\ waiters \in Seq(Queues)
Types == RouteTypes /\ TurnTypes /\ SlotTypes

\* A slot is held by every key with a turn, and only by keys with a link.
Waiting == {k \in Queues : slot[k] = "waiting"}
Holding == {k \in Queues : slot[k] = "held"}
Distinct(s) == \A i, j \in DOMAIN s : s[i] = s[j] => i = j
SlotInv ==
  /\ Distinct(waiters) /\ Range(waiters) = Waiting
  /\ running = Cardinality(Holding) /\ running <= MaxConcurrent
  /\ waiters # << >> => running = MaxConcurrent
  /\ \A k \in Queues : /\ slot[k] # "none" => links[k] > 0
                       /\ turn[k].phase # "none" => slot[k] = "held"

\* The messages in flight of a queue key, and where they are: being routed,
\* pending or in the turn, each once.
Flying(k) == {m \in Messages : QueueKey(m) = k /\ client[m] = "inFlight"}
RoutedOnce(k) ==
  \A i, j \in DOMAIN routes[k] : routes[k][i].m = routes[k][j].m => i = j
PlacedAt(k) ==
  /\ Routed(k) \cup Range(pending[k]) \cup InTurn(k) = Flying(k)
  /\ Routed(k) \cap Range(pending[k]) = {}
  /\ InTurn(k) \cap (Routed(k) \cup Range(pending[k])) = {}
  /\ Distinct(pending[k]) /\ RoutedOnce(k)
Placed == \A k \in Queues : PlacedAt(k)

\* What the journal says of a message, by the step its routing has reached.
Journalled(r) ==
  /\ r.pc \notin {"check", "enqueue"} => Event[r.m].kind # "synthetic"
  /\ r.pc \in {"prepare", "steer", "ack"} => journal[r.m] = "sending"
  /\ r.pc \in {"put", "prepare", "steer", "enqueue"} => r.m \notin fed
  /\ r.pc = "ack" => r.result # "none" /\ (r.result = "rejected" => r.m \notin fed)
FedInv ==
  /\ \A m \in fed : /\ AlreadyDelivered(m) /\ Event[m].kind # "synthetic"
                    /\ \A k \in Queues : m \notin Range(pending[k])
  /\ \A k \in Queues : \A i \in DOMAIN routes[k] : Journalled(routes[k][i])

\* A cancelled message is settled, or still routed with a stale epoch.
CancelInv ==
  \A m \in cancelled :
    /\ client[m] # "away"
    /\ \A k \in Queues :
         /\ m \notin Range(pending[k]) /\ m \notin InTurn(k)
         /\ \A i \in DOMAIN routes[k] : routes[k][i].m = m => routes[k][i].stale

\* The sessions an event's turn may run on, and: events that may end up on the
\* same session share their queue key (what QueueKey's comment asks for).
MayRunOn(m) ==
  {SessionKey(m)} \cup
  (IF Event[m].root = None THEN {Event[m].parent} \cap TaskCards ELSE {})
OneQueue ==
  \A m, p \in Messages : MayRunOn(m) \cap MayRunOn(p) # {} => QueueKey(m) = QueueKey(p)

\* A turn's session is one of its key's, and no child of a session lingers
\* that the key's own running turn uses.
Serves(k, s) == \E m \in Messages : QueueKey(m) = k /\ s \in MayRunOn(m)
SessionInv ==
  /\ \A k \in Queues :
       turn[k].phase \notin {"none", "probe", "closing", "failing"}
         => Serves(k, turn[k].session)
  /\ \A x \in lingering : x[2] # None => Serves(x[2], x[1])
  /\ \A k \in Queues : At(k, "run") => \A x \in lingering : x # <<turn[k].session, k>>

-----------------------------------------------------------------------------
(* Sequences.                                                              *)

LEMMA RangeIn == \A S : \A s \in Seq(S) : Range(s) \subseteq S
  BY RangeOfSeq

\* Appending adds one element, and a new one keeps the sequence injective.
LEMMA AppendOne ==
  ASSUME NEW S, NEW s \in Seq(S), NEW e \in S
  PROVE  /\ Append(s, e) \in Seq(S)
         /\ Range(Append(s, e)) = Range(s) \cup {e}
         /\ Distinct(s) /\ e \notin Range(s) => Distinct(Append(s, e))
<1> DEFINE t == Append(s, e)
<1>1. /\ t \in Seq(S) /\ Len(t) = Len(s) + 1 /\ Len(s) \in Nat
      /\ DOMAIN s = 1 .. Len(s) /\ DOMAIN t = 1 .. Len(s) + 1
      /\ \A i \in 1 .. Len(s) : t[i] = s[i]
      /\ t[Len(s) + 1] = e
  BY AppendProperties, LenProperties
<1> HIDE DEF t
<1>2. Range(t) = Range(s) \cup {e}
  <2>1. ASSUME NEW x \in Range(t) PROVE x \in Range(s) \cup {e}
    <3>1. PICK i \in 1 .. Len(s) + 1 : x = t[i]
      BY <1>1 DEF Range
    <3>2. CASE i = Len(s) + 1
      BY <1>1, <3>1, <3>2
    <3>3. CASE i # Len(s) + 1
      <4>1. i \in 1 .. Len(s)
        BY <1>1, <3>3
      <4> QED BY <1>1, <3>1, <4>1 DEF Range
    <3> QED BY <3>2, <3>3
  <2>2. ASSUME NEW x \in Range(s) PROVE x \in Range(t)
    <3>1. PICK i \in 1 .. Len(s) : x = s[i]
      BY <1>1 DEF Range
    <3>2. i \in 1 .. Len(s) + 1 /\ t[i] = x
      BY <1>1, <3>1
    <3> QED BY <1>1, <3>2 DEF Range
  <2>3. Len(s) + 1 \in DOMAIN t
    BY <1>1
  <2>4. e \in Range(t)
    BY <1>1, <2>3 DEF Range
  <2> QED BY <2>1, <2>2, <2>4
<1>3. ASSUME Distinct(s), e \notin Range(s) PROVE Distinct(t)
  <2>1. \A i \in 1 .. Len(s) : t[i] \in Range(s)
    BY <1>1 DEF Range
  <2>2. \A i, j \in 1 .. Len(s) : t[i] = t[j] => i = j
    BY <1>1, <1>3 DEF Distinct
  <2> SUFFICES ASSUME NEW i \in 1 .. Len(s) + 1, NEW j \in 1 .. Len(s) + 1, t[i] = t[j]
               PROVE  i = j
    BY <1>1 DEF Distinct
  <2>3. i \in 1 .. Len(s) \/ i = Len(s) + 1
    BY <1>1
  <2>4. j \in 1 .. Len(s) \/ j = Len(s) + 1
    BY <1>1
  <2> QED BY <1>1, <1>3, <2>1, <2>2, <2>3, <2>4
<1> QED BY <1>1, <1>2, <1>3 DEF t

\* Dropping the head of an injective sequence removes one element.
LEMMA TailOne ==
  ASSUME NEW S, NEW s \in Seq(S), s # << >>
  PROVE  /\ Tail(s) \in Seq(S) /\ s[1] \in S /\ s[1] \in Range(s)
         /\ \A i \in DOMAIN Tail(s) : i + 1 \in DOMAIN s /\ Tail(s)[i] = s[i + 1]
         /\ Distinct(s) => Distinct(Tail(s)) /\ Range(Tail(s)) = Range(s) \ {s[1]}
<1> DEFINE t == Tail(s)
<1>1. /\ t \in Seq(S) /\ Len(t) = Len(s) - 1 /\ Len(s) \in Nat /\ Len(s) > 0
      /\ DOMAIN s = 1 .. Len(s) /\ DOMAIN t = 1 .. Len(s) - 1
      /\ \A i \in 1 .. Len(s) - 1 : t[i] = s[i + 1]
  BY HeadTailProperties, LenProperties, EmptySeq
<1>2. s[1] \in S /\ s[1] \in Range(s)
  <2>1. 1 \in 1 .. Len(s)
    BY <1>1
  <2> QED BY <1>1, <2>1, ElementOfSeq DEF Range
<1> HIDE DEF t
<1>3. \A i \in DOMAIN t : i + 1 \in DOMAIN s /\ t[i] = s[i + 1]
  BY <1>1
<1>4. ASSUME Distinct(s) PROVE Distinct(t) /\ Range(t) = Range(s) \ {s[1]}
  <2>1. Distinct(t)
    <3> SUFFICES ASSUME NEW i \in 1 .. Len(s) - 1, NEW j \in 1 .. Len(s) - 1, t[i] = t[j]
                 PROVE  i = j
      BY <1>1 DEF Distinct
    <3>1. s[i + 1] = s[j + 1] /\ i + 1 \in 1 .. Len(s) /\ j + 1 \in 1 .. Len(s)
      BY <1>1
    <3>2. i + 1 = j + 1
      BY <1>1, <1>4, <3>1 DEF Distinct
    <3> QED BY <3>2
  <2>2. ASSUME NEW x \in Range(t) PROVE x \in Range(s) \ {s[1]}
    <3>1. PICK i \in 1 .. Len(s) - 1 : x = t[i]
      BY <1>1 DEF Range
    <3>2. x = s[i + 1] /\ i + 1 \in 1 .. Len(s) /\ i + 1 # 1 /\ 1 \in 1 .. Len(s)
      BY <1>1, <3>1
    <3> QED BY <1>1, <1>4, <3>2 DEF Range, Distinct
  <2>3. ASSUME NEW x \in Range(s), x # s[1] PROVE x \in Range(t)
    <3>1. PICK i \in 1 .. Len(s) : x = s[i]
      BY <1>1 DEF Range
    <3>2. i # 1
      BY <2>3, <3>1
    <3>3. i - 1 \in 1 .. Len(s) - 1 /\ t[i - 1] = x
      <4>1. i - 1 \in 1 .. Len(s) - 1 /\ (i - 1) + 1 = i
        BY <1>1, <3>2
      <4>2. t[i - 1] = s[(i - 1) + 1]
        BY <1>1, <4>1
      <4> QED BY <3>1, <4>1, <4>2
    <3> QED BY <1>1, <3>3 DEF Range
  <2> QED BY <2>1, <2>2, <2>3
<1> QED BY <1>1, <1>2, <1>3, <1>4 DEF t

\* Cutting an injective sequence in two splits its elements.
LEMMA CutInTwo ==
  ASSUME NEW S, NEW s \in Seq(S), NEW c \in 1 .. Len(s)
  PROVE  LET a == SubSeq(s, 1, c)  b == SubSeq(s, c + 1, Len(s)) IN
         /\ a \in Seq(S) /\ a # << >> /\ b \in Seq(S)
         /\ Range(s) = Range(a) \cup Range(b)
         /\ Distinct(s) => Distinct(b) /\ Range(a) \cap Range(b) = {}
<1> DEFINE a == SubSeq(s, 1, c)
           b == SubSeq(s, c + 1, Len(s))
<1>0. Len(s) \in Nat /\ DOMAIN s = 1 .. Len(s) /\ c \in Nat /\ \A i \in 1 .. Len(s) : s[i] \in S
  BY LenProperties, ElementOfSeq
<1>1. /\ a \in Seq(S) /\ Len(a) = c /\ DOMAIN a = 1 .. c
      /\ \A i \in 1 .. c : a[i] = s[i]
  <2>1. \A i \in 1 .. c : s[i] \in S
    BY <1>0
  <2>2. /\ a \in Seq(S) /\ Len(a) = IF 1 <= c THEN c - 1 + 1 ELSE 0
        /\ \A i \in 1 .. c - 1 + 1 : a[i] = s[1 + i - 1]
    BY <2>1, <1>0, SubSeqProperties
  <2>3. Len(a) = c /\ \A i \in 1 .. c : a[i] = s[i]
    BY <2>2, <1>0
  <2> QED BY <2>2, <2>3, LenProperties
<1>2. /\ b \in Seq(S) /\ Len(b) = Len(s) - c /\ DOMAIN b = 1 .. Len(s) - c
      /\ \A i \in 1 .. Len(s) - c : b[i] = s[c + i]
  <2>1. \A i \in c + 1 .. Len(s) : s[i] \in S
    BY <1>0
  <2>2. /\ b \in Seq(S) /\ Len(b) = IF c + 1 <= Len(s) THEN Len(s) - (c + 1) + 1 ELSE 0
        /\ \A i \in 1 .. Len(s) - (c + 1) + 1 : b[i] = s[c + 1 + i - 1]
    BY <2>1, <1>0, SubSeqProperties
  <2>3. Len(s) - (c + 1) + 1 = Len(s) - c
    BY <1>0
  <2>4. \A i \in 1 .. Len(s) - c : c + 1 + i - 1 = c + i
    BY <1>0
  <2>5. Len(b) = Len(s) - c
    <3>0. Len(s) \in Nat /\ c \in Nat
      BY <1>0
    <3>1. CASE c = Len(s)
      <4>1. ~(c + 1 <= Len(s)) /\ Len(s) - c = 0
        BY <3>0, <3>1
      <4> QED BY <4>1, <2>2
    <3>2. CASE c # Len(s)
      <4>1. c + 1 <= Len(s)
        BY <3>0, <3>2
      <4> QED BY <4>1, <2>2, <2>3
    <3> QED BY <3>1, <3>2
  <2>6. \A i \in 1 .. Len(s) - c : b[i] = s[c + i]
    BY <2>2, <2>3, <2>4
  <2> QED BY <2>2, <2>5, <2>6, LenProperties
<1> HIDE DEF a, b
<1>3. a # << >>
  BY <1>1, <1>0
<1>4. Range(s) = Range(a) \cup Range(b)
  <2>1. ASSUME NEW x \in Range(s) PROVE x \in Range(a) \cup Range(b)
    <3>1. PICK i \in 1 .. Len(s) : x = s[i]
      BY <1>0 DEF Range
    <3>2. CASE i <= c
      <4>1. i \in 1 .. c /\ a[i] = x
        BY <1>0, <1>1, <3>1, <3>2
      <4> QED BY <1>1, <4>1 DEF Range
    <3>3. CASE ~(i <= c)
      <4>1. i - c \in 1 .. Len(s) - c /\ c + (i - c) = i
        BY <1>0, <3>3
      <4>2. b[i - c] = x
        BY <1>2, <4>1, <3>1
      <4> QED BY <1>2, <4>1, <4>2 DEF Range
    <3> QED BY <3>2, <3>3
  <2>2. ASSUME NEW x \in Range(a) PROVE x \in Range(s)
    <3>1. PICK i \in 1 .. c : x = a[i]
      BY <1>1 DEF Range
    <3>2. i \in 1 .. Len(s) /\ x = s[i]
      BY <1>0, <1>1, <3>1
    <3> QED BY <1>0, <3>2 DEF Range
  <2>3. ASSUME NEW x \in Range(b) PROVE x \in Range(s)
    <3>1. PICK i \in 1 .. Len(s) - c : x = b[i]
      BY <1>2 DEF Range
    <3>2. c + i \in 1 .. Len(s) /\ x = s[c + i]
      BY <1>0, <1>2, <3>1
    <3> QED BY <1>0, <3>2 DEF Range
  <2> QED BY <2>1, <2>2, <2>3
<1>5. ASSUME Distinct(s) PROVE Distinct(b) /\ Range(a) \cap Range(b) = {}
  <2>1. Distinct(b)
    <3> SUFFICES ASSUME NEW i \in 1 .. Len(s) - c, NEW j \in 1 .. Len(s) - c, b[i] = b[j]
                 PROVE  i = j
      BY <1>2 DEF Distinct
    <3>1. s[c + i] = s[c + j] /\ c + i \in 1 .. Len(s) /\ c + j \in 1 .. Len(s)
      BY <1>0, <1>2
    <3>2. c + i = c + j
      BY <1>0, <1>5, <3>1 DEF Distinct
    <3> QED BY <1>0, <3>2
  <2>2. ASSUME NEW x \in Range(a), x \in Range(b) PROVE FALSE
    <3>1. PICK i \in 1 .. c : x = a[i]
      BY <1>1 DEF Range
    <3>2. PICK j \in 1 .. Len(s) - c : x = b[j]
      BY <1>2, <2>2 DEF Range
    <3>3. i \in 1 .. Len(s) /\ c + j \in 1 .. Len(s) /\ i # c + j
      BY <1>0
    <3>4. s[i] = x /\ s[c + j] = x
      BY <1>1, <1>2, <3>1, <3>2
    <3> QED BY <1>0, <1>5, <3>3, <3>4 DEF Distinct
  <2> QED BY <2>1, <2>2
<1> QED BY <1>1, <1>2, <1>3, <1>4, <1>5 DEF a, b

-----------------------------------------------------------------------------
(* Keys, and the ways a step changes the routing chains.                   *)

\* No queue key is the mark of a child that outlived a crash.
LEMMA KeysAreSome == \A k \in Queues : k # None
  BY BridgeAssumption DEF Queues, QueueKey, SessionKey

LEMMA Keys ==
  /\ \A m \in Messages : QueueKey(m) \in Queues /\ SessionKey(m) \in Sessions
  /\ \A k \in Queues : \E m \in Messages : QueueKey(m) = k
  /\ IsFiniteSet(Queues)
<1>1. \A m \in Messages : QueueKey(m) \in Queues /\ SessionKey(m) \in Sessions
  BY DEF Queues, Sessions
<1>2. \A k \in Queues : \E m \in Messages : QueueKey(m) = k
  BY DEF Queues
<1> DEFINE f == [m \in Messages |-> QueueKey(m)]
<1>3. f \in Surjection(Messages, Queues)
  BY DEF Queues, Surjection
<1>4. IsFiniteSet(Queues)
  BY <1>3, FS_Surjection, BridgeAssumption
<1> QED BY <1>1, <1>2, <1>4

\* The head of k's chain becomes r; every chain keeps its length.
Advance(k, r) ==
  /\ routes' \in [Queues -> Seq(RouteRecs)]
  /\ \A j \in Queues : DOMAIN routes'[j] = DOMAIN routes[j]
  /\ \A j \in Queues : \A i \in DOMAIN routes[j] :
       routes'[j][i] = IF j = k /\ i = 1 THEN r ELSE routes[j][i]

LEMMA HeadRoute ==
  ASSUME RouteTypes, NEW k \in Queues, Head1(k)
  PROVE  routes[k][1] \in RouteRecs /\ 1 \in DOMAIN routes[k] /\ routes[k] \in Seq(RouteRecs)
<1>1. routes[k] \in Seq(RouteRecs) /\ routes[k] # << >>
  BY DEF RouteTypes, Head1
<1>2. Len(routes[k]) \in Nat /\ Len(routes[k]) # 0
  BY <1>1, EmptySeq, LenProperties
<1>3. 1 \in 1 .. Len(routes[k])
  BY <1>2
<1> QED BY <1>1, <1>3, LenProperties, ElementOfSeq

LEMMA AdvanceHead ==
  ASSUME RouteTypes, NEW k \in Queues, Head1(k), NEW r \in RouteRecs,
         routes' = [routes EXCEPT ![k] = [@ EXCEPT ![1] = r]]
  PROVE  Advance(k, r)
<1> DEFINE s == routes[k]
<1>1. s \in Seq(RouteRecs) /\ 1 \in DOMAIN s /\ DOMAIN s = 1 .. Len(s)
  BY HeadRoute, LenProperties
<1>2. routes'[k] = [s EXCEPT ![1] = r] /\ \A j \in Queues : j # k => routes'[j] = routes[j]
  BY DEF RouteTypes
<1>3. /\ [s EXCEPT ![1] = r] \in Seq(RouteRecs)
      /\ \A i \in 1 .. Len(s) : [s EXCEPT ![1] = r][i] = IF i = 1 THEN r ELSE s[i]
  BY <1>1, ExceptSeq
<1>4. routes' \in [Queues -> Seq(RouteRecs)]
  BY <1>3 DEF RouteTypes
<1> QED BY <1>1, <1>2, <1>3, <1>4 DEF Advance

LEMMA GoToAdvances ==
  ASSUME RouteTypes, NEW k \in Queues, Head1(k), NEW pc \in StepsOfRoute, GoTo(k, pc)
  PROVE  Advance(k, [routes[k][1] EXCEPT !.pc = pc])
<1> DEFINE r == [routes[k][1] EXCEPT !.pc = pc]
<1>1. r \in RouteRecs
  BY HeadRoute DEF RouteRecs
<1>2. routes' = [routes EXCEPT ![k] = [@ EXCEPT ![1] = r]]
  BY DEF GoTo
<1> QED BY <1>1, <1>2, AdvanceHead

\* The head of k's chain has left.
Left(k) ==
  /\ routes' \in [Queues -> Seq(RouteRecs)]
  /\ \A j \in Queues : j # k => routes'[j] = routes[j]
  /\ \A i \in DOMAIN routes'[k] : /\ i + 1 \in DOMAIN routes[k]
                                  /\ routes'[k][i] = routes[k][i + 1] /\ i + 1 # 1
  /\ \A i \in DOMAIN routes[k] :
       i # 1 => \E j \in DOMAIN routes'[k] : routes'[k][j] = routes[k][i]

LEMMA LeaveLeft ==
  ASSUME RouteTypes, NEW k \in Queues, Head1(k), Leave(k)
  PROVE  Left(k)
<1> DEFINE s == routes[k]
           t == Tail(s)
<1>1. s \in Seq(RouteRecs) /\ s # << >>
  BY DEF RouteTypes, Head1
<1>2. /\ t \in Seq(RouteRecs) /\ Len(t) = Len(s) - 1 /\ Len(s) \in Nat
      /\ DOMAIN s = 1 .. Len(s) /\ DOMAIN t = 1 .. Len(t)
      /\ \A i \in 1 .. Len(t) : t[i] = s[i + 1]
  BY <1>1, HeadTailProperties, LenProperties
<1>3. routes'[k] = t /\ \A j \in Queues : j # k => routes'[j] = routes[j]
  BY DEF RouteTypes, Leave
<1>4. routes' \in [Queues -> Seq(RouteRecs)]
  BY <1>2 DEF RouteTypes, Leave
<1> HIDE DEF t
<1>5. \A i \in DOMAIN t : i + 1 \in DOMAIN s /\ t[i] = s[i + 1] /\ i + 1 # 1
  BY <1>2
<1>6. ASSUME NEW i \in DOMAIN s, i # 1
      PROVE  \E j \in DOMAIN t : t[j] = s[i]
  <2>1. i - 1 \in DOMAIN t /\ (i - 1) + 1 = i
    BY <1>2, <1>6
  <2> QED BY <2>1, <1>5
<1> QED BY <1>3, <1>4, <1>5, <1>6 DEF Left

\* A message joins the end of its chain.
Joined(k, m) ==
  /\ routes' \in [Queues -> Seq(RouteRecs)]
  /\ \A j \in Queues : j # k => routes'[j] = routes[j]
  /\ \A i \in DOMAIN routes[k] : i \in DOMAIN routes'[k] /\ routes'[k][i] = routes[k][i]
  /\ \E e \in DOMAIN routes'[k] : /\ routes'[k][e] = Route(m)
                                  /\ \A i \in DOMAIN routes'[k] : i # e => i \in DOMAIN routes[k]

LEMMA ReceiveJoins ==
  ASSUME RouteTypes, NEW m \in Messages,
         routes' = [routes EXCEPT ![QueueKey(m)] = Append(@, Route(m))]
  PROVE  Joined(QueueKey(m), m)
<1> DEFINE k == QueueKey(m)
           s == routes[k]
           t == Append(s, Route(m))
<1>1. k \in Queues /\ s \in Seq(RouteRecs) /\ Route(m) \in RouteRecs
  BY Keys DEF RouteTypes, Route, RouteRecs, StepsOfRoute, Results
<1>2. /\ t \in Seq(RouteRecs) /\ Len(t) = Len(s) + 1 /\ Len(s) \in Nat
      /\ DOMAIN s = 1 .. Len(s) /\ DOMAIN t = 1 .. Len(s) + 1
      /\ \A i \in 1 .. Len(s) : t[i] = s[i]
      /\ t[Len(s) + 1] = Route(m)
  BY <1>1, AppendProperties, LenProperties
<1>3. routes'[k] = t /\ \A j \in Queues : j # k => routes'[j] = routes[j]
  BY <1>1 DEF RouteTypes
<1>4. routes' \in [Queues -> Seq(RouteRecs)]
  BY <1>1, <1>2 DEF RouteTypes
<1> HIDE DEF k, t
<1>5. \A i \in DOMAIN s : i \in DOMAIN t /\ t[i] = s[i]
  BY <1>2
<1>6. Len(s) + 1 \in DOMAIN t /\ \A i \in DOMAIN t : i # Len(s) + 1 => i \in DOMAIN s
  BY <1>2
<1>7. Joined(k, m)
  BY <1>2, <1>3, <1>4, <1>5, <1>6 DEF Joined
<1> QED BY <1>7 DEF k

\* The chains keep their messages and their steps.
Kept ==
  /\ routes' \in [Queues -> Seq(RouteRecs)]
  /\ \A j \in Queues : DOMAIN routes'[j] = DOMAIN routes[j]
  /\ \A j \in Queues : \A i \in DOMAIN routes[j] :
       /\ routes'[j][i].m = routes[j][i].m /\ routes'[j][i].pc = routes[j][i].pc
       /\ routes'[j][i].result = routes[j][i].result
       /\ routes[j][i].stale => routes'[j][i].stale

LEMMA OrphanedKept ==
  ASSUME RouteTypes, NEW s, routes' = Orphaned(s)
  PROVE  Kept
<1> DEFINE o(k) == [i \in DOMAIN routes[k] |->
                      IF SessionKey(routes[k][i].m) = s
                      THEN [routes[k][i] EXCEPT !.live = FALSE] ELSE routes[k][i]]
<1>1. \A k \in Queues : routes'[k] = o(k)
  BY DEF Orphaned
<1>2. ASSUME NEW k \in Queues
      PROVE  /\ o(k) \in Seq(RouteRecs) /\ DOMAIN o(k) = DOMAIN routes[k]
             /\ \A i \in DOMAIN routes[k] :
                  /\ o(k)[i].m = routes[k][i].m /\ o(k)[i].pc = routes[k][i].pc
                  /\ o(k)[i].result = routes[k][i].result
                  /\ o(k)[i].stale = routes[k][i].stale
  <2>1. routes[k] \in Seq(RouteRecs) /\ DOMAIN routes[k] = 1 .. Len(routes[k])
        /\ Len(routes[k]) \in Nat /\ \A i \in DOMAIN routes[k] : routes[k][i] \in RouteRecs
    BY LenProperties, ElementOfSeq DEF RouteTypes
  <2>2. o(k) \in [1 .. Len(routes[k]) -> RouteRecs]
    BY <2>1 DEF RouteRecs
  <2>3. o(k) \in Seq(RouteRecs)
    BY <2>1, <2>2, SeqDef
  <2>4. \A i \in DOMAIN routes[k] :
          /\ o(k)[i].m = routes[k][i].m /\ o(k)[i].pc = routes[k][i].pc
          /\ o(k)[i].result = routes[k][i].result
          /\ o(k)[i].stale = routes[k][i].stale
    BY <2>1 DEF RouteRecs
  <2> QED BY <2>3, <2>4
<1>3. routes' \in [Queues -> Seq(RouteRecs)]
  <2>1. routes' = [k \in Queues |-> o(k)]
    BY DEF Orphaned
  <2> HIDE DEF o
  <2> QED BY <2>1, <1>2
<1> HIDE DEF o
<1> QED BY <1>1, <1>2, <1>3 DEF Kept

LEMMA StaleKept ==
  ASSUME RouteTypes, NEW q \in Queues, routes' = [routes EXCEPT ![q] = Stale(q)]
  PROVE  Kept /\ \A i \in DOMAIN routes[q] : routes'[q][i].stale
<1> DEFINE t == Stale(q)
<1>1. routes[q] \in Seq(RouteRecs) /\ DOMAIN routes[q] = 1 .. Len(routes[q])
      /\ Len(routes[q]) \in Nat /\ \A i \in DOMAIN routes[q] : routes[q][i] \in RouteRecs
  BY LenProperties, ElementOfSeq DEF RouteTypes
<1>2. t \in [1 .. Len(routes[q]) -> RouteRecs]
  BY <1>1 DEF RouteRecs, Stale
<1>3. t \in Seq(RouteRecs) /\ DOMAIN t = DOMAIN routes[q]
  BY <1>1, <1>2, SeqDef
<1>4. \A i \in DOMAIN routes[q] :
        /\ t[i].m = routes[q][i].m /\ t[i].pc = routes[q][i].pc
        /\ t[i].result = routes[q][i].result /\ t[i].stale
  BY <1>1 DEF RouteRecs, Stale
<1> HIDE DEF t
<1>5. routes'[q] = t /\ \A j \in Queues : j # q => routes'[j] = routes[j]
  BY DEF RouteTypes, t
<1>6. routes' \in [Queues -> Seq(RouteRecs)]
  BY <1>3, <1>5 DEF RouteTypes, t
<1> QED BY <1>3, <1>4, <1>5, <1>6 DEF Kept

-----------------------------------------------------------------------------
(* Types.                                                                  *)

\* A drain takes a non-empty first part of what is pending.
LEMMA AbsorbedType ==
  ASSUME NEW q \in Seq(Messages), q # << >>
  PROVE  Absorbed(q) \in 1 .. Len(q)
<1> DEFINE Here(n) == n = Len(q) \/ ~CanCoalesce(q[1], q[n + 1])
           T == {n \in 1 .. Len(q) : Here(n)}
<1>1. Len(q) \in Nat /\ Len(q) > 0
  BY EmptySeq, LenProperties
<1>2. T \subseteq Nat /\ Len(q) \in T
  BY <1>1
<1>3. PICK x \in T : \A y \in T : ~(<<y, x>> \in OpToRel(<, Nat))
  BY <1>2, WFMin, NatLessThanWellFounded, Zenon
<1>4. x \in 1 .. Len(q) /\ Here(x) /\ \A y \in T : ~(y < x)
  BY <1>2, <1>3 DEF OpToRel
<1>5. ASSUME NEW i \in 2 .. x PROVE CanCoalesce(q[1], q[i])
  <2>1. i - 1 \in 1 .. Len(q) /\ i - 1 < x /\ (i - 1) + 1 = i
    BY <1>1, <1>4
  <2>2. i - 1 \notin T
    BY <1>4, <2>1
  <2> QED BY <2>1, <2>2
<1> QED BY <1>4, <1>5 DEF Absorbed

LEMMA DrainTakes ==
  ASSUME RouteTypes, NEW k \in Queues, pending[k] # << >>
  PROVE  LET q == pending[k]  rest == SubSeq(q, Absorbed(q) + 1, Len(q)) IN
         /\ Taken(q) \in Seq(Messages) /\ Taken(q) # << >> /\ rest \in Seq(Messages)
         /\ Range(q) = Range(Taken(q)) \cup Range(rest)
         /\ Distinct(q) => Distinct(rest) /\ Range(Taken(q)) \cap Range(rest) = {}
<1>1. pending[k] \in Seq(Messages)
  BY DEF RouteTypes
<1>2. Absorbed(pending[k]) \in 1 .. Len(pending[k])
  BY <1>1, AbsorbedType
<1> QED BY <1>1, <1>2, CutInTwo DEF Taken

LEMMA OwnedMessages ==
  ASSUME Types, NEW k \in Queues
  PROVE  Routed(k) \subseteq Messages /\ Range(pending[k]) \subseteq Messages
         /\ InTurn(k) \subseteq Messages
<1>1. routes[k] \in Seq(RouteRecs) /\ pending[k] \in Seq(Messages) /\ turn[k].msgs \in Seq(Messages)
  BY DEF Types, RouteTypes, TurnTypes, TurnRecs
<1>2. /\ Range(routes[k]) \subseteq RouteRecs /\ Range(pending[k]) \subseteq Messages
      /\ Range(turn[k].msgs) \subseteq Messages
  BY <1>1, RangeIn
<1>3. Routed(k) \subseteq Messages
  BY <1>2 DEF Routed, RouteRecs
<1> QED BY <1>2, <1>3 DEF InTurn

LEMMA ClientTyped ==
  ASSUME client \in [Messages -> ClientViews], NEW S,
         MarkHandled(S) \/ MarkUnhandled(S)
  PROVE  client' \in [Messages -> ClientViews]
  BY DEF ClientViews, MarkHandled, MarkUnhandled

LEMMA RouteTypesStep == Types /\ Next => RouteTypes'
<1> SUFFICES ASSUME Types, Next PROVE RouteTypes'
  OBVIOUS
<1> USE DEF Types
<1>0. UNCHANGED <<client, routes, pending, journal, fed, cancelled>> => RouteTypes'
  BY DEF RouteTypes
<1>r. ASSUME NEW k \in Queues, Head1(k), Leave(k) PROVE routes' \in [Queues -> Seq(RouteRecs)]
  BY <1>r, LeaveLeft DEF Left
<1>1. ASSUME NEW m \in Messages, Receive(m) PROVE RouteTypes'
  <2>1. routes' \in [Queues -> Seq(RouteRecs)]
    BY <1>1, ReceiveJoins DEF Receive, Joined
  <2> QED BY <1>1, <2>1 DEF Receive, RouteTypes, ClientViews
<1>2. ASSUME NEW m \in Messages, Stop(m) PROVE RouteTypes'
  <2> DEFINE C == Candidates(m)
             dropped == UNION {Range(pending[k]) : k \in C}
  <2>1. C \subseteq Queues /\ QueueKey(m) \in Queues
    BY Keys DEF Candidates
  <2>2. dropped \subseteq Messages /\ Routed(QueueKey(m)) \subseteq Messages
    BY <2>1, OwnedMessages
  <2>3. routes' \in [Queues -> Seq(RouteRecs)]
    BY <1>2, <2>1, StaleKept DEF Stop, Kept
  <2>4. client' \in [Messages -> ClientViews]
    BY <1>2, ClientTyped DEF Stop, RouteTypes
  <2>5. pending' \in [Queues -> Seq(Messages)]
    <3>1. pending' = [k \in Queues |-> IF k \in C THEN << >> ELSE pending[k]]
      BY <1>2 DEF Stop
    <3>2. << >> \in Seq(Messages)
      BY EmptySeq
    <3> QED BY <3>1, <3>2 DEF RouteTypes
  <2>6. journal' = journal /\ fed' = fed /\ cancelled' \subseteq Messages
    BY <1>2, <2>2 DEF Stop, RouteTypes
  <2> QED BY <2>3, <2>4, <2>5, <2>6 DEF RouteTypes
<1>3. ASSUME NEW k \in Queues, CheckRoute(k) PROVE RouteTypes'
  <2>1. Head1(k)
    BY <1>3 DEF CheckRoute, Routing
  <2>2. CASE Done(k)
    BY <1>3, <2>1, <2>2, <1>r, ClientTyped DEF CheckRoute, Done, RouteTypes, Dispatching
  <2>3. CASE (GoTo(k, "enqueue") \/ GoTo(k, "journal")) /\ UNCHANGED client
    <3>1. routes' \in [Queues -> Seq(RouteRecs)]
      BY <2>1, <2>3, GoToAdvances DEF Advance, StepsOfRoute
    <3> QED BY <1>3, <2>3, <3>1 DEF CheckRoute, RouteTypes, Dispatching
  <2> QED BY <1>3, <2>2, <2>3 DEF CheckRoute
<1>4. ASSUME NEW k \in Queues, LookUpDelivery(k) PROVE RouteTypes'
  <2> DEFINE s == SessionKey(routes[k][1].m)
  <2>1. Head1(k)
    BY <1>4 DEF LookUpDelivery, Routing
  <2>2. CASE Done(k)
    BY <1>4, <2>1, <2>2, <1>r, ClientTyped DEF LookUpDelivery, Done, RouteTypes, Dispatching
  <2>3. CASE GoTo(k, "enqueue") /\ UNCHANGED client
    <3>1. routes' \in [Queues -> Seq(RouteRecs)]
      BY <2>1, <2>3, GoToAdvances DEF Advance, StepsOfRoute
    <3> QED BY <1>4, <2>3, <3>1 DEF LookUpDelivery, RouteTypes, Dispatching
  <2>4. CASE /\ routes' = [routes EXCEPT ![k][1].pc = "put", ![k][1].live = TRUE]
             /\ UNCHANGED client
    <3>1. [routes[k][1] EXCEPT !.pc = "put", !.live = TRUE] \in RouteRecs
      BY <2>1, HeadRoute DEF RouteRecs, StepsOfRoute
    <3>2. routes' = [routes EXCEPT ![k] = [@ EXCEPT ![1] =
                       [routes[k][1] EXCEPT !.pc = "put", !.live = TRUE]]]
      BY <2>4, <2>1, HeadRoute DEF RouteTypes
    <3>3. routes' \in [Queues -> Seq(RouteRecs)]
      BY <2>1, <3>1, <3>2, AdvanceHead DEF Advance
    <3> QED BY <1>4, <2>4, <3>3 DEF LookUpDelivery, RouteTypes, Dispatching
  <2> QED BY <1>4, <2>2, <2>3, <2>4 DEF LookUpDelivery
<1>5. ASSUME NEW k \in Queues, HoldRoute(k) PROVE RouteTypes'
  <2>1. Head1(k) /\ Done(k) /\ UNCHANGED <<pending, fed, cancelled>>
    BY <1>5 DEF HoldRoute, Dispatching
  <2>2. journal' \in [Messages -> JournalViews]
    BY <1>5, <2>1, HeadRoute DEF HoldRoute, RouteTypes, JournalViews, RouteRecs
  <2> QED BY <2>1, <2>2, <1>r, ClientTyped DEF Done, RouteTypes
<1>6. ASSUME NEW k \in Queues, PutSending(k) PROVE RouteTypes'
  <2>1. routes' \in [Queues -> Seq(RouteRecs)]
    BY <1>6, GoToAdvances DEF PutSending, Routing, Advance, StepsOfRoute
  <2>2. journal' \in [Messages -> JournalViews]
    BY <1>6 DEF PutSending, RouteTypes, JournalViews
  <2> QED BY <1>6, <2>1, <2>2 DEF PutSending, RouteTypes, Dispatching
<1>7. ASSUME NEW k \in Queues, Prepare(k) PROVE RouteTypes'
  <2>1. routes' \in [Queues -> Seq(RouteRecs)]
    BY <1>7, GoToAdvances DEF Prepare, Routing, Advance, StepsOfRoute
  <2> QED BY <1>7, <2>1 DEF Prepare, RouteTypes, Dispatching
<1>8. ASSUME NEW k \in Queues, Steer(k) PROVE RouteTypes'
  <2>1. Head1(k) /\ UNCHANGED <<client, pending, journal, cancelled>>
    BY <1>8 DEF Steer, Routing, Dispatching
  <2>2. PICK res \in Results \ {"none"} :
           /\ routes' = [routes EXCEPT ![k][1].pc = "ack", ![k][1].result = res]
           /\ fed' \in {fed \cup (IF res = "rejected" THEN {} ELSE {routes[k][1].m})}
    BY <1>8 DEF Steer
  <2>3. [routes[k][1] EXCEPT !.pc = "ack", !.result = res] \in RouteRecs
    BY <2>1, HeadRoute DEF RouteRecs, StepsOfRoute, Results
  <2>4. routes' = [routes EXCEPT ![k] = [@ EXCEPT ![1] =
                     [routes[k][1] EXCEPT !.pc = "ack", !.result = res]]]
    BY <2>2, <2>1, HeadRoute DEF RouteTypes
  <2>5. routes' \in [Queues -> Seq(RouteRecs)]
    BY <2>1, <2>3, <2>4, AdvanceHead DEF Advance
  <2>6. fed' \subseteq Messages
    BY <2>1, <2>2, HeadRoute DEF RouteTypes, RouteRecs
  <2> QED BY <2>1, <2>5, <2>6 DEF RouteTypes
<1>9. ASSUME NEW k \in Queues, Acknowledge(k) PROVE RouteTypes'
  <2>1. Head1(k) /\ UNCHANGED <<pending, fed, cancelled>>
    BY <1>9 DEF Acknowledge, Routing, Dispatching
  <2>2. journal' \in [Messages -> JournalViews]
    BY <1>9, <2>1, HeadRoute DEF Acknowledge, RouteTypes, JournalViews, RouteRecs, Results
  <2>3. CASE Done(k)
    BY <2>1, <2>2, <2>3, <1>r, ClientTyped DEF Done, RouteTypes
  <2>4. CASE GoTo(k, "enqueue") /\ UNCHANGED client
    <3>1. routes' \in [Queues -> Seq(RouteRecs)]
      BY <2>1, <2>4, GoToAdvances DEF Advance, StepsOfRoute
    <3> QED BY <2>1, <2>2, <2>4, <3>1 DEF RouteTypes
  <2> QED BY <1>9, <2>3, <2>4 DEF Acknowledge
<1>10. ASSUME NEW k \in Queues, AcknowledgeFails(k) PROVE RouteTypes'
  BY <1>10, <1>r, ClientTyped DEF AcknowledgeFails, Routing, Done, RouteTypes, Dispatching
<1>11. ASSUME NEW k \in Queues, Enqueue(k) PROVE RouteTypes'
  <2>1. Head1(k) /\ UNCHANGED <<journal, fed, cancelled>>
    BY <1>11 DEF Enqueue, Routing
  <2>2. CASE Done(k) /\ UNCHANGED pending
    BY <2>1, <2>2, <1>r, ClientTyped DEF Done, RouteTypes
  <2>3. CASE Leave(k) /\ UNCHANGED client
             /\ pending' = [pending EXCEPT ![k] = Append(@, routes[k][1].m)]
    <3>1. pending' \in [Queues -> Seq(Messages)]
      BY <2>1, <2>3, HeadRoute, AppendProperties DEF RouteTypes, RouteRecs
    <3> QED BY <2>1, <2>3, <3>1, <1>r DEF RouteTypes
  <2> QED BY <1>11, <2>2, <2>3 DEF Enqueue
<1>12. ASSUME NEW k \in Queues, Drain(k) PROVE RouteTypes'
  <2>1. UNCHANGED Routers
    BY <1>12 DEF Drain
  <2>2. CASE pending[k] = << >>
    BY <1>12, <2>1, <2>2 DEF Drain, RouteTypes, Routers
  <2>3. CASE pending[k] # << >>
    <3>1. pending' = [pending EXCEPT ![k] =
                        SubSeq(pending[k], Absorbed(pending[k]) + 1, Len(pending[k]))]
      BY <1>12, <2>3 DEF Drain
    <3>2. pending' \in [Queues -> Seq(Messages)]
      BY <2>3, <3>1, DrainTakes DEF RouteTypes
    <3> QED BY <2>1, <3>2 DEF RouteTypes, Routers
  <2> QED BY <2>2, <2>3
<1>13. ASSUME NEW k \in Queues, RefuseTurn(k) \/ Finalize(k) \/ FailTurn(k) PROVE RouteTypes'
  <2>1. UNCHANGED <<routes, pending, journal, fed, cancelled>>
    <3>1. Settled(k) => UNCHANGED <<routes, pending, journal, fed, cancelled>>
      BY DEF Settled
    <3>2. RefuseTurn(k) => UNCHANGED <<routes, pending, journal, fed, cancelled>>
      BY DEF RefuseTurn, Routers
    <3> QED BY <1>13, <3>1, <3>2 DEF Finalize, FailTurn
  <2>2. client' \in [Messages -> ClientViews]
    <3>1. RefuseTurn(k) => client' = client
      BY DEF RefuseTurn, Routers
    <3> QED BY <1>13, <3>1, ClientTyped DEF Finalize, FailTurn, SettleOk, RouteTypes
  <2> QED BY <2>1, <2>2 DEF RouteTypes
<1>14. ASSUME NEW k \in Queues, RunEnds(k) PROVE RouteTypes'
  BY <1>14, OrphanedKept DEF RunEnds, Kept, RouteTypes
<1>15. ASSUME Crash PROVE RouteTypes'
  <2>1. << >> \in Seq(RouteRecs) /\ << >> \in Seq(Messages)
    BY EmptySeq
  <2> QED BY <1>15, <2>1 DEF Crash, RouteTypes, ClientViews
<1>16. ASSUME NEW k \in Queues,
              \/ Acquire(k) \/ Probe(k) \/ SetUp(k) \/ SetUpFails(k) \/ Spawn(k)
              \/ TryAgain(k) \/ FinalizeFails(k) \/ CloseTurn(k)
       PROVE  RouteTypes'
  BY <1>16, <1>0 DEF Acquire, Probe, SetUp, SetUpFails, Spawn, TryAgain, FinalizeFails,
                     CloseTurn, Routers
<1>17. ASSUME NEW x \in lingering, ChildExits(x) PROVE RouteTypes'
  BY <1>17, <1>0 DEF ChildExits, Routers
<1> QED
  BY <1>1, <1>2, <1>3, <1>4, <1>5, <1>6, <1>7, <1>8, <1>9, <1>10, <1>11, <1>12, <1>13,
     <1>14, <1>15, <1>16, <1>17 DEF Next, Progress, Troubles

\* What a step may write into a turn's record.
LEMMA HoldField ==
  ASSUME NEW t \in TurnRecs
  PROVE  LET u == [t EXCEPT !.hold = TRUE] IN
         u \in TurnRecs /\ u.phase = t.phase /\ u.msgs = t.msgs /\ u.session = t.session
  BY DEF TurnRecs
LEMMA StoppedField ==
  ASSUME NEW t \in TurnRecs
  PROVE  LET u == [t EXCEPT !.stopped = TRUE] IN
         u \in TurnRecs /\ u.phase = t.phase /\ u.msgs = t.msgs /\ u.session = t.session
  BY DEF TurnRecs
LEMMA RunFields ==
  ASSUME NEW t \in TurnRecs
  PROVE  LET u == [t EXCEPT !.phase = "run", !.stopped = t.hold] IN
         u \in TurnRecs /\ u.phase = "run" /\ u.msgs = t.msgs /\ u.session = t.session
  BY DEF TurnRecs, Phases
LEMMA AgainFields ==
  ASSUME NEW t \in TurnRecs
  PROVE  LET u == [t EXCEPT !.phase = "again", !.attempt = 2] IN
         u \in TurnRecs /\ u.phase = "again" /\ u.msgs = t.msgs /\ u.session = t.session
  BY DEF TurnRecs, Phases

\* A /stop leaves every turn where it is.
LEMMA StopKeeps ==
  ASSUME TurnTypes, NEW K, StopTurn(K)
  PROVE  /\ turn' \in [Queues -> TurnRecs]
         /\ \A k \in Queues : /\ turn'[k].phase = turn[k].phase /\ turn'[k].msgs = turn[k].msgs
                              /\ turn'[k].session = turn[k].session
<1>1. turn' = [k \in Queues |->
                 IF k \notin K THEN turn[k]
                 ELSE IF turn[k].phase = "retry" THEN [turn[k] EXCEPT !.hold = TRUE]
                 ELSE [turn[k] EXCEPT !.stopped = TRUE]]
  BY DEF StopTurn
<1>2. ASSUME NEW k \in Queues
      PROVE  /\ turn'[k] \in TurnRecs /\ turn'[k].phase = turn[k].phase
             /\ turn'[k].msgs = turn[k].msgs /\ turn'[k].session = turn[k].session
  <2>1. turn[k] \in TurnRecs
    BY DEF TurnTypes
  <2>2. CASE k \notin K
    BY <1>1, <2>1, <2>2
  <2>3. CASE k \in K /\ turn[k].phase = "retry"
    <3>1. turn'[k] = [turn[k] EXCEPT !.hold = TRUE]
      BY <1>1, <2>3
    <3> QED BY <2>1, <3>1, HoldField
  <2>4. CASE k \in K /\ turn[k].phase # "retry"
    <3>1. turn'[k] = [turn[k] EXCEPT !.stopped = TRUE]
      BY <1>1, <2>4
    <3> QED BY <2>1, <3>1, StoppedField
  <2> QED BY <2>2, <2>3, <2>4
<1> QED BY <1>1, <1>2

LEMMA TurnTypesStep == Types /\ Next => TurnTypes'
<1> SUFFICES ASSUME Types, Next PROVE TurnTypes'
  OBVIOUS
<1> USE DEF Types
<1>0. UNCHANGED <<turn, active, stops, lingering>> => TurnTypes'
  BY DEF TurnTypes, At
<1>1. ASSUME NEW k \in Queues,
             \/ CheckRoute(k) \/ LookUpDelivery(k) \/ PutSending(k) \/ Prepare(k) \/ Steer(k)
             \/ Acknowledge(k) \/ HoldRoute(k) \/ AcknowledgeFails(k)
      PROVE  TurnTypes'
  BY <1>1, <1>0 DEF CheckRoute, LookUpDelivery, PutSending, Prepare, Steer, Acknowledge,
                    HoldRoute, AcknowledgeFails, Dispatching
<1>2. ASSUME NEW k \in Queues, Enqueue(k) \/ Acquire(k) PROVE TurnTypes'
  BY <1>2, <1>0 DEF Enqueue, Acquire
<1>3. ASSUME NEW m \in Messages, Receive(m) PROVE TurnTypes'
  BY <1>3, <1>0 DEF Receive
<1>4. ASSUME NEW m \in Messages, Stop(m) PROVE TurnTypes'
  <2>1. StopTurn(Hit(m)) /\ UNCHANGED <<stops, lingering>>
    BY <1>4 DEF Stop
  <2>2. /\ turn' \in [Queues -> TurnRecs]
        /\ \A k \in Queues : /\ turn'[k].phase = turn[k].phase /\ turn'[k].msgs = turn[k].msgs
                             /\ turn'[k].session = turn[k].session
    BY <2>1, StopKeeps
  <2>3. active' \in [Sessions -> Queues \cup {None}]
    BY <2>1 DEF StopTurn, TurnTypes
  <2> QED BY <2>1, <2>2, <2>3 DEF TurnTypes
<1>5. ASSUME NEW k \in Queues, Drain(k) PROVE TurnTypes'
  <2>1. UNCHANGED <<active, stops, lingering>>
    BY <1>5 DEF Drain
  <2>2. CASE pending[k] = << >>
    BY <1>5, <2>1, <2>2, <1>0 DEF Drain
  <2>3. CASE pending[k] # << >>
    <3> DEFINE t == [NoTurn EXCEPT !.phase = "probe", !.msgs = Taken(pending[k])]
    <3>1. turn' = [turn EXCEPT ![k] = t]
      BY <1>5, <2>3 DEF Drain
    <3>2. Taken(pending[k]) \in Seq(Messages) /\ Taken(pending[k]) # << >>
      BY <2>3, DrainTakes
    <3>3. t \in TurnRecs /\ t.phase = "probe" /\ t.msgs # << >>
      BY <3>2 DEF NoTurn, TurnRecs, Phases
    <3> HIDE DEF t
    <3> QED BY <2>1, <3>1, <3>3 DEF TurnTypes
  <2> QED BY <2>2, <2>3
<1>6. ASSUME NEW k \in Queues, Probe(k) PROVE TurnTypes'
  <2>1. PICK s \in {SessionKey(Primary(k))} \cup
                   (IF Event[Primary(k)].root = None
                    THEN {Event[Primary(k)].parent} \cap TaskCards ELSE {}) :
           turn' = [turn EXCEPT ![k].phase = "setup", ![k].session = s]
    BY <1>6 DEF Probe
  <2>2. turn[k].msgs \in Seq(Messages) /\ turn[k].msgs # << >> /\ turn[k] \in TurnRecs
    BY <1>6 DEF Probe, At, TurnTypes, TurnRecs
  <2>3. Primary(k) \in Messages
    BY <2>2, TailOne DEF Primary
  <2>4. s \in Sessions
    BY <2>1, <2>3, Keys DEF Sessions, Ids
  <2>5. turn'[k] \in TurnRecs /\ turn'[k].phase = "setup" /\ turn'[k].session = s
        /\ turn'[k].msgs # << >> /\ \A j \in Queues : j # k => turn'[j] = turn[j]
    BY <2>1, <2>2, <2>4 DEF TurnRecs, Phases, TurnTypes
  <2>6. turn' \in [Queues -> TurnRecs] /\ UNCHANGED <<active, stops, lingering>>
    BY <1>6, <2>1, <2>5 DEF TurnTypes, Probe
  <2> QED BY <2>4, <2>5, <2>6 DEF TurnTypes
\* A turn that goes on, with its messages and its session.
<1> DEFINE Goes(k, p) ==
      /\ turn' \in [Queues -> TurnRecs]
      /\ \A j \in Queues : j # k => turn'[j] = turn[j]
      /\ turn'[k].phase = p /\ turn'[k].msgs = turn[k].msgs
      /\ turn'[k].session = turn[k].session
<1>7. ASSUME NEW k \in Queues, NEW p \in Phases, Goes(k, p),
             p # "none", turn[k].phase \notin {"none", "closing"},
             \/ p \in {"failing", "closing"}
             \/ turn[k].phase \notin {"none", "probe", "closing", "failing"},
             active' \in [Sessions -> Queues \cup {None}], stops' \subseteq Queues,
             lingering' \subseteq Sessions \X (Queues \cup {None})
      PROVE  TurnTypes'
  BY <1>7 DEF TurnTypes
<1>g. ASSUME NEW k \in Queues, NEW p \in Phases, turn' = [turn EXCEPT ![k].phase = p]
      PROVE  Goes(k, p)
  BY <1>g DEF TurnTypes, TurnRecs
<1>8. ASSUME NEW k \in Queues, SetUp(k) PROVE TurnTypes'
  BY <1>8, <1>7, <1>g DEF SetUp, At, Phases, TurnTypes
<1>9. ASSUME NEW k \in Queues, SetUpFails(k) PROVE TurnTypes'
  BY <1>9, <1>7, <1>g DEF SetUpFails, At, Phases, TurnTypes
<1>10. ASSUME NEW k \in Queues, RefuseTurn(k) PROVE TurnTypes'
  BY <1>10, <1>7, <1>g DEF RefuseTurn, At, Phases, TurnTypes
<1>11. ASSUME NEW k \in Queues, Spawn(k) PROVE TurnTypes'
  <2>1. Goes(k, "run")
    <3>1. turn' = [turn EXCEPT ![k] = [turn[k] EXCEPT !.phase = "run", !.stopped = turn[k].hold]]
      BY <1>11 DEF Spawn, TurnTypes
    <3>2. turn[k] \in TurnRecs
      BY DEF TurnTypes
    <3> QED BY <3>1, <3>2, RunFields DEF TurnTypes
  <2>2. turn[k].session \in Sessions /\ turn[k].phase \in {"ready", "retry"}
    BY <1>11 DEF Spawn, TurnTypes
  <2>3. active' \in [Sessions -> Queues \cup {None}] /\ stops' \subseteq Queues
        /\ lingering' \subseteq Sessions \X (Queues \cup {None})
    BY <1>11, <2>2 DEF Spawn, TurnTypes
  <2> QED BY <1>7, <2>1, <2>2, <2>3 DEF Phases
<1>12. ASSUME NEW k \in Queues, RunEnds(k) PROVE TurnTypes'
  <2>1. turn[k].session \in Sessions /\ turn[k].phase = "run" /\ turn[k] \in TurnRecs
    BY <1>12 DEF RunEnds, At, TurnTypes
  <2>2. active' \in [Sessions -> Queues \cup {None}] /\ stops' \subseteq Queues
    BY <1>12, <2>1 DEF RunEnds, Deactivated, TurnTypes
  <2>3. lingering' \subseteq Sessions \X (Queues \cup {None})
    BY <1>12, <2>1 DEF RunEnds, TurnTypes
  <2>4. Goes(k, "finalize") \/ Goes(k, "failing") \/ Goes(k, "again")
    <3>1. CASE turn' = [turn EXCEPT ![k].phase = "finalize"]
      BY <3>1, <1>g DEF Phases
    <3>2. CASE turn' = [turn EXCEPT ![k].phase = "failing"]
      BY <3>2, <1>g DEF Phases
    <3>3. CASE turn' = [turn EXCEPT ![k].phase = "again", ![k].attempt = 2]
      <4>1. turn' = [turn EXCEPT ![k] = [turn[k] EXCEPT !.phase = "again", !.attempt = 2]]
        BY <3>3 DEF TurnTypes
      <4> QED BY <2>1, <4>1, AgainFields DEF TurnTypes
    <3> QED BY <1>12, <3>1, <3>2, <3>3 DEF RunEnds
  <2> QED BY <1>7, <2>1, <2>2, <2>3, <2>4 DEF Phases
<1>13. ASSUME NEW k \in Queues, TryAgain(k) PROVE TurnTypes'
  <2>1. Goes(k, "retry") /\ turn[k].phase = "again"
    BY <1>13, <1>g DEF TryAgain, At, Phases
  <2>2. active' = active /\ lingering' = lingering /\ stops' \subseteq Queues
    BY <1>13 DEF TryAgain, TurnTypes
  <2> QED BY <1>7, <2>1, <2>2 DEF Phases, TurnTypes
<1>14. ASSUME NEW k \in Queues, Finalize(k) PROVE TurnTypes'
  BY <1>14, <1>7, <1>g DEF Finalize, Settled, At, Phases, TurnTypes
<1>15. ASSUME NEW k \in Queues, FinalizeFails(k) PROVE TurnTypes'
  BY <1>15, <1>7, <1>g DEF FinalizeFails, At, Phases, TurnTypes
<1>16. ASSUME NEW k \in Queues, FailTurn(k) PROVE TurnTypes'
  BY <1>16, <1>7, <1>g DEF FailTurn, Settled, At, Phases, TurnTypes
<1>17. ASSUME NEW k \in Queues, CloseTurn(k) PROVE TurnTypes'
  <2>1. NoTurn \in TurnRecs /\ NoTurn.phase = "none" /\ NoTurn.msgs = << >>
    BY EmptySeq DEF NoTurn, TurnRecs, Phases
  <2>2. turn' = [turn EXCEPT ![k] = NoTurn] /\ stops' = stops \ {k} /\ UNCHANGED <<active, lingering>>
    BY <1>17 DEF CloseTurn
  <2> QED BY <2>1, <2>2 DEF TurnTypes
<1>18. ASSUME NEW x \in lingering, ChildExits(x) PROVE TurnTypes'
  BY <1>18 DEF ChildExits, TurnTypes
<1>19. ASSUME Crash PROVE TurnTypes'
  <2>1. NoTurn \in TurnRecs /\ NoTurn.phase = "none" /\ NoTurn.msgs = << >>
    BY EmptySeq DEF NoTurn, TurnRecs, Phases
  <2>2. ChildOf \subseteq Sessions
    BY DEF ChildOf, TurnTypes, At
  <2>3. lingering' \subseteq Sessions \X (Queues \cup {None})
    BY <1>19, <2>2 DEF Crash
  <2>4. /\ turn' = [k \in Queues |-> NoTurn] /\ stops' = {}
        /\ active' = [s \in Sessions |-> None]
    BY <1>19 DEF Crash
  <2> QED BY <2>1, <2>3, <2>4 DEF TurnTypes
<1> QED
  BY <1>1, <1>2, <1>3, <1>4, <1>5, <1>6, <1>8, <1>9, <1>10, <1>11, <1>12, <1>13, <1>14,
     <1>15, <1>16, <1>17, <1>18, <1>19 DEF Next, Progress, Troubles

-----------------------------------------------------------------------------
(* The semaphore.                                                          *)

\* Handing a slot on, or freeing it, keeps the books.
LEMMA SlotReleased ==
  ASSUME Types, SlotInv, NEW k \in Queues, slot[k] = "held", EndLink(k),
         \A j \in Queues : turn'[j].phase # "none" => turn[j].phase # "none" /\ j # k
  PROVE  SlotTypes' /\ SlotInv'
<1>0. /\ links \in [Queues -> Nat] /\ links[k] > 0 /\ running \in Nat /\ waiters \in Seq(Queues)
      /\ slot \in [Queues -> {"none", "waiting", "held"}]
      /\ IsFiniteSet(Holding) /\ running = Cardinality(Holding) /\ k \in Holding
  <2>1. Holding \in SUBSET Queues
    BY DEF Holding
  <2> QED BY <2>1, Keys, FS_Subset DEF Types, SlotTypes, SlotInv, Holding
<1>1. links' \in [Queues -> Nat]
  BY <1>0 DEF EndLink
<1>2. Cardinality(Holding \ {k}) = running - 1
  BY <1>0, FS_RemoveElement
<1>3. running > 0
  <2>1. Cardinality(Holding \ {k}) \in Nat
    BY <1>0, FS_RemoveElement, FS_CardinalityType
  <2> QED BY <1>0, <1>2, <2>1
<1>4. CASE waiters = << >>
  <2>1. slot' = [slot EXCEPT ![k] = "none"] /\ running' = running - 1 /\ waiters' = waiters
    BY <1>4 DEF EndLink, ReleaseSlot
  <2>2. Waiting' = Waiting /\ Holding' = Holding \ {k}
    BY <1>0, <2>1 DEF Waiting, Holding
  <2>3. SlotTypes'
    BY <1>0, <1>1, <1>3, <2>1 DEF SlotTypes
  <2>4. /\ Distinct(waiters') /\ Range(waiters') = Waiting'
        /\ running' = Cardinality(Holding') /\ running' <= MaxConcurrent
        /\ waiters' = << >>
    BY <1>0, <1>2, <1>4, <2>1, <2>2, BridgeAssumption DEF SlotInv
  <2>5. \A j \in Queues : /\ slot'[j] # "none" => links'[j] > 0
                          /\ turn'[j].phase # "none" => slot'[j] = "held"
    <3> SUFFICES ASSUME NEW j \in Queues
                 PROVE  /\ slot'[j] # "none" => links'[j] > 0
                        /\ turn'[j].phase # "none" => slot'[j] = "held"
      OBVIOUS
    <3>1. links' = [links EXCEPT ![k] = @ - 1]
      BY DEF EndLink
    <3> QED BY <1>0, <2>1, <3>1 DEF SlotInv
  <2> QED BY <2>3, <2>4, <2>5 DEF SlotInv
<1>5. CASE waiters # << >>
  <2> DEFINE w == waiters[1]
  <2>1. /\ slot' = [slot EXCEPT ![k] = "none", ![w] = "held"]
        /\ running' = running /\ waiters' = Tail(waiters)
    BY <1>5 DEF EndLink, ReleaseSlot
  <2>2. /\ Tail(waiters) \in Seq(Queues) /\ w \in Queues /\ w \in Waiting
        /\ Distinct(Tail(waiters)) /\ Range(Tail(waiters)) = Waiting \ {w}
    BY <1>0, <1>5, TailOne DEF SlotInv
  <2> HIDE DEF w
  <2>3. w # k /\ slot[w] = "waiting"
    BY <2>2 DEF Waiting
  <2>4. Waiting' = Waiting \ {w} /\ Holding' = (Holding \ {k}) \cup {w}
    BY <1>0, <2>1, <2>2, <2>3 DEF Waiting, Holding
  <2>5. Cardinality(Holding') = running
    <3>1. IsFiniteSet(Holding \ {k}) /\ w \notin Holding \ {k}
      BY <1>0, <2>3, FS_RemoveElement DEF Holding
    <3>2. Cardinality((Holding \ {k}) \cup {w}) = Cardinality(Holding \ {k}) + 1
      BY <3>1, FS_AddElement
    <3>3. running - 1 + 1 = running
      BY <1>0
    <3> QED BY <1>2, <2>4, <3>2, <3>3
  <2>6. SlotTypes'
    BY <1>0, <1>1, <2>1, <2>2 DEF SlotTypes
  <2>7. /\ Distinct(waiters') /\ Range(waiters') = Waiting'
        /\ running' = Cardinality(Holding') /\ running' <= MaxConcurrent
        /\ waiters' # << >> => running' = MaxConcurrent
    BY <1>5, <2>1, <2>2, <2>4, <2>5 DEF SlotInv
  <2>8. \A j \in Queues : /\ slot'[j] # "none" => links'[j] > 0
                          /\ turn'[j].phase # "none" => slot'[j] = "held"
    <3> SUFFICES ASSUME NEW j \in Queues
                 PROVE  /\ slot'[j] # "none" => links'[j] > 0
                        /\ turn'[j].phase # "none" => slot'[j] = "held"
      OBVIOUS
    <3>1. links' = [links EXCEPT ![k] = @ - 1]
      BY DEF EndLink
    <3>2. j = k => slot'[j] = "none"
      BY <1>0, <2>1, <2>3
    <3>3. j = w => slot'[j] = "held" /\ links'[j] > 0
      BY <1>0, <2>1, <2>2, <2>3, <3>1 DEF SlotInv
    <3>4. j # k /\ j # w => slot'[j] = slot[j] /\ links'[j] = links[j]
      BY <1>0, <2>1, <3>1
    <3> QED BY <3>2, <3>3, <3>4 DEF SlotInv
  <2> QED BY <2>6, <2>7, <2>8 DEF SlotInv
<1> QED BY <1>4, <1>5

LEMMA SlotStep == Types /\ SlotInv /\ Next => SlotTypes' /\ SlotInv'
<1> SUFFICES ASSUME Types, SlotInv, Next PROVE SlotTypes' /\ SlotInv'
  OBVIOUS
<1> USE DEF Types
\* Most steps leave the slots alone.
<1>0. ASSUME UNCHANGED <<slot, running, waiters>>, links' \in [Queues -> Nat],
             \A k \in Queues : links'[k] >= links[k],
             \A k \in Queues : turn'[k].phase # "none" => slot[k] = "held"
      PROVE  SlotTypes' /\ SlotInv'
  <2>1. SlotTypes'
    BY <1>0 DEF SlotTypes
  <2>2. Waiting' = Waiting /\ Holding' = Holding
    BY <1>0 DEF Waiting, Holding
  <2>3. \A k \in Queues : slot[k] # "none" => links'[k] > 0
    BY <1>0 DEF SlotInv, SlotTypes
  <2> QED BY <1>0, <2>1, <2>2, <2>3 DEF SlotInv
<1>1. ASSUME UNCHANGED <<slot, running, waiters, links>>,
             \A k \in Queues : turn'[k].phase # "none" => turn[k].phase # "none"
      PROVE  SlotTypes' /\ SlotInv'
  <2>1. \A k \in Queues : links'[k] >= links[k]
    BY <1>1 DEF SlotTypes
  <2> QED BY <1>0, <1>1, <2>1 DEF SlotInv, SlotTypes
<1>2. ASSUME NEW k \in Queues,
             \/ CheckRoute(k) \/ LookUpDelivery(k) \/ PutSending(k) \/ Prepare(k) \/ Steer(k)
             \/ Acknowledge(k) \/ HoldRoute(k) \/ AcknowledgeFails(k)
      PROVE  SlotTypes' /\ SlotInv'
  BY <1>2, <1>1 DEF CheckRoute, LookUpDelivery, PutSending, Prepare, Steer, Acknowledge,
                    HoldRoute, AcknowledgeFails, Dispatching
<1>3. ASSUME NEW k \in Queues, Enqueue(k) PROVE SlotTypes' /\ SlotInv'
  <2>1. UNCHANGED <<slot, running, waiters, turn>>
    BY <1>3 DEF Enqueue
  <2>2. links' = links \/ links' = [links EXCEPT ![k] = @ + 1]
    BY <1>3 DEF Enqueue
  <2>3. links' \in [Queues -> Nat] /\ \A j \in Queues : links'[j] >= links[j]
    BY <2>2 DEF SlotTypes
  <2> QED BY <1>0, <2>1, <2>3 DEF SlotInv
<1>4. ASSUME NEW m \in Messages, Receive(m) \/ Stop(m) PROVE SlotTypes' /\ SlotInv'
  <2>1. UNCHANGED <<slot, running, waiters, links>>
    BY <1>4 DEF Receive, Stop
  <2>2. \A k \in Queues : turn'[k].phase = turn[k].phase
    BY <1>4, StopKeeps DEF Receive, Stop
  <2> QED BY <1>1, <2>1, <2>2
<1>5. ASSUME NEW k \in Queues, Acquire(k) PROVE SlotTypes' /\ SlotInv'
  <2>0. /\ links' = links /\ turn' = turn /\ links[k] > 0 /\ slot[k] = "none"
        /\ slot \in [Queues -> {"none", "waiting", "held"}] /\ running \in Nat
        /\ waiters \in Seq(Queues) /\ IsFiniteSet(Holding) /\ k \notin Holding
        /\ k \notin Waiting
    <3>1. Holding \in SUBSET Queues
      BY DEF Holding
    <3> QED BY <1>5, <3>1, Keys, FS_Subset DEF Acquire, SlotTypes, Holding, Waiting
  <2>1. CASE running < MaxConcurrent
    <3>1. slot' = [slot EXCEPT ![k] = "held"] /\ running' = running + 1 /\ waiters' = waiters
      BY <1>5, <2>1 DEF Acquire
    <3>2. Waiting' = Waiting /\ Holding' = Holding \cup {k}
      BY <2>0, <3>1 DEF Waiting, Holding
    <3>3. Cardinality(Holding') = running + 1
      BY <2>0, <3>2, FS_AddElement DEF SlotInv
    <3>4. waiters = << >>
      BY <2>0, <2>1, BridgeAssumption DEF SlotInv
    <3>5. SlotTypes'
      BY <2>0, <3>1 DEF SlotTypes
    <3>6. running' <= MaxConcurrent
      BY <2>0, <2>1, <3>1, BridgeAssumption
    <3> QED BY <2>0, <3>1, <3>2, <3>3, <3>4, <3>5, <3>6 DEF SlotInv
  <2>2. CASE ~(running < MaxConcurrent)
    <3>1. slot' = [slot EXCEPT ![k] = "waiting"] /\ running' = running
          /\ waiters' = Append(waiters, k)
      BY <1>5, <2>2 DEF Acquire
    <3>2. Waiting' = Waiting \cup {k} /\ Holding' = Holding
      BY <2>0, <3>1 DEF Waiting, Holding
    <3>3. /\ Append(waiters, k) \in Seq(Queues) /\ Distinct(Append(waiters, k))
          /\ Range(Append(waiters, k)) = Waiting \cup {k}
      BY <2>0, AppendOne DEF SlotInv
    <3>4. running = MaxConcurrent
      BY <2>0, <2>2, BridgeAssumption DEF SlotInv
    <3>5. SlotTypes'
      BY <2>0, <3>1, <3>3 DEF SlotTypes
    <3>6. \A j \in Queues : /\ slot'[j] # "none" => links'[j] > 0
                            /\ turn'[j].phase # "none" => slot'[j] = "held"
      BY <2>0, <3>1 DEF SlotInv
    <3> QED BY <3>1, <3>2, <3>3, <3>4, <3>5, <3>6 DEF SlotInv
  <2> QED BY <2>1, <2>2
<1>6. ASSUME NEW k \in Queues, Drain(k) PROVE SlotTypes' /\ SlotInv'
  <2>1. slot[k] = "held" /\ turn[k].phase = "none"
    BY <1>6 DEF Drain
  <2>2. CASE pending[k] = << >>
    <3>1. EndLink(k) /\ turn' = turn
      BY <1>6, <2>2 DEF Drain
    <3> QED BY <2>1, <3>1, SlotReleased
  <2>3. CASE pending[k] # << >>
    <3>1. UNCHANGED <<links, slot, running, waiters>>
      BY <1>6, <2>3 DEF Drain
    <3>2. \A j \in Queues : j # k => turn'[j] = turn[j]
      BY <1>6, <2>3 DEF Drain, TurnTypes
    <3>3. \A j \in Queues : links'[j] >= links[j]
      BY <3>1 DEF SlotTypes
    <3> QED BY <1>0, <2>1, <3>1, <3>2, <3>3 DEF SlotInv, SlotTypes
  <2> QED BY <2>2, <2>3
<1>7. ASSUME NEW k \in Queues,
             \/ Probe(k) \/ SetUp(k) \/ SetUpFails(k) \/ RefuseTurn(k) \/ Spawn(k)
             \/ RunEnds(k) \/ TryAgain(k) \/ Finalize(k) \/ FinalizeFails(k) \/ FailTurn(k)
      PROVE  SlotTypes' /\ SlotInv'
  <2>1. UNCHANGED <<slot, running, waiters, links>>
    BY <1>7 DEF Probe, SetUp, SetUpFails, RefuseTurn, Spawn, RunEnds, TryAgain, Finalize,
                FinalizeFails, FailTurn, Settled
  <2>2. turn[k].phase # "none"
    BY <1>7 DEF Probe, SetUp, SetUpFails, RefuseTurn, Spawn, RunEnds, TryAgain, Finalize,
                FinalizeFails, FailTurn, At
  <2>3. \A j \in Queues : j # k => turn'[j] = turn[j]
    BY <1>7 DEF Probe, SetUp, SetUpFails, RefuseTurn, Spawn, RunEnds, TryAgain, Finalize,
                FinalizeFails, FailTurn, Settled, TurnTypes
  <2> QED BY <1>1, <2>1, <2>2, <2>3
<1>8. ASSUME NEW k \in Queues, CloseTurn(k) PROVE SlotTypes' /\ SlotInv'
  <2>1. EndLink(k) /\ turn' = [turn EXCEPT ![k] = NoTurn] /\ turn[k].phase = "closing"
    BY <1>8 DEF CloseTurn, At
  <2>2. slot[k] = "held"
    BY <2>1 DEF SlotInv
  <2>3. \A j \in Queues : turn'[j].phase # "none" => turn[j].phase # "none" /\ j # k
    BY <2>1 DEF TurnTypes, NoTurn
  <2> QED BY <2>1, <2>2, <2>3, SlotReleased
<1>9. ASSUME NEW x \in lingering, ChildExits(x) PROVE SlotTypes' /\ SlotInv'
  BY <1>9, <1>1 DEF ChildExits
<1>10. ASSUME Crash PROVE SlotTypes' /\ SlotInv'
  <2>1. /\ links' = [k \in Queues |-> 0] /\ slot' = [k \in Queues |-> "none"]
        /\ running' = 0 /\ waiters' = << >> /\ turn' = [k \in Queues |-> NoTurn]
    BY <1>10 DEF Crash
  <2>2. Waiting' = {} /\ Holding' = {}
    BY <2>1 DEF Waiting, Holding
  <2>3. Range(<< >>) = {} /\ Distinct(<< >>) /\ << >> \in Seq(Queues)
    BY EmptySeq DEF Range, Distinct
  <2>4. Cardinality({}) = 0
    BY FS_EmptySet
  <2>5. \A k \in Queues : slot'[k] = "none" /\ turn'[k].phase = "none"
    BY <2>1 DEF NoTurn
  <2> QED BY <2>1, <2>2, <2>3, <2>4, <2>5, BridgeAssumption DEF SlotTypes, SlotInv
<1> QED
  BY <1>2, <1>3, <1>4, <1>5, <1>6, <1>7, <1>8, <1>9, <1>10 DEF Next, Progress, Troubles

-----------------------------------------------------------------------------
(* Every message in flight has one place.                                  *)

LEMMA RoutedIs ==
  \A k \in Queues : Routed(k) = {routes[k][i].m : i \in DOMAIN routes[k]}
  BY DEF Routed, Range

\* The chain of a key keeps its messages.
SameChain(k) ==
  /\ DOMAIN routes'[k] = DOMAIN routes[k]
  /\ \A i \in DOMAIN routes[k] : routes'[k][i].m = routes[k][i].m
StaleStays(k) == \A i \in DOMAIN routes[k] : routes[k][i].stale => routes'[k][i].stale
Lasting(k) == SameChain(k) /\ StaleStays(k)

LEMMA SameChainRouted ==
  ASSUME NEW k \in Queues, SameChain(k)
  PROVE  Routed(k)' = Routed(k) /\ (RoutedOnce(k) => RoutedOnce(k)')
<1>1. Routed(k) = {routes[k][i].m : i \in DOMAIN routes[k]}
  BY RoutedIs
<1>2. Routed(k)' = {routes'[k][i].m : i \in DOMAIN routes'[k]}
  BY DEF Routed, Range
<1>3. Routed(k)' = Routed(k)
  BY <1>1, <1>2 DEF SameChain
<1> QED BY <1>3 DEF SameChain, RoutedOnce

LEMMA AdvanceSame ==
  ASSUME NEW k \in Queues, NEW r, Advance(k, r), r.m = routes[k][1].m,
         r.stale = routes[k][1].stale, NEW j \in Queues
  PROVE  Lasting(j)
<1>1. ASSUME NEW i \in DOMAIN routes[j]
      PROVE  routes'[j][i].m = routes[j][i].m /\ routes'[j][i].stale = routes[j][i].stale
  <2>1. routes'[j][i] = IF j = k /\ i = 1 THEN r ELSE routes[j][i]
    BY <1>1 DEF Advance
  <2> QED BY <2>1
<1> QED BY <1>1 DEF Advance, SameChain, StaleStays, Lasting

LEMMA KeptSame ==
  ASSUME Kept, NEW j \in Queues
  PROVE  SameChain(j) /\ Lasting(j)
  BY DEF Kept, SameChain, StaleStays, Lasting

LEMMA LeftRouted ==
  ASSUME RouteTypes, NEW k \in Queues, Head1(k), Leave(k), RoutedOnce(k)
  PROVE  /\ Routed(k)' = Routed(k) \ {routes[k][1].m} /\ routes[k][1].m \in Routed(k)
         /\ RoutedOnce(k)'
         /\ \A j \in Queues : j # k => SameChain(j)
<1>1. Left(k)
  BY LeaveLeft
<1>2. 1 \in DOMAIN routes[k]
  BY HeadRoute
<1>3. Routed(k) = {routes[k][i].m : i \in DOMAIN routes[k]}
  BY RoutedIs
<1>4. Routed(k)' = {routes'[k][i].m : i \in DOMAIN routes'[k]}
  BY DEF Routed, Range
<1>5. ASSUME NEW x \in Routed(k)' PROVE x \in Routed(k) /\ x # routes[k][1].m
  <2>1. PICK i \in DOMAIN routes'[k] : x = routes'[k][i].m
    BY <1>4, <1>5
  <2>2. i + 1 \in DOMAIN routes[k] /\ x = routes[k][i + 1].m /\ i + 1 # 1
    BY <1>1, <2>1 DEF Left
  <2> QED BY <1>2, <1>3, <2>2 DEF RoutedOnce
<1>6. ASSUME NEW x \in Routed(k), x # routes[k][1].m PROVE x \in Routed(k)'
  <2>1. PICK i \in DOMAIN routes[k] : x = routes[k][i].m
    BY <1>3, <1>6
  <2>2. i # 1
    BY <1>6, <2>1
  <2>3. PICK j \in DOMAIN routes'[k] : routes'[k][j] = routes[k][i]
    BY <1>1, <2>2 DEF Left
  <2> QED BY <1>4, <2>1, <2>3
<1>7. RoutedOnce(k)'
  <2> SUFFICES ASSUME NEW i \in DOMAIN routes'[k], NEW j \in DOMAIN routes'[k],
                      routes'[k][i].m = routes'[k][j].m
               PROVE  i = j
    BY DEF RoutedOnce
  <2>1. /\ i + 1 \in DOMAIN routes[k] /\ j + 1 \in DOMAIN routes[k]
        /\ routes[k][i + 1].m = routes[k][j + 1].m
    BY <1>1 DEF Left
  <2>2. i + 1 = j + 1
    BY <2>1 DEF RoutedOnce
  <2>3. i \in Nat /\ j \in Nat
    BY <1>1, LenProperties DEF Left
  <2> QED BY <2>2, <2>3
<1>8. \A j \in Queues : j # k => SameChain(j)
  BY <1>1 DEF Left, SameChain
<1>9. routes[k][1].m \in Routed(k)
  BY <1>2, <1>3
<1> QED BY <1>5, <1>6, <1>7, <1>8, <1>9

LEMMA JoinedRouted ==
  ASSUME NEW k \in Queues, NEW m \in Messages, Joined(k, m), RoutedOnce(k), m \notin Routed(k)
  PROVE  /\ Routed(k)' = Routed(k) \cup {m} /\ RoutedOnce(k)'
         /\ \A j \in Queues : j # k => SameChain(j)
<1>1. PICK e \in DOMAIN routes'[k] :
         /\ routes'[k][e] = Route(m)
         /\ \A i \in DOMAIN routes'[k] : i # e => i \in DOMAIN routes[k]
  BY DEF Joined
<1>2. Route(m).m = m
  BY DEF Route
<1>3. Routed(k) = {routes[k][i].m : i \in DOMAIN routes[k]}
  BY RoutedIs
<1>4. Routed(k)' = {routes'[k][i].m : i \in DOMAIN routes'[k]}
  BY DEF Routed, Range
<1>5. \A i \in DOMAIN routes'[k] :
        i # e => i \in DOMAIN routes[k] /\ routes'[k][i].m = routes[k][i].m
                 /\ routes'[k][i].m \in Routed(k)
  BY <1>1, <1>3 DEF Joined
<1>6. Routed(k)' = Routed(k) \cup {m}
  <2>1. Routed(k)' \subseteq Routed(k) \cup {m}
    BY <1>1, <1>2, <1>4, <1>5
  <2>2. Routed(k) \subseteq Routed(k)'
    BY <1>3, <1>4 DEF Joined
  <2>3. m \in Routed(k)'
    BY <1>1, <1>2, <1>4
  <2> QED BY <2>1, <2>2, <2>3
<1>7. RoutedOnce(k)'
  BY <1>1, <1>2, <1>5 DEF RoutedOnce
<1>8. \A j \in Queues : j # k => SameChain(j)
  BY DEF Joined, SameChain
<1> QED BY <1>6, <1>7, <1>8

\* A key nothing happens to keeps its messages placed.
SameTurn(k) == InTurn(k)' = InTurn(k)
LEMMA StillPlaced ==
  ASSUME NEW k \in Queues, PlacedAt(k), SameChain(k), pending'[k] = pending[k],
         SameTurn(k), Flying(k)' = Flying(k)
  PROVE  PlacedAt(k)'
<1>1. Routed(k)' = Routed(k) /\ RoutedOnce(k)'
  BY SameChainRouted DEF PlacedAt
<1> QED BY <1>1 DEF PlacedAt, SameTurn

\* A turn whose messages stay and that does not close.
LEMMA TurnStays ==
  ASSUME NEW k, turn'[k].msgs = turn[k].msgs,
         turn'[k].phase # "closing", turn[k].phase # "closing"
  PROVE  SameTurn(k)
  BY DEF SameTurn, InTurn

\* The head of the routing chain is settled.
LEMMA DonePlaced ==
  ASSUME Types, Placed, NEW k \in Queues, Head1(k), Done(k), UNCHANGED <<pending, turn>>
  PROVE  Placed'
<1> DEFINE h == routes[k][1].m
<1>1. h \in Messages /\ Leave(k) /\ MarkHandled({h}) /\ PlacedAt(k)
  BY HeadRoute DEF Types, Done, RouteRecs, Placed
<1>2. /\ Routed(k)' = Routed(k) \ {h} /\ h \in Routed(k) /\ RoutedOnce(k)'
      /\ \A j \in Queues : j # k => SameChain(j)
  BY <1>1, LeftRouted DEF Types, PlacedAt
<1> HIDE DEF h
<1>3. h \in Flying(k) /\ QueueKey(h) = k
  BY <1>1, <1>2 DEF PlacedAt, Flying
<1>4. Flying(k)' = Flying(k) \ {h} /\ \A j \in Queues : j # k => Flying(j)' = Flying(j)
  BY <1>1, <1>3 DEF MarkHandled, Flying
<1>5. \A j \in Queues : SameTurn(j)
  BY DEF SameTurn, InTurn
<1>6. PlacedAt(k)'
  BY <1>1, <1>2, <1>4, <1>5 DEF PlacedAt, SameTurn
<1>7. \A j \in Queues : j # k => PlacedAt(j)'
  BY <1>2, <1>4, <1>5, StillPlaced DEF Placed
<1> QED BY <1>6, <1>7 DEF Placed

LEMMA SamePlaced ==
  ASSUME Placed, UNCHANGED <<client, pending>>,
         \A k \in Queues : SameChain(k), \A k \in Queues : SameTurn(k)
  PROVE  Placed'
<1>1. \A k \in Queues : Flying(k)' = Flying(k)
  BY DEF Flying
<1> QED BY <1>1, StillPlaced DEF Placed

\* The turn of a key closes, and its messages leave flight.
LEMMA ClosePlaced ==
  ASSUME Types, Placed, NEW k \in Queues, turn[k].phase # "closing", Settled(k),
         MarkHandled(InTurn(k)) \/ MarkUnhandled(InTurn(k))
  PROVE  Placed'
<1>1. /\ turn'[k].phase = "closing" /\ \A j \in Queues : j # k => turn'[j] = turn[j]
      /\ UNCHANGED <<routes, pending>>
  BY DEF Settled, Types, TurnTypes, TurnRecs
<1>2. InTurn(k)' = {} /\ \A j \in Queues : j # k => SameTurn(j)
  BY <1>1 DEF InTurn, SameTurn
<1>3. \A j \in Queues : SameChain(j) /\ RoutedOnce(j)' = RoutedOnce(j) /\ Routed(j)' = Routed(j)
  BY <1>1 DEF SameChain, RoutedOnce, Routed
<1>4. PlacedAt(k) /\ InTurn(k) \subseteq Flying(k)
  BY DEF Placed, PlacedAt
<1>5. Flying(k)' = Flying(k) \ InTurn(k)
  BY <1>4 DEF Flying, MarkHandled, MarkUnhandled
<1>6. ASSUME NEW j \in Queues, j # k PROVE Flying(j)' = Flying(j)
  <2>1. \A m \in InTurn(k) : QueueKey(m) = k
    BY <1>4 DEF Flying
  <2> QED BY <1>6, <2>1 DEF Flying, MarkHandled, MarkUnhandled
<1>7. PlacedAt(k)'
  <2>1. pending'[k] = pending[k]
    BY <1>1
  <2> QED BY <2>1, <1>2, <1>3, <1>4, <1>5 DEF PlacedAt
<1>8. \A j \in Queues : j # k => PlacedAt(j)'
  BY <1>1, <1>2, <1>3, <1>6, StillPlaced DEF Placed
<1> QED BY <1>7, <1>8 DEF Placed


\* What the routing steps do to the chains.
LEMMA Routes ==
  ASSUME Types, NEW k \in Queues
  PROVE  /\ CheckRoute(k) \/ LookUpDelivery(k) \/ PutSending(k) \/ Prepare(k) \/ Steer(k)
            \/ Acknowledge(k) \/ HoldRoute(k) \/ AcknowledgeFails(k)
            => /\ Head1(k) /\ UNCHANGED <<pending, turn, lingering, stops, active, cancelled>>
               /\ Done(k) \/ (UNCHANGED client /\ \A j \in Queues : Lasting(j))
<1> USE DEF Types
<1>g. ASSUME Head1(k), NEW pc \in StepsOfRoute, GoTo(k, pc)
      PROVE  \A j \in Queues : Lasting(j)
  BY <1>g, GoToAdvances, HeadRoute, AdvanceSame DEF RouteRecs
<1>1. ASSUME CheckRoute(k)
      PROVE  /\ Head1(k) /\ UNCHANGED <<pending, turn, lingering, stops, active, cancelled>>
             /\ Done(k) \/ (UNCHANGED client /\ \A j \in Queues : Lasting(j))
  BY <1>1, <1>g DEF CheckRoute, Routing, Dispatching, StepsOfRoute
<1>2. ASSUME LookUpDelivery(k)
      PROVE  /\ Head1(k) /\ UNCHANGED <<pending, turn, lingering, stops, active, cancelled>>
             /\ Done(k) \/ (UNCHANGED client /\ \A j \in Queues : Lasting(j))
  <2>1. Head1(k) /\ UNCHANGED <<pending, turn, lingering, stops, active, cancelled>>
    BY <1>2 DEF LookUpDelivery, Routing, Dispatching
  <2> DEFINE r == [routes[k][1] EXCEPT !.pc = "put", !.live = TRUE]
  <2>2. ASSUME routes' = [routes EXCEPT ![k][1].pc = "put", ![k][1].live = TRUE]
        PROVE  \A j \in Queues : Lasting(j)
    <3>1. r \in RouteRecs /\ r.m = routes[k][1].m /\ r.stale = routes[k][1].stale
      BY <2>1, HeadRoute DEF RouteRecs, StepsOfRoute
    <3>2. routes' = [routes EXCEPT ![k] = [@ EXCEPT ![1] = r]]
      BY <2>2, <2>1, HeadRoute DEF RouteTypes
    <3> HIDE DEF r
    <3>3. Advance(k, r)
      BY <2>1, <3>1, <3>2, AdvanceHead
    <3> QED BY <3>1, <3>3, AdvanceSame
  <2>3. ASSUME GoTo(k, "enqueue") PROVE \A j \in Queues : Lasting(j)
    BY <2>1, <2>3, <1>g DEF StepsOfRoute
  <2> HIDE DEF r
  <2>4. Done(k) \/ (UNCHANGED client /\ (GoTo(k, "enqueue")
            \/ routes' = [routes EXCEPT ![k][1].pc = "put", ![k][1].live = TRUE]))
    BY <1>2 DEF LookUpDelivery
  <2> QED BY <2>1, <2>2, <2>3, <2>4
<1>3. ASSUME PutSending(k) \/ Prepare(k)
      PROVE  /\ Head1(k) /\ UNCHANGED <<pending, turn, lingering, stops, active, cancelled>>
             /\ Done(k) \/ (UNCHANGED client /\ \A j \in Queues : Lasting(j))
  BY <1>3, <1>g DEF PutSending, Prepare, Routing, Dispatching, StepsOfRoute
<1>4. ASSUME Steer(k)
      PROVE  /\ Head1(k) /\ UNCHANGED <<pending, turn, lingering, stops, active, cancelled>>
             /\ Done(k) \/ (UNCHANGED client /\ \A j \in Queues : Lasting(j))
  <2>1. Head1(k) /\ UNCHANGED <<pending, turn, lingering, stops, active, cancelled, client>>
    BY <1>4 DEF Steer, Routing, Dispatching
  <2>2. PICK res \in Results \ {"none"} :
          routes' = [routes EXCEPT ![k][1].pc = "ack", ![k][1].result = res]
    BY <1>4 DEF Steer
  <2> DEFINE r == [routes[k][1] EXCEPT !.pc = "ack", !.result = res]
  <2>3. r \in RouteRecs /\ r.m = routes[k][1].m /\ r.stale = routes[k][1].stale
    BY <2>1, HeadRoute DEF RouteRecs, StepsOfRoute, Results
  <2>4. routes' = [routes EXCEPT ![k] = [@ EXCEPT ![1] = r]]
    BY <2>1, <2>2, HeadRoute DEF RouteTypes
  <2> HIDE DEF r
  <2>5. Advance(k, r)
    BY <2>1, <2>3, <2>4, AdvanceHead
  <2> QED BY <2>1, <2>3, <2>5, AdvanceSame
<1>5. ASSUME Acknowledge(k)
      PROVE  /\ Head1(k) /\ UNCHANGED <<pending, turn, lingering, stops, active, cancelled>>
             /\ Done(k) \/ (UNCHANGED client /\ \A j \in Queues : Lasting(j))
  BY <1>5, <1>g DEF Acknowledge, Routing, Dispatching, StepsOfRoute
<1>6. ASSUME HoldRoute(k) \/ AcknowledgeFails(k)
      PROVE  /\ Head1(k) /\ UNCHANGED <<pending, turn, lingering, stops, active, cancelled>> /\ Done(k)
  BY <1>6 DEF HoldRoute, AcknowledgeFails, Routing, Dispatching
<1> QED BY <1>1, <1>2, <1>3, <1>4, <1>5, <1>6

LEMMA PlacedStep == Types /\ Placed /\ Next => Placed'
<1> SUFFICES ASSUME Types, Placed, Next PROVE Placed'
  OBVIOUS
<1>0. ASSUME UNCHANGED <<client, routes, pending>>, \A k \in Queues : SameTurn(k)
      PROVE  Placed'
  <2>1. \A k \in Queues : SameChain(k)
    BY <1>0 DEF SameChain
  <2> QED BY <1>0, <2>1, SamePlaced
<1>s. ASSUME NEW k \in Queues, turn' = turn PROVE SameTurn(k)
  BY <1>s DEF SameTurn, InTurn
<1>1. ASSUME NEW k \in Queues,
             \/ CheckRoute(k) \/ LookUpDelivery(k) \/ PutSending(k) \/ Prepare(k) \/ Steer(k)
             \/ Acknowledge(k) \/ HoldRoute(k) \/ AcknowledgeFails(k)
      PROVE  Placed'
  <2>1. /\ Head1(k) /\ UNCHANGED <<pending, turn, lingering, stops, active, cancelled>>
        /\ Done(k) \/ (UNCHANGED client /\ \A j \in Queues : SameChain(j))
    BY <1>1, Routes DEF Lasting
  <2>2. \A j \in Queues : SameTurn(j)
    BY <2>1, <1>s
  <2> QED BY <2>1, <2>2, DonePlaced, SamePlaced
<1>2. ASSUME NEW k \in Queues, Enqueue(k) PROVE Placed'
  <2>1. Head1(k) /\ turn' = turn
    BY <1>2 DEF Enqueue, Routing
  <2>2. CASE Done(k) /\ UNCHANGED pending
    BY <2>1, <2>2, DonePlaced
  <2>3. CASE Leave(k) /\ UNCHANGED client
             /\ pending' = [pending EXCEPT ![k] = Append(@, routes[k][1].m)]
    <3> DEFINE h == routes[k][1].m
    <3>1. h \in Messages /\ PlacedAt(k) /\ pending \in [Queues -> Seq(Messages)]
      BY <2>1, HeadRoute DEF Types, RouteTypes, RouteRecs, Placed
    <3>2. /\ Routed(k)' = Routed(k) \ {h} /\ h \in Routed(k) /\ RoutedOnce(k)'
          /\ \A j \in Queues : j # k => SameChain(j)
      BY <2>1, <2>3, <3>1, LeftRouted DEF Types, PlacedAt
    <3>3. pending'[k] = Append(pending[k], h) /\ \A j \in Queues : j # k => pending'[j] = pending[j]
      BY <2>3, <3>1
    <3> HIDE DEF h
    <3>4. h \notin Range(pending[k]) /\ h \notin InTurn(k) /\ Distinct(pending[k])
      BY <3>1, <3>2 DEF PlacedAt
    <3>5. Range(pending'[k]) = Range(pending[k]) \cup {h} /\ Distinct(pending'[k])
      BY <3>1, <3>3, <3>4, AppendOne
    <3>6. \A j \in Queues : Flying(j)' = Flying(j) /\ SameTurn(j)
      BY <2>1, <2>3, <1>s DEF Flying
    <3>7. PlacedAt(k)'
      BY <3>1, <3>2, <3>4, <3>5, <3>6 DEF PlacedAt, SameTurn
    <3>8. \A j \in Queues : j # k => PlacedAt(j)'
      BY <3>2, <3>3, <3>6, StillPlaced DEF Placed
    <3> QED BY <3>7, <3>8 DEF Placed
  <2> QED BY <1>2, <2>2, <2>3 DEF Enqueue
<1>3. ASSUME NEW m \in Messages, Receive(m) PROVE Placed'
  <2> DEFINE q == QueueKey(m)
  <2>1. /\ q \in Queues /\ client[m] = "away" /\ client' = [client EXCEPT ![m] = "inFlight"]
        /\ pending' = pending /\ turn' = turn /\ Joined(q, m) /\ PlacedAt(q)
    BY <1>3, Keys, ReceiveJoins DEF Receive, Delivered, Types, Placed
  <2>2. m \notin Flying(q) /\ Flying(q)' = Flying(q) \cup {m}
        /\ \A j \in Queues : j # q => Flying(j)' = Flying(j)
    BY <2>1 DEF Types, RouteTypes, Flying
  <2> HIDE DEF q
  <2>3. m \notin Routed(q) /\ m \notin Range(pending[q]) /\ m \notin InTurn(q)
    BY <2>1, <2>2 DEF PlacedAt
  <2>4. /\ Routed(q)' = Routed(q) \cup {m} /\ RoutedOnce(q)'
        /\ \A j \in Queues : j # q => SameChain(j)
    BY <2>1, <2>3, JoinedRouted DEF PlacedAt
  <2>5. \A j \in Queues : SameTurn(j)
    BY <2>1, <1>s
  <2>6. PlacedAt(q)'
    BY <2>1, <2>2, <2>3, <2>4, <2>5 DEF PlacedAt, SameTurn
  <2>7. \A j \in Queues : j # q => PlacedAt(j)'
    BY <2>1, <2>2, <2>4, <2>5, StillPlaced DEF Placed
  <2> QED BY <2>6, <2>7 DEF Placed
<1>4. ASSUME NEW m \in Messages, Stop(m) PROVE Placed'
  <2> DEFINE C == Candidates(m)
             dropped == UNION {Range(pending[k]) : k \in C}
  <2>1. /\ C \subseteq Queues /\ QueueKey(m) \in Queues /\ client[m] = "away"
        /\ MarkHandled({m} \cup dropped)
        /\ pending' = [k \in Queues |-> IF k \in C THEN << >> ELSE pending[k]]
        /\ Kept /\ StopTurn(Hit(m))
    BY <1>4, Keys, StaleKept DEF Stop, Delivered, Candidates, Types
  <2>2. \A j \in Queues : SameChain(j)
    BY <2>1, KeptSame
  <2>3. \A j \in Queues : SameTurn(j)
    <3>1. \A j \in Queues : turn'[j].phase = turn[j].phase /\ turn'[j].msgs = turn[j].msgs
      BY <2>1, StopKeeps DEF Types
    <3> QED BY <3>1 DEF SameTurn, InTurn
  <2>4. \A j \in Queues : Range(pending[j]) \subseteq Flying(j)
    BY DEF Placed, PlacedAt
  <2>5. ASSUME NEW j \in C PROVE Range(pending[j]) \subseteq dropped
    BY <2>5
  <2>6. ASSUME NEW x \in dropped PROVE QueueKey(x) \in C /\ x \in Range(pending[QueueKey(x)])
    <3>1. PICK j \in C : x \in Range(pending[j])
      BY <2>6
    <3> QED BY <2>1, <2>4, <3>1 DEF Flying
  <2> HIDE DEF C, dropped
  <2>7. ASSUME NEW j \in Queues
        PROVE  Flying(j)' = IF j \in C THEN Flying(j) \ Range(pending[j]) ELSE Flying(j)
    <3>1. Flying(j)' = {x \in Flying(j) : x \notin {m} \cup dropped}
      BY <2>1 DEF Flying, MarkHandled
    <3>2. m \notin Flying(j)
      BY <2>1 DEF Flying
    <3>3. \A x \in Flying(j) : x \in dropped <=> j \in C /\ x \in Range(pending[j])
      <4> SUFFICES ASSUME NEW x \in Flying(j)
                   PROVE  x \in dropped <=> j \in C /\ x \in Range(pending[j])
        OBVIOUS
      <4>1. QueueKey(x) = j
        BY DEF Flying
      <4> QED BY <4>1, <2>5, <2>6
    <3> QED BY <3>1, <3>2, <3>3
  <2>8. ASSUME NEW j \in Queues PROVE PlacedAt(j)'
    <3>1. PlacedAt(j) /\ Routed(j)' = Routed(j) /\ RoutedOnce(j)' /\ InTurn(j)' = InTurn(j)
      BY <2>2, <2>3, SameChainRouted DEF Placed, PlacedAt, SameTurn
    <3>2. CASE j \in C
      <4>1. pending'[j] = << >> /\ Range(<< >>) = {} /\ Distinct(<< >>)
        BY <2>1, <3>2 DEF Range, Distinct
      <4> QED BY <2>7, <3>1, <3>2, <4>1 DEF PlacedAt
    <3>3. CASE j \notin C
      <4>1. pending'[j] = pending[j] /\ Flying(j)' = Flying(j)
        BY <2>1, <2>7, <3>3
      <4> QED BY <3>1, <4>1 DEF PlacedAt
    <3> QED BY <3>2, <3>3
  <2> QED BY <2>8 DEF Placed
<1>5. ASSUME NEW k \in Queues, Drain(k) PROVE Placed'
  <2>1. turn[k].phase = "none" /\ UNCHANGED <<client, routes>>
    BY <1>5 DEF Drain, Routers
  <2>2. CASE pending[k] = << >>
    <3>1. UNCHANGED <<pending, turn>>
      BY <1>5, <2>2 DEF Drain
    <3> QED BY <2>1, <3>1, <1>0, <1>s
  <2>3. CASE pending[k] # << >>
    <3> DEFINE t == Taken(pending[k])
               rest == SubSeq(pending[k], Absorbed(pending[k]) + 1, Len(pending[k]))
    <3>1. /\ turn' = [turn EXCEPT ![k] = [NoTurn EXCEPT !.phase = "probe", !.msgs = t]]
          /\ pending' = [pending EXCEPT ![k] = rest]
      BY <1>5, <2>3 DEF Drain
    <3>2. /\ Range(pending[k]) = Range(t) \cup Range(rest)
          /\ Distinct(pending[k]) => Distinct(rest) /\ Range(t) \cap Range(rest) = {}
      BY <2>3, DrainTakes DEF Types
    <3> HIDE DEF t, rest
    <3>3. turn'[k].phase = "probe" /\ turn'[k].msgs = t /\ \A j \in Queues : j # k => turn'[j] = turn[j]
      BY <3>1 DEF Types, TurnTypes, NoTurn
    <3>4. InTurn(k)' = Range(t) /\ InTurn(k) = {} /\ \A j \in Queues : j # k => SameTurn(j)
      <4>1. turn[k].msgs = << >> /\ Range(<< >>) = {}
        BY <2>1 DEF Types, TurnTypes, Range
      <4> QED BY <2>1, <3>3, <4>1 DEF InTurn, SameTurn
    <3>5. pending'[k] = rest /\ \A j \in Queues : j # k => pending'[j] = pending[j]
      BY <3>1 DEF Types, RouteTypes
    <3>6. \A j \in Queues : Flying(j)' = Flying(j) /\ SameChain(j)
          /\ Routed(j)' = Routed(j) /\ RoutedOnce(j)' = RoutedOnce(j)
      BY <2>1 DEF Flying, SameChain, Routed, RoutedOnce
    <3>7. PlacedAt(k)'
      BY <3>2, <3>4, <3>5, <3>6 DEF Placed, PlacedAt
    <3>8. \A j \in Queues : j # k => PlacedAt(j)'
      BY <3>4, <3>5, <3>6, StillPlaced DEF Placed
    <3> QED BY <3>7, <3>8 DEF Placed
  <2> QED BY <2>2, <2>3
<1>6. ASSUME NEW k \in Queues,
             \/ Probe(k) \/ SetUp(k) \/ SetUpFails(k) \/ RefuseTurn(k) \/ Spawn(k) \/ TryAgain(k)
             \/ FinalizeFails(k)
      PROVE  Placed'
  <2>1. UNCHANGED <<client, routes, pending>>
    BY <1>6 DEF Probe, SetUp, SetUpFails, RefuseTurn, Spawn, TryAgain, FinalizeFails,
                Routers
  <2>2. \A j \in Queues : j # k => turn'[j] = turn[j]
    BY <1>6 DEF Probe, SetUp, SetUpFails, RefuseTurn, Spawn, TryAgain, FinalizeFails,
                Types, TurnTypes
  <2>3. /\ turn[k].phase # "closing" /\ turn'[k].phase # "closing"
        /\ turn'[k].msgs = turn[k].msgs
    BY <1>6 DEF Probe, SetUp, SetUpFails, RefuseTurn, Spawn, TryAgain, FinalizeFails,
                Types, TurnTypes,
                TurnRecs, At
  <2>4. \A j \in Queues : SameTurn(j)
    BY <2>2, <2>3, TurnStays DEF SameTurn, InTurn
  <2> QED BY <2>1, <2>4, <1>0
<1>7. ASSUME NEW k \in Queues, RunEnds(k) PROVE Placed'
  <2>1. UNCHANGED <<client, pending>> /\ Kept /\ turn[k].phase = "run"
    BY <1>7, OrphanedKept DEF RunEnds, Types, At
  <2>2. \A j \in Queues : j # k => turn'[j] = turn[j]
    BY <1>7 DEF RunEnds, Types, TurnTypes
  <2>3. turn'[k].phase # "closing" /\ turn'[k].msgs = turn[k].msgs
    BY <1>7 DEF RunEnds, Types, TurnTypes, TurnRecs
  <2>4. \A j \in Queues : SameTurn(j) /\ SameChain(j)
    BY <2>1, <2>2, <2>3, TurnStays, KeptSame DEF SameTurn, InTurn
  <2> QED BY <2>1, <2>4, SamePlaced
<1>8. ASSUME NEW k \in Queues, Finalize(k) \/ FailTurn(k) PROVE Placed'
  <2>1. /\ turn[k].phase # "closing" /\ Settled(k)
        /\ MarkHandled(InTurn(k)) \/ MarkUnhandled(InTurn(k))
    BY <1>8 DEF Finalize, FailTurn, SettleOk, At
  <2> QED BY <2>1, ClosePlaced
<1>9. ASSUME NEW k \in Queues, CloseTurn(k) PROVE Placed'
  <2>1. /\ UNCHANGED <<client, routes, pending>> /\ turn[k].phase = "closing"
        /\ turn' = [turn EXCEPT ![k] = NoTurn]
    BY <1>9 DEF CloseTurn, Routers, At
  <2>2. turn'[k].msgs = << >> /\ turn'[k].phase = "none" /\ Range(<< >>) = {}
        /\ \A j \in Queues : j # k => turn'[j] = turn[j]
    BY <2>1 DEF Types, TurnTypes, NoTurn, Range
  <2>3. SameTurn(k) /\ \A j \in Queues : j # k => SameTurn(j)
    BY <2>1, <2>2 DEF SameTurn, InTurn
  <2> QED BY <2>1, <2>3, <1>0
<1>10. ASSUME NEW k \in Queues, Acquire(k) PROVE Placed'
  BY <1>10, <1>0, <1>s DEF Acquire, Routers
<1>11. ASSUME NEW x \in lingering, ChildExits(x) PROVE Placed'
  BY <1>11, <1>0, <1>s DEF ChildExits, Routers
<1>12. ASSUME Crash PROVE Placed'
  <2> SUFFICES ASSUME NEW k \in Queues PROVE PlacedAt(k)'
    BY DEF Placed
  <2>1. /\ routes'[k] = << >> /\ pending'[k] = << >> /\ turn'[k].msgs = << >>
        /\ Range(<< >>) = {} /\ Distinct(<< >>)
    BY <1>12 DEF Crash, NoTurn, Range, Distinct
  <2>2. Flying(k)' = {}
    BY <1>12 DEF Crash, Flying
  <2>3. Routed(k)' = {} /\ InTurn(k)' = {} /\ RoutedOnce(k)'
    BY <2>1 DEF Routed, InTurn, RoutedOnce
  <2> QED BY <2>1, <2>2, <2>3 DEF PlacedAt
<1> QED
  BY <1>1, <1>2, <1>3, <1>4, <1>5, <1>6, <1>7, <1>8, <1>9, <1>10, <1>11, <1>12
     DEF Next, Progress, Troubles


-----------------------------------------------------------------------------
(* The delivery journal.                                                   *)

\* No other entry of any chain is for the message at the head of k's.
LEMMA HeadIsAlone ==
  ASSUME Types, Placed, NEW k \in Queues, Head1(k)
  PROVE  /\ \A j \in Queues : \A i \in DOMAIN routes[j] :
              routes[j][i].m = routes[k][1].m => j = k /\ i = 1
         /\ \A j \in Queues : routes[k][1].m \notin Range(pending[j])
         /\ \A j \in Queues : routes[k][1].m \notin InTurn(j)
<1> DEFINE h == routes[k][1].m
<1>1. 1 \in DOMAIN routes[k]
  BY HeadRoute DEF Types
<1>2. h \in Routed(k) /\ PlacedAt(k)
  BY <1>1, RoutedIs DEF Placed
<1>3. QueueKey(h) = k
  BY <1>2 DEF PlacedAt, Flying
<1>4. ASSUME NEW j \in Queues, NEW i \in DOMAIN routes[j], routes[j][i].m = h
      PROVE  j = k /\ i = 1
  <2>1. h \in Routed(j)
    BY <1>4, RoutedIs
  <2>2. QueueKey(h) = j
    BY <2>1 DEF Placed, PlacedAt, Flying
  <2> QED BY <1>1, <1>2, <1>3, <1>4, <2>2 DEF PlacedAt, RoutedOnce
<1>5. ASSUME NEW j \in Queues PROVE h \notin Range(pending[j]) /\ h \notin InTurn(j)
  <2>1. CASE j = k
    BY <1>2, <2>1 DEF PlacedAt
  <2>2. CASE j # k
    BY <1>3, <2>2 DEF Placed, PlacedAt, Flying
  <2> QED BY <2>1, <2>2
<1> QED BY <1>4, <1>5

\* Steps that leave the journal and what was fed alone.
LEMMA FedFrame ==
  ASSUME FedInv, UNCHANGED <<journal, fed>>,
         \A j \in Queues : Range(pending'[j]) \subseteq Range(pending[j]),
         \A j \in Queues : \A i \in DOMAIN routes'[j] : Journalled(routes'[j][i])
  PROVE  FedInv'
<1>1. \A j \in Queues : \A i \in DOMAIN routes'[j] : Journalled(routes[j][i])'
  BY DEF Journalled
<1> QED BY <1>1 DEF FedInv, AlreadyDelivered

\* What is left of a chain was there before.
LEMMA LeftJournalled ==
  ASSUME Types, FedInv, NEW k \in Queues, Head1(k), Leave(k),
         NEW j \in Queues, NEW i \in DOMAIN routes'[j]
  PROVE  /\ Journalled(routes'[j][i])
         /\ \E n \in DOMAIN routes[j] : routes'[j][i] = routes[j][n] /\ ~(j = k /\ n = 1)
<1>1. Left(k)
  BY LeaveLeft DEF Types
<1>2. CASE j = k
  <2>1. i + 1 \in DOMAIN routes[k] /\ routes'[k][i] = routes[k][i + 1] /\ i + 1 # 1
    BY <1>1, <1>2 DEF Left
  <2> QED BY <1>2, <2>1 DEF FedInv
<1>3. CASE j # k
  <2>1. routes'[j] = routes[j]
    BY <1>1, <1>3 DEF Left
  <2> QED BY <1>3, <2>1 DEF FedInv
<1> QED BY <1>2, <1>3

LEMMA AdvanceJournalled ==
  ASSUME FedInv, NEW k \in Queues, NEW r, Advance(k, r),
         NEW j \in Queues, NEW i \in DOMAIN routes'[j]
  PROVE  /\ i \in DOMAIN routes[j]
         /\ j = k /\ i = 1 => routes'[j][i] = r
         /\ ~(j = k /\ i = 1) => routes'[j][i] = routes[j][i] /\ Journalled(routes[j][i])
<1>1. i \in DOMAIN routes[j]
  BY DEF Advance
<1>2. routes'[j][i] = IF j = k /\ i = 1 THEN r ELSE routes[j][i]
  BY <1>1 DEF Advance
<1> QED BY <1>1, <1>2 DEF FedInv

LEMMA FedFrameAdvance ==
  ASSUME FedInv, UNCHANGED <<journal, fed, pending>>,
         NEW k \in Queues, NEW r, Advance(k, r), Journalled(r)
  PROVE  FedInv'
<1>1. \A j \in Queues : \A i \in DOMAIN routes'[j] : Journalled(routes'[j][i])
  BY AdvanceJournalled
<1> QED BY <1>1, FedFrame

LEMMA FedFrameLeave ==
  ASSUME Types, FedInv, UNCHANGED <<journal, fed, pending>>,
         NEW k \in Queues, Head1(k), Leave(k)
  PROVE  FedInv'
<1>1. \A j \in Queues : \A i \in DOMAIN routes'[j] : Journalled(routes'[j][i])
  BY LeftJournalled
<1> QED BY <1>1, FedFrame

LEMMA FedFrameKept ==
  ASSUME FedInv, UNCHANGED <<journal, fed>>, Kept,
         \A j \in Queues : Range(pending'[j]) \subseteq Range(pending[j])
  PROVE  FedInv'
<1>1. ASSUME NEW j \in Queues, NEW i \in DOMAIN routes'[j]
      PROVE  Journalled(routes'[j][i])
  <2>1. /\ i \in DOMAIN routes[j] /\ routes'[j][i].m = routes[j][i].m
        /\ routes'[j][i].pc = routes[j][i].pc /\ routes'[j][i].result = routes[j][i].result
    BY <1>1 DEF Kept
  <2>2. Journalled(routes[j][i])
    BY <2>1 DEF FedInv
  <2> QED BY <2>1, <2>2 DEF Journalled
<1> QED BY <1>1, FedFrame

\* A step that writes the journal of the head's message, and perhaps feeds it.
LEMMA FedHead ==
  ASSUME Types, Placed, FedInv, NEW k \in Queues, Head1(k), UNCHANGED pending,
         \A m \in Messages : m # routes[k][1].m =>
            journal'[m] = journal[m] /\ (m \in fed' <=> m \in fed),
         routes[k][1].m \in fed' =>
            /\ journal'[routes[k][1].m] \notin {"none", "rejected"}
            /\ Event[routes[k][1].m].kind # "synthetic",
         \A j \in Queues : \A i \in DOMAIN routes'[j] :
            \/ Journalled(routes[j][i])'
            \/ \E n \in DOMAIN routes[j] : routes'[j][i] = routes[j][n] /\ ~(j = k /\ n = 1),
         fed' \subseteq Messages
  PROVE  FedInv'
<1> DEFINE h == routes[k][1].m
<1>1. \A j \in Queues : h \notin Range(pending[j])
  BY HeadIsAlone
<1>2. ASSUME NEW m \in fed'
      PROVE  /\ AlreadyDelivered(m)' /\ Event[m].kind # "synthetic"
             /\ \A j \in Queues : m \notin Range(pending'[j])
  <2>1. CASE m = h
    BY <1>1, <2>1, <1>2 DEF AlreadyDelivered
  <2>2. CASE m # h
    BY <2>2, <1>2 DEF FedInv, AlreadyDelivered
  <2> QED BY <2>1, <2>2
<1>3. ASSUME NEW j \in Queues, NEW i \in DOMAIN routes'[j]
      PROVE  Journalled(routes[j][i])'
  <2>1. CASE \E n \in DOMAIN routes[j] : routes'[j][i] = routes[j][n] /\ ~(j = k /\ n = 1)
    <3>1. PICK n \in DOMAIN routes[j] : routes'[j][i] = routes[j][n] /\ ~(j = k /\ n = 1)
      BY <2>1
    <3>2. routes[j][n].m # h /\ routes[j][n].m \in Messages
      <4>1. routes[j][n] \in RouteRecs
        BY LenProperties, ElementOfSeq DEF Types, RouteTypes
      <4> QED BY <3>1, <4>1, HeadIsAlone DEF RouteRecs
    <3>3. Journalled(routes[j][n])
      BY DEF FedInv
    <3> QED BY <3>1, <3>2, <3>3 DEF Journalled
  <2> QED BY <1>3, <2>1
<1> QED BY <1>2, <1>3 DEF FedInv

LEMMA FedStep == Types /\ Placed /\ FedInv /\ Next => FedInv'
<1> SUFFICES ASSUME Types, Placed, FedInv, Next PROVE FedInv'
  OBVIOUS
<1>h. ASSUME NEW k \in Queues, Head1(k)
      PROVE  /\ routes[k][1] \in RouteRecs /\ Journalled(routes[k][1])
             /\ 1 \in DOMAIN routes[k] /\ routes[k][1].m \in Messages
  BY <1>h, HeadRoute DEF Types, FedInv, RouteRecs
<1>0. ASSUME UNCHANGED <<routes, pending, journal, fed>> PROVE FedInv'
  BY <1>0, FedFrame DEF FedInv
<1>1. ASSUME NEW k \in Queues, CheckRoute(k) PROVE FedInv'
  <2>1. Head1(k) /\ UNCHANGED <<journal, fed, pending>> /\ routes[k][1].pc = "check"
    BY <1>1 DEF CheckRoute, Routing, Dispatching
  <2>2. CASE Done(k)
    BY <2>1, <2>2, FedFrameLeave DEF Done
  <2>3. CASE Event[routes[k][1].m].kind = "synthetic" /\ GoTo(k, "enqueue")
    <3>1. Journalled([routes[k][1] EXCEPT !.pc = "enqueue"])
      BY <2>1, <2>3, <1>h DEF FedInv, Journalled, RouteRecs
    <3>2. Advance(k, [routes[k][1] EXCEPT !.pc = "enqueue"])
      BY <2>1, <2>3, GoToAdvances DEF Types, StepsOfRoute
    <3> QED BY <2>1, <3>1, <3>2, FedFrameAdvance
  <2>4. CASE Event[routes[k][1].m].kind # "synthetic" /\ GoTo(k, "journal")
    <3>1. Journalled([routes[k][1] EXCEPT !.pc = "journal"])
      BY <2>1, <2>4, <1>h DEF Journalled, RouteRecs
    <3>2. Advance(k, [routes[k][1] EXCEPT !.pc = "journal"])
      BY <2>1, <2>4, GoToAdvances DEF Types, StepsOfRoute
    <3> QED BY <2>1, <3>1, <3>2, FedFrameAdvance
  <2> QED BY <1>1, <2>2, <2>3, <2>4 DEF CheckRoute
<1>2. ASSUME NEW k \in Queues, LookUpDelivery(k) PROVE FedInv'
  <2> DEFINE h == routes[k][1]
  <2>1. Head1(k) /\ UNCHANGED <<journal, fed, pending>> /\ h.pc = "journal"
    BY <1>2 DEF LookUpDelivery, Routing, Dispatching
  <2>2. CASE AlreadyDelivered(h.m)
    <3>1. Leave(k)
      BY <1>2, <2>2 DEF LookUpDelivery, Done
    <3> QED BY <2>1, <3>1, FedFrameLeave
  <2>3. CASE ~AlreadyDelivered(h.m)
    <3>1. h.m \notin fed /\ Event[h.m].kind # "synthetic" /\ h \in RouteRecs
      BY <2>1, <2>3, <1>h DEF FedInv, Journalled
    <3>2. CASE GoTo(k, "enqueue")
      <4>1. Journalled([h EXCEPT !.pc = "enqueue"])
        BY <3>1 DEF Journalled, RouteRecs
      <4>2. Advance(k, [h EXCEPT !.pc = "enqueue"])
        BY <2>1, <3>2, GoToAdvances DEF Types, StepsOfRoute
      <4> QED BY <2>1, <4>1, <4>2, FedFrameAdvance
    <3>3. CASE routes' = [routes EXCEPT ![k][1].pc = "put", ![k][1].live = TRUE]
      <4> DEFINE r == [h EXCEPT !.pc = "put", !.live = TRUE]
      <4>1. r \in RouteRecs /\ Journalled(r)
        BY <3>1 DEF Journalled, RouteRecs, StepsOfRoute
      <4>2. routes' = [routes EXCEPT ![k] = [@ EXCEPT ![1] = r]]
        BY <3>3, <2>1, HeadRoute DEF Types, RouteTypes
      <4> HIDE DEF r
      <4>3. Advance(k, r)
        BY <2>1, <4>1, <4>2, AdvanceHead DEF Types
      <4> QED BY <2>1, <4>1, <4>3, FedFrameAdvance
    <3> QED BY <1>2, <2>3, <3>2, <3>3 DEF LookUpDelivery
  <2> QED BY <2>2, <2>3
<1>3. ASSUME NEW k \in Queues, HoldRoute(k) PROVE FedInv'
  <2>1. Head1(k) /\ Leave(k) /\ UNCHANGED <<fed, pending>>
    BY <1>3 DEF HoldRoute, Done, Dispatching
  <2>2. CASE journal' = journal
    BY <2>1, <2>2, FedFrameLeave
  <2>3. CASE routes[k][1].pc = "prepare" /\ journal' = [journal EXCEPT ![routes[k][1].m] = "rejected"]
    <3>1. routes[k][1].m \notin fed
      BY <2>1, <2>3, <1>h DEF Journalled
    <3>2. \A m \in Messages : m # routes[k][1].m =>
             journal'[m] = journal[m] /\ (m \in fed' <=> m \in fed)
      BY <2>1, <2>3 DEF Types, RouteTypes
    <3>3. \A j \in Queues : \A i \in DOMAIN routes'[j] :
             \E n \in DOMAIN routes[j] : routes'[j][i] = routes[j][n] /\ ~(j = k /\ n = 1)
      BY <2>1, LeftJournalled
    <3>4. fed' \subseteq Messages
      BY <2>1 DEF Types, RouteTypes
    <3> QED BY <2>1, <3>1, <3>2, <3>3, <3>4, FedHead
  <2> QED BY <1>3, <2>2, <2>3 DEF HoldRoute
<1>4. ASSUME NEW k \in Queues, PutSending(k) PROVE FedInv'
  <2> DEFINE h == routes[k][1]
             r == [h EXCEPT !.pc = "prepare"]
  <2>1. /\ Head1(k) /\ h.pc = "put" /\ GoTo(k, "prepare") /\ UNCHANGED <<fed, pending>>
        /\ journal' = [journal EXCEPT ![h.m] = "sending"]
    BY <1>4 DEF PutSending, Routing, Dispatching
  <2>2. Advance(k, r)
    BY <2>1, GoToAdvances DEF Types, StepsOfRoute
  <2>3. h.m \notin fed /\ h.m \in Messages /\ Event[h.m].kind # "synthetic"
        /\ r.pc = "prepare" /\ r.m = h.m
    BY <2>1, <1>h DEF Journalled, RouteRecs
  <2>4. journal'[h.m] = "sending" /\ \A m \in Messages : m # h.m => journal'[m] = journal[m]
    BY <2>1, <2>3 DEF Types, RouteTypes
  <2> HIDE DEF r
  <2>5. ASSUME NEW j \in Queues, NEW i \in DOMAIN routes'[j]
        PROVE  \/ Journalled(routes[j][i])'
               \/ \E n \in DOMAIN routes[j] : routes'[j][i] = routes[j][n] /\ ~(j = k /\ n = 1)
    <3>1. CASE j = k /\ i = 1
      <4>1. routes'[j][i] = r
        BY <2>2, <3>1, AdvanceJournalled
      <4> QED BY <2>1, <2>3, <2>4, <4>1 DEF Journalled
    <3>2. CASE ~(j = k /\ i = 1)
      BY <2>2, <3>2, AdvanceJournalled
    <3> QED BY <3>1, <3>2
  <2>6. fed' \subseteq Messages /\ h.m \notin fed'
    BY <2>1, <2>3 DEF Types, RouteTypes
  <2> QED BY <2>1, <2>4, <2>5, <2>6, FedHead
<1>5. ASSUME NEW k \in Queues, Prepare(k) PROVE FedInv'
  <2>1. /\ Head1(k) /\ routes[k][1].pc = "prepare" /\ GoTo(k, "steer")
        /\ UNCHANGED <<journal, fed, pending>>
    BY <1>5 DEF Prepare, Routing, Dispatching
  <2>2. Journalled([routes[k][1] EXCEPT !.pc = "steer"])
    BY <2>1, <1>h DEF Journalled, RouteRecs
  <2>3. Advance(k, [routes[k][1] EXCEPT !.pc = "steer"])
    BY <2>1, GoToAdvances DEF Types, StepsOfRoute
  <2> QED BY <2>1, <2>2, <2>3, FedFrameAdvance
<1>6. ASSUME NEW k \in Queues, Steer(k) PROVE FedInv'
  <2> DEFINE h == routes[k][1]
  <2>1. Head1(k) /\ h.pc = "steer" /\ UNCHANGED <<journal, pending>>
    BY <1>6 DEF Steer, Routing, Dispatching
  <2>2. PICK res \in Results \ {"none"} :
          /\ routes' = [routes EXCEPT ![k][1].pc = "ack", ![k][1].result = res]
          /\ fed' \in {fed \cup (IF res = "rejected" THEN {} ELSE {h.m})}
    BY <1>6 DEF Steer
  <2> DEFINE r == [h EXCEPT !.pc = "ack", !.result = res]
  <2>3. /\ r \in RouteRecs /\ r.m = h.m /\ r.pc = "ack" /\ r.result = res /\ h.m \in Messages
        /\ journal[h.m] = "sending" /\ Event[h.m].kind # "synthetic" /\ h.m \notin fed
    BY <2>1, <1>h DEF RouteRecs, StepsOfRoute, Results, Journalled
  <2>4. routes' = [routes EXCEPT ![k] = [@ EXCEPT ![1] = r]]
    BY <2>1, <2>2, HeadRoute DEF Types, RouteTypes
  <2> HIDE DEF r
  <2>5. Advance(k, r)
    BY <2>1, <2>3, <2>4, AdvanceHead DEF Types
  <2>6. /\ fed' \subseteq Messages
        /\ \A m \in Messages : m # h.m => journal'[m] = journal[m] /\ (m \in fed' <=> m \in fed)
        /\ res = "rejected" => h.m \notin fed'
    BY <2>1, <2>2, <2>3 DEF Types, RouteTypes
  <2>7. ASSUME NEW j \in Queues, NEW i \in DOMAIN routes'[j]
        PROVE  \/ Journalled(routes[j][i])'
               \/ \E n \in DOMAIN routes[j] : routes'[j][i] = routes[j][n] /\ ~(j = k /\ n = 1)
    <3>1. CASE j = k /\ i = 1
      <4>1. routes'[j][i] = r
        BY <2>5, <3>1, AdvanceJournalled
      <4> QED BY <2>1, <2>2, <2>3, <2>6, <4>1 DEF Journalled
    <3>2. CASE ~(j = k /\ i = 1)
      BY <2>5, <3>2, AdvanceJournalled
    <3> QED BY <3>1, <3>2
  <2>8. journal'[h.m] \notin {"none", "rejected"} /\ Event[h.m].kind # "synthetic"
    BY <2>1, <2>3
  <2> QED BY <2>1, <2>6, <2>7, <2>8, FedHead
<1>7. ASSUME NEW k \in Queues, Acknowledge(k) PROVE FedInv'
  <2> DEFINE h == routes[k][1]
             r == [h EXCEPT !.pc = "enqueue"]
  <2>1. /\ Head1(k) /\ h.pc = "ack" /\ UNCHANGED <<fed, pending>>
        /\ journal' = [journal EXCEPT ![h.m] = h.result]
    BY <1>7 DEF Acknowledge, Routing, Dispatching
  <2>2. /\ h.m \in Messages /\ h.result \in Results \ {"none"}
        /\ h.result = "rejected" => h.m \notin fed
        /\ Event[h.m].kind # "synthetic" /\ r.m = h.m /\ r.pc = "enqueue"
    BY <2>1, <1>h DEF Journalled, RouteRecs
  <2>3. journal'[h.m] = h.result /\ \A m \in Messages : m # h.m => journal'[m] = journal[m]
    BY <2>1, <2>2 DEF Types, RouteTypes
  <2>4. h.m \in fed' => journal'[h.m] \notin {"none", "rejected"}
    BY <2>1, <2>2, <2>3
  <2>5. fed' \subseteq Messages
    BY <2>1 DEF Types, RouteTypes
  <2> HIDE DEF r
  <2>6. ASSUME NEW j \in Queues, NEW i \in DOMAIN routes'[j]
        PROVE  \/ Journalled(routes[j][i])'
               \/ \E n \in DOMAIN routes[j] : routes'[j][i] = routes[j][n] /\ ~(j = k /\ n = 1)
    <3>1. CASE Done(k)
      BY <2>1, <3>1, LeftJournalled DEF Done
    <3>2. CASE h.result = "rejected" /\ GoTo(k, "enqueue")
      <4>1. Advance(k, r)
        BY <2>1, <3>2, GoToAdvances DEF Types, StepsOfRoute, r
      <4>2. CASE j = k /\ i = 1
        <5>1. routes'[j][i] = r
          BY <4>1, <4>2, AdvanceJournalled
        <5> QED BY <2>1, <2>2, <3>2, <5>1 DEF Journalled
      <4>3. CASE ~(j = k /\ i = 1)
        BY <4>1, <4>3, AdvanceJournalled
      <4> QED BY <4>2, <4>3
    <3> QED BY <1>7, <3>1, <3>2 DEF Acknowledge
  <2>7. h.m \in fed' => journal'[h.m] \notin {"none", "rejected"} /\ Event[h.m].kind # "synthetic"
    BY <2>2, <2>4
  <2> QED BY <2>1, <2>3, <2>5, <2>6, <2>7, FedHead
<1>8. ASSUME NEW k \in Queues, AcknowledgeFails(k) PROVE FedInv'
  <2>1. Head1(k) /\ Leave(k) /\ UNCHANGED <<journal, fed, pending>>
    BY <1>8 DEF AcknowledgeFails, Routing, Done, Dispatching
  <2> QED BY <2>1, FedFrameLeave
<1>9. ASSUME NEW k \in Queues, Enqueue(k) PROVE FedInv'
  <2>1. Head1(k) /\ UNCHANGED <<journal, fed>> /\ Leave(k) /\ routes[k][1].pc = "enqueue"
    BY <1>9 DEF Enqueue, Routing, Done
  <2>2. CASE UNCHANGED pending
    BY <2>1, <2>2, FedFrameLeave
  <2>3. CASE pending' = [pending EXCEPT ![k] = Append(@, routes[k][1].m)]
    <3> DEFINE h == routes[k][1].m
    <3>1. h \notin fed /\ h \in Messages
      BY <2>1, <1>h DEF Journalled
    <3>2. /\ pending'[k] = Append(pending[k], h) /\ pending[k] \in Seq(Messages)
          /\ \A j \in Queues : j # k => pending'[j] = pending[j]
      BY <2>3 DEF Types, RouteTypes
    <3>3. Range(pending'[k]) = Range(pending[k]) \cup {h}
      BY <3>1, <3>2, AppendOne
    <3>4. \A m \in fed : \A j \in Queues : m \notin Range(pending'[j])
      BY <3>1, <3>2, <3>3 DEF FedInv
    <3>5. \A j \in Queues : \A i \in DOMAIN routes'[j] : Journalled(routes[j][i])'
      BY <2>1, LeftJournalled DEF Journalled
    <3> QED BY <2>1, <3>4, <3>5 DEF FedInv, AlreadyDelivered
  <2> QED BY <1>9, <2>2, <2>3 DEF Enqueue
<1>10. ASSUME NEW m \in Messages, Receive(m) PROVE FedInv'
  <2>1. Joined(QueueKey(m), m) /\ UNCHANGED <<journal, fed, pending>>
    BY <1>10, ReceiveJoins DEF Receive, Types
  <2>2. ASSUME NEW j \in Queues, NEW i \in DOMAIN routes'[j] PROVE Journalled(routes'[j][i])
    <3>1. CASE j # QueueKey(m)
      <4>1. routes'[j] = routes[j]
        BY <2>1, <3>1 DEF Joined
      <4> QED BY <4>1 DEF FedInv
    <3>2. CASE j = QueueKey(m)
      <4>1. PICK e \in DOMAIN routes'[j] :
              /\ routes'[j][e] = Route(m)
              /\ \A n \in DOMAIN routes'[j] : n # e => n \in DOMAIN routes[j]
        BY <2>1, <3>2 DEF Joined
      <4>2. CASE i = e
        BY <4>1, <4>2 DEF Route, Journalled
      <4>3. CASE i # e
        <5>1. i \in DOMAIN routes[j] /\ routes'[j][i] = routes[j][i]
          BY <2>1, <3>2, <4>1, <4>3 DEF Joined
        <5> QED BY <5>1 DEF FedInv
      <4> QED BY <4>2, <4>3
    <3> QED BY <3>1, <3>2
  <2> QED BY <2>1, <2>2, FedFrame
<1>11. ASSUME NEW m \in Messages, Stop(m) PROVE FedInv'
  <2>1. Kept /\ UNCHANGED <<journal, fed>>
    BY <1>11, Keys, StaleKept DEF Stop, Types
  <2>2. ASSUME NEW j \in Queues PROVE Range(pending'[j]) \subseteq Range(pending[j])
    <3>1. pending'[j] = << >> \/ pending'[j] = pending[j]
      BY <1>11 DEF Stop
    <3> QED BY <3>1 DEF Range
  <2> QED BY <2>1, <2>2, FedFrameKept
<1>12. ASSUME NEW k \in Queues, Drain(k) PROVE FedInv'
  <2>1. UNCHANGED <<routes, journal, fed>>
    BY <1>12 DEF Drain, Routers
  <2>2. CASE pending[k] = << >>
    BY <1>12, <2>1, <2>2, <1>0 DEF Drain
  <2>3. CASE pending[k] # << >>
    <3> DEFINE rest == SubSeq(pending[k], Absorbed(pending[k]) + 1, Len(pending[k]))
    <3>1. pending' = [pending EXCEPT ![k] = rest]
      BY <1>12, <2>3 DEF Drain
    <3>2. Range(rest) \subseteq Range(pending[k])
      BY <2>3, DrainTakes DEF Types
    <3> HIDE DEF rest
    <3>3. \A j \in Queues : Range(pending'[j]) \subseteq Range(pending[j])
      BY <3>1, <3>2 DEF Types, RouteTypes
    <3>4. \A j \in Queues : \A i \in DOMAIN routes'[j] : Journalled(routes'[j][i])
      BY <2>1 DEF FedInv
    <3> QED BY <2>1, <3>3, <3>4, FedFrame
  <2> QED BY <2>2, <2>3
<1>13. ASSUME NEW k \in Queues, RunEnds(k) PROVE FedInv'
  <2>1. Kept /\ UNCHANGED <<journal, fed, pending>>
    BY <1>13, OrphanedKept DEF RunEnds, Types
  <2> QED BY <2>1, FedFrameKept
<1>14. ASSUME Crash PROVE FedInv'
  <2>1. /\ UNCHANGED <<journal, fed>>
        /\ \A j \in Queues : routes'[j] = << >> /\ pending'[j] = << >>
    BY <1>14 DEF Crash
  <2> QED BY <2>1 DEF FedInv, AlreadyDelivered, Range
<1>15. ASSUME NEW k \in Queues,
              \/ Acquire(k) \/ Probe(k) \/ SetUp(k) \/ SetUpFails(k) \/ RefuseTurn(k) \/ Spawn(k)
              \/ TryAgain(k) \/ Finalize(k) \/ FinalizeFails(k) \/ FailTurn(k) \/ CloseTurn(k)
       PROVE  FedInv'
  BY <1>15, <1>0 DEF Acquire, Probe, SetUp, SetUpFails, RefuseTurn, Spawn, TryAgain, Finalize,
                     FinalizeFails, FailTurn, CloseTurn, Settled, Routers
<1>16. ASSUME NEW x \in lingering, ChildExits(x) PROVE FedInv'
  BY <1>16, <1>0 DEF ChildExits, Routers
<1> QED
  BY <1>1, <1>2, <1>3, <1>4, <1>5, <1>6, <1>7, <1>8, <1>9, <1>10, <1>11, <1>12, <1>13,
     <1>14, <1>15, <1>16 DEF Next, Progress, Troubles


-----------------------------------------------------------------------------
(* /stop.                                                                  *)

LEMMA CancelFrame ==
  ASSUME CancelInv, cancelled' \subseteq cancelled,
         \A m \in cancelled : client'[m] # "away" \/ m \notin cancelled',
         NEW k,
         \A j \in Queues : j # k => Lasting(j) /\ pending'[j] = pending[j] /\ SameTurn(j),
         \A m \in cancelled :
           k \in Queues =>
             /\ m \notin Range(pending'[k]) /\ m \notin InTurn(k)'
             /\ \A i \in DOMAIN routes'[k] : routes'[k][i].m = m => routes'[k][i].stale
  PROVE  CancelInv'
<1> SUFFICES ASSUME NEW m \in cancelled', NEW j \in Queues
             PROVE  /\ client'[m] # "away"
                    /\ m \notin Range(pending'[j]) /\ m \notin InTurn(j)'
                    /\ \A i \in DOMAIN routes'[j] : routes'[j][i].m = m => routes'[j][i].stale
  <2>1. \A m \in cancelled' : client'[m] # "away"
    OBVIOUS
  <2> QED BY <2>1 DEF CancelInv
<1>1. m \in cancelled /\ client'[m] # "away"
  OBVIOUS
<1>2. CASE j = k
  BY <1>1, <1>2
<1>3. CASE j # k
  BY <1>1, <1>3 DEF CancelInv, SameChain, StaleStays, Lasting, SameTurn
<1> QED BY <1>2, <1>3, <1>1

\* Chains and turns keep what they have, and nothing is released.
LEMMA CancelSame ==
  ASSUME CancelInv, UNCHANGED cancelled,
         \A m \in cancelled : client'[m] # "away",
         \A j \in Queues : Lasting(j) /\ SameTurn(j),
         \A j \in Queues : Range(pending'[j]) \subseteq Range(pending[j])
  PROVE  CancelInv'
<1> SUFFICES ASSUME NEW m \in cancelled, NEW j \in Queues
             PROVE  /\ m \notin Range(pending'[j]) /\ m \notin InTurn(j)'
                    /\ \A i \in DOMAIN routes'[j] : routes'[j][i].m = m => routes'[j][i].stale
  BY DEF CancelInv
<1> QED BY DEF CancelInv, SameChain, StaleStays, Lasting, SameTurn

LEMMA DoneCancels ==
  ASSUME Types, CancelInv, NEW k \in Queues, Head1(k), Leave(k), UNCHANGED <<turn, cancelled>>,
         client' = client \/ MarkHandled({routes[k][1].m}),
         \A j \in Queues : j # k => pending'[j] = pending[j],
         \A m \in cancelled : m \notin Range(pending'[k])
  PROVE  CancelInv'
<1>1. Left(k) /\ cancelled \subseteq Messages
  BY LeaveLeft DEF Types, RouteTypes
<1>2. \A m \in cancelled : client'[m] # "away"
  BY <1>1 DEF CancelInv, MarkHandled
<1>3. \A j \in Queues : j # k => Lasting(j) /\ SameTurn(j)
  BY <1>1 DEF Left, SameChain, StaleStays, Lasting, SameTurn, InTurn
<1>4. ASSUME NEW m \in cancelled
      PROVE  /\ m \notin InTurn(k)'
             /\ \A i \in DOMAIN routes'[k] : routes'[k][i].m = m => routes'[k][i].stale
  <2>1. InTurn(k)' = InTurn(k)
    BY DEF InTurn
  <2> QED BY <1>1, <2>1 DEF CancelInv, Left
<1> QED BY <1>2, <1>3, <1>4, CancelFrame

LEMMA CancelStep == Types /\ Placed /\ CancelInv /\ Next => CancelInv'
<1> SUFFICES ASSUME Types, Placed, CancelInv, Next PROVE CancelInv'
  OBVIOUS
<1>0. ASSUME UNCHANGED <<client, routes, pending, cancelled>>, \A j \in Queues : SameTurn(j)
      PROVE  CancelInv'
  <2>1. \A j \in Queues : Lasting(j)
    BY <1>0 DEF SameChain, StaleStays, Lasting
  <2>2. \A m \in cancelled : client'[m] # "away"
    BY <1>0 DEF CancelInv
  <2> QED BY <1>0, <2>1, <2>2, CancelSame
<1>s. ASSUME turn' = turn PROVE \A j \in Queues : SameTurn(j)
  BY <1>s DEF SameTurn, InTurn
<1>1. ASSUME NEW k \in Queues,
             \/ CheckRoute(k) \/ LookUpDelivery(k) \/ PutSending(k) \/ Prepare(k) \/ Steer(k)
             \/ Acknowledge(k) \/ HoldRoute(k) \/ AcknowledgeFails(k)
      PROVE  CancelInv'
  <2>1. /\ Head1(k) /\ UNCHANGED <<pending, turn, cancelled>>
        /\ Done(k) \/ (UNCHANGED client /\ \A j \in Queues : Lasting(j))
    BY <1>1, Routes
  <2>2. CASE Done(k)
    BY <2>1, <2>2, DoneCancels DEF Done, CancelInv
  <2>3. CASE UNCHANGED client /\ \A j \in Queues : Lasting(j)
    BY <2>1, <2>3, <1>s, CancelSame DEF CancelInv
  <2> QED BY <2>1, <2>2, <2>3
<1>2. ASSUME NEW k \in Queues, Enqueue(k) PROVE CancelInv'
  <2>1. Head1(k) /\ Leave(k) /\ UNCHANGED <<turn, cancelled>>
    BY <1>2 DEF Enqueue, Routing, Done
  <2>2. CASE Done(k) /\ UNCHANGED pending
    BY <2>1, <2>2, DoneCancels DEF Done, CancelInv
  <2>3. CASE ~routes[k][1].stale /\ UNCHANGED client
             /\ pending' = [pending EXCEPT ![k] = Append(@, routes[k][1].m)]
    <3> DEFINE h == routes[k][1].m
    <3>1. h \in Messages /\ 1 \in DOMAIN routes[k]
      BY <2>1, HeadRoute DEF Types, RouteRecs
    <3>2. h \notin cancelled
      BY <2>3, <3>1 DEF CancelInv
    <3>3. /\ pending'[k] = Append(pending[k], h) /\ pending[k] \in Seq(Messages)
          /\ \A j \in Queues : j # k => pending'[j] = pending[j]
      BY <2>3 DEF Types, RouteTypes
    <3>4. Range(pending'[k]) = Range(pending[k]) \cup {h}
      BY <3>1, <3>3, AppendOne
    <3>5. \A m \in cancelled : m \notin Range(pending'[k])
      BY <3>2, <3>4 DEF CancelInv
    <3> QED BY <2>1, <2>3, <3>3, <3>5, DoneCancels
  <2> QED BY <1>2, <2>2, <2>3 DEF Enqueue, StaleNow
<1>3. ASSUME NEW m \in Messages, Receive(m) PROVE CancelInv'
  <2> DEFINE q == QueueKey(m)
  <2>1. /\ q \in Queues /\ client[m] = "away" /\ client' = [client EXCEPT ![m] = "inFlight"]
        /\ UNCHANGED <<pending, turn, cancelled>> /\ Joined(q, m)
    BY <1>3, Keys, ReceiveJoins DEF Receive, Delivered, Types
  <2>2. m \notin cancelled /\ \A p \in cancelled : client'[p] # "away"
    BY <2>1 DEF CancelInv, Types, RouteTypes
  <2>3. \A j \in Queues : j # q => Lasting(j) /\ SameTurn(j) /\ pending'[j] = pending[j]
    BY <2>1, <1>s DEF Joined, SameChain, StaleStays, Lasting
  <2>4. ASSUME NEW p \in cancelled, NEW i \in DOMAIN routes'[q], routes'[q][i].m = p
        PROVE  routes'[q][i].stale
    <3>1. PICK e \in DOMAIN routes'[q] :
            /\ routes'[q][e] = Route(m)
            /\ \A n \in DOMAIN routes'[q] : n # e => n \in DOMAIN routes[q]
      BY <2>1 DEF Joined
    <3>2. i # e
      BY <2>2, <2>4, <3>1 DEF Route
    <3>3. i \in DOMAIN routes[q] /\ routes'[q][i] = routes[q][i]
      BY <2>1, <3>1, <3>2 DEF Joined
    <3> QED BY <2>1, <2>4, <3>3 DEF CancelInv
  <2>5. InTurn(q)' = InTurn(q)
    BY <2>1, <1>s DEF SameTurn
  <2> HIDE DEF q
  <2>6. \A p \in cancelled : p \notin Range(pending'[q]) /\ p \notin InTurn(q)'
    BY <2>1, <2>5 DEF CancelInv
  <2> QED BY <2>1, <2>2, <2>3, <2>4, <2>6, CancelFrame
<1>4. ASSUME NEW m \in Messages, Stop(m) PROVE CancelInv'
  <2> DEFINE C == Candidates(m)
             q == QueueKey(m)
             dropped == UNION {Range(pending[k]) : k \in C}
  <2>1. /\ C \subseteq Queues /\ q \in Queues /\ client[m] = "away"
        /\ MarkHandled({m} \cup dropped)
        /\ pending' = [k \in Queues |-> IF k \in C THEN << >> ELSE pending[k]]
        /\ Kept /\ (\A i \in DOMAIN routes[q] : routes'[q][i].stale) /\ StopTurn(Hit(m))
        /\ cancelled' = cancelled \cup dropped \cup Routed(q)
    BY <1>4, Keys, StaleKept DEF Stop, Delivered, Candidates, Types
  <2>2. \A j \in Queues : Lasting(j)
    BY <2>1, KeptSame
  <2>3. \A j \in Queues : InTurn(j)' = InTurn(j)
    <3>1. \A j \in Queues : turn'[j].phase = turn[j].phase /\ turn'[j].msgs = turn[j].msgs
      BY <2>1, StopKeeps DEF Types
    <3> QED BY <3>1 DEF InTurn
  <2>4. \A j \in Queues : PlacedAt(j)
    BY DEF Placed
  <2>5. ASSUME NEW p \in dropped
        PROVE  /\ p \in Messages /\ QueueKey(p) \in C /\ p \in Range(pending[QueueKey(p)])
               /\ client[p] = "inFlight"
    <3>1. PICK j \in C : p \in Range(pending[j])
      BY <2>5
    <3> QED BY <2>1, <2>4, <3>1 DEF PlacedAt, Flying
  <2>6. ASSUME NEW p \in Routed(q)
        PROVE  p \in Messages /\ QueueKey(p) = q /\ client[p] = "inFlight"
    BY <2>1, <2>4, <2>6 DEF PlacedAt, Flying
  <2> HIDE DEF C, dropped, q
  <2>7. ASSUME NEW p \in cancelled' PROVE client'[p] # "away"
    <3>1. p \in Messages /\ client[p] # "away"
      BY <2>1, <2>5, <2>6, <2>7 DEF CancelInv, Types, RouteTypes
    <3> QED BY <2>1, <3>1 DEF MarkHandled
  <2>8. ASSUME NEW p \in cancelled', NEW j \in Queues
        PROVE  /\ p \notin Range(pending'[j]) /\ p \notin InTurn(j)'
               /\ \A i \in DOMAIN routes'[j] : routes'[j][i].m = p => routes'[j][i].stale
    <3>1. pending'[j] = (IF j \in C THEN << >> ELSE pending[j]) /\ Range(<< >>) = {}
      BY <2>1 DEF Range
    <3>2. CASE p \in cancelled
      BY <2>2, <2>3, <3>1, <3>2 DEF CancelInv, SameChain, StaleStays, Lasting
    <3>3. CASE p \in dropped
      <4>1. p \in Range(pending[j]) => j \in C
        BY <2>4, <2>5, <3>3 DEF PlacedAt, Flying
      <4>2. p \notin InTurn(j) /\ p \notin Routed(j)
        <5>1. CASE QueueKey(p) = j
          BY <2>4, <2>5, <3>3, <5>1 DEF PlacedAt
        <5>2. CASE QueueKey(p) # j
          BY <2>4, <5>2 DEF PlacedAt, Flying
        <5> QED BY <5>1, <5>2
      <4>3. \A i \in DOMAIN routes'[j] : routes'[j][i].m # p
        BY <2>2, <4>2, RoutedIs DEF SameChain, StaleStays, Lasting
      <4> QED BY <2>3, <3>1, <4>1, <4>2, <4>3
    <3>4. CASE p \in Routed(q)
      <4>1. p \notin Range(pending[j]) /\ p \notin InTurn(j)
        <5>1. CASE q = j
          BY <2>1, <2>4, <3>4, <5>1 DEF PlacedAt
        <5>2. CASE q # j
          BY <2>4, <2>6, <3>4, <5>2 DEF PlacedAt, Flying
        <5> QED BY <5>1, <5>2
      <4>2. ASSUME NEW i \in DOMAIN routes'[j], routes'[j][i].m = p PROVE routes'[j][i].stale
        <5>1. i \in DOMAIN routes[j] /\ routes[j][i].m = p
          BY <2>2, <4>2 DEF SameChain, StaleStays, Lasting
        <5>2. p \in Routed(j)
          BY <5>1, RoutedIs
        <5>3. j = q
          BY <2>4, <2>6, <3>4, <5>2 DEF PlacedAt, Flying
        <5> QED BY <2>1, <5>1, <5>3
      <4> QED BY <2>3, <3>1, <4>1, <4>2
    <3> QED BY <2>1, <2>8, <3>2, <3>3, <3>4
  <2> QED BY <2>7, <2>8 DEF CancelInv
<1>5. ASSUME NEW k \in Queues, Drain(k) PROVE CancelInv'
  <2>1. UNCHANGED <<client, routes, cancelled>>
    BY <1>5 DEF Drain, Routers
  <2>2. CASE pending[k] = << >>
    <3>1. UNCHANGED <<pending, turn>>
      BY <1>5, <2>2 DEF Drain
    <3> QED BY <2>1, <3>1, <1>0, <1>s
  <2>3. CASE pending[k] # << >>
    <3> DEFINE t == Taken(pending[k])
               rest == SubSeq(pending[k], Absorbed(pending[k]) + 1, Len(pending[k]))
    <3>1. /\ turn' = [turn EXCEPT ![k] = [NoTurn EXCEPT !.phase = "probe", !.msgs = t]]
          /\ pending' = [pending EXCEPT ![k] = rest]
      BY <1>5, <2>3 DEF Drain
    <3>2. Range(pending[k]) = Range(t) \cup Range(rest)
      BY <2>3, DrainTakes DEF Types
    <3> HIDE DEF t, rest
    <3>3. /\ turn'[k].phase = "probe" /\ turn'[k].msgs = t /\ pending'[k] = rest
          /\ \A j \in Queues : j # k => turn'[j] = turn[j] /\ pending'[j] = pending[j]
      BY <3>1 DEF Types, RouteTypes, TurnTypes, NoTurn
    <3>4. InTurn(k)' = Range(t)
      BY <3>3 DEF InTurn
    <3>5. \A j \in Queues : j # k => Lasting(j) /\ SameTurn(j) /\ pending'[j] = pending[j]
      BY <2>1, <3>3 DEF SameChain, StaleStays, Lasting, SameTurn, InTurn
    <3>6. \A m \in cancelled : m \notin Range(rest) /\ m \notin Range(t)
      BY <3>2 DEF CancelInv
    <3>7. \A m \in cancelled : client'[m] # "away"
      BY <2>1 DEF CancelInv
    <3>8. \A m \in cancelled : \A i \in DOMAIN routes'[k] :
             routes'[k][i].m = m => routes'[k][i].stale
      BY <2>1 DEF CancelInv
    <3> QED BY <2>1, <3>3, <3>4, <3>5, <3>6, <3>7, <3>8, CancelFrame
  <2> QED BY <2>2, <2>3
<1>6. ASSUME NEW k \in Queues,
             \/ Probe(k) \/ SetUp(k) \/ SetUpFails(k) \/ RefuseTurn(k) \/ Spawn(k) \/ TryAgain(k)
             \/ FinalizeFails(k)
      PROVE  CancelInv'
  <2>1. UNCHANGED <<client, routes, pending, cancelled>>
    BY <1>6 DEF Probe, SetUp, SetUpFails, RefuseTurn, Spawn, TryAgain, FinalizeFails,
                Routers
  <2>2. \A j \in Queues : j # k => turn'[j] = turn[j]
    BY <1>6 DEF Probe, SetUp, SetUpFails, RefuseTurn, Spawn, TryAgain, FinalizeFails,
                Types, TurnTypes
  <2>3. /\ turn[k].phase # "closing" /\ turn'[k].phase # "closing"
        /\ turn'[k].msgs = turn[k].msgs
    BY <1>6 DEF Probe, SetUp, SetUpFails, RefuseTurn, Spawn, TryAgain, FinalizeFails,
                Types, TurnTypes,
                TurnRecs, At
  <2>4. \A j \in Queues : SameTurn(j)
    BY <2>2, <2>3, TurnStays DEF SameTurn, InTurn
  <2> QED BY <2>1, <2>4, <1>0
<1>7. ASSUME NEW k \in Queues, RunEnds(k) PROVE CancelInv'
  <2>1. UNCHANGED <<client, pending, cancelled>> /\ Kept /\ turn[k].phase = "run"
    BY <1>7, OrphanedKept DEF RunEnds, Types, At
  <2>2. \A j \in Queues : j # k => turn'[j] = turn[j]
    BY <1>7 DEF RunEnds, Types, TurnTypes
  <2>3. turn'[k].phase # "closing" /\ turn'[k].msgs = turn[k].msgs
    BY <1>7 DEF RunEnds, Types, TurnTypes, TurnRecs
  <2>4. \A j \in Queues : SameTurn(j) /\ Lasting(j)
    BY <2>1, <2>2, <2>3, TurnStays, KeptSame DEF SameTurn, InTurn
  <2> QED BY <2>1, <2>4, CancelSame DEF CancelInv
<1>8. ASSUME NEW k \in Queues, Finalize(k) \/ FailTurn(k) PROVE CancelInv'
  <2>1. /\ UNCHANGED <<routes, pending, cancelled>> /\ turn' = [turn EXCEPT ![k].phase = "closing"]
        /\ MarkHandled(InTurn(k)) \/ MarkUnhandled(InTurn(k))
    BY <1>8 DEF Finalize, FailTurn, SettleOk, Settled
  <2>2. turn'[k].phase = "closing" /\ \A j \in Queues : j # k => turn'[j] = turn[j]
    BY <2>1 DEF Types, TurnTypes, TurnRecs
  <2>3. InTurn(k)' = {} /\ \A j \in Queues : j # k => SameTurn(j)
    BY <2>2 DEF InTurn, SameTurn
  <2>4. ASSUME NEW m \in cancelled PROVE client'[m] # "away"
    <3>1. m \in Messages /\ m \notin InTurn(k) /\ client[m] # "away"
      BY DEF CancelInv, Types, RouteTypes
    <3> QED BY <2>1, <3>1 DEF MarkHandled, MarkUnhandled
  <2>5. \A j \in Queues : Lasting(j) /\ pending'[j] = pending[j]
    BY <2>1 DEF SameChain, StaleStays, Lasting
  <2>6. \A m \in cancelled :
          /\ m \notin Range(pending'[k]) /\ m \notin InTurn(k)'
          /\ \A i \in DOMAIN routes'[k] : routes'[k][i].m = m => routes'[k][i].stale
    BY <2>1, <2>3 DEF CancelInv
  <2> QED BY <2>1, <2>3, <2>4, <2>5, <2>6, CancelFrame
<1>9. ASSUME NEW k \in Queues, CloseTurn(k) PROVE CancelInv'
  <2>1. /\ UNCHANGED <<client, routes, pending, cancelled>> /\ turn[k].phase = "closing"
        /\ turn' = [turn EXCEPT ![k] = NoTurn]
    BY <1>9 DEF CloseTurn, Routers, At
  <2>2. turn'[k].msgs = << >> /\ turn'[k].phase = "none" /\ Range(<< >>) = {}
        /\ \A j \in Queues : j # k => turn'[j] = turn[j]
    BY <2>1 DEF Types, TurnTypes, NoTurn, Range
  <2>3. SameTurn(k) /\ \A j \in Queues : j # k => SameTurn(j)
    BY <2>1, <2>2 DEF SameTurn, InTurn
  <2> QED BY <2>1, <2>3, <1>0
<1>10. ASSUME NEW k \in Queues, Acquire(k) PROVE CancelInv'
  BY <1>10, <1>0, <1>s DEF Acquire, Routers
<1>11. ASSUME NEW x \in lingering, ChildExits(x) PROVE CancelInv'
  BY <1>11, <1>0, <1>s DEF ChildExits, Routers
<1>12. ASSUME Crash PROVE CancelInv'
  <2>1. /\ cancelled' = {m \in cancelled : client[m] = "handled"}
        /\ client' = [m \in Messages |-> IF client[m] = "inFlight" THEN "away" ELSE client[m]]
        /\ \A j \in Queues : /\ routes'[j] = << >> /\ pending'[j] = << >>
                             /\ turn'[j].msgs = << >>
    BY <1>12 DEF Crash, NoTurn
  <2>2. \A j \in Queues : InTurn(j)' = {} /\ Range(pending'[j]) = {} /\ DOMAIN routes'[j] = {}
    BY <2>1 DEF InTurn, Range
  <2>3. \A m \in cancelled' : client'[m] = "handled"
    BY <2>1 DEF Types, RouteTypes
  <2> QED BY <2>2, <2>3 DEF CancelInv
<1> QED
  BY <1>1, <1>2, <1>3, <1>4, <1>5, <1>6, <1>7, <1>8, <1>9, <1>10, <1>11, <1>12
     DEF Next, Progress, Troubles


-----------------------------------------------------------------------------
(* Sessions.                                                               *)

LEMMA SessionFrame ==
  ASSUME SessionInv, \A x \in lingering' : x \in lingering \/ x[2] = None,
         \A j \in Queues :
           \/ turn'[j].phase = turn[j].phase /\ turn'[j].session = turn[j].session
           \/ turn'[j].phase \in {"none", "probe", "closing", "failing"}
           \/ turn'[j].phase # "run" /\ Serves(j, turn'[j].session)
  PROVE  SessionInv'
<1>0. \A k \in Queues : k # None
  BY KeysAreSome
<1>1. \A j \in Queues : turn'[j].phase \notin {"none", "probe", "closing", "failing"}
                          => Serves(j, turn'[j].session)
  BY DEF SessionInv
<1>2. \A x \in lingering' : x[2] # None => Serves(x[2], x[1])
  BY DEF SessionInv
<1>3. \A j \in Queues : turn'[j].phase = "run" =>
         \A x \in lingering' : x # <<turn'[j].session, j>>
  BY <1>0 DEF SessionInv, At
<1> QED BY <1>1, <1>2, <1>3 DEF SessionInv, Serves, At

LEMMA SessionStep == Types /\ Placed /\ SessionInv /\ Next => SessionInv'
<1> SUFFICES ASSUME Types, Placed, SessionInv, Next PROVE SessionInv'
  OBVIOUS
<1>0. ASSUME UNCHANGED <<turn, lingering>> PROVE SessionInv'
  BY <1>0, SessionFrame
<1>1. ASSUME NEW k \in Queues,
             \/ CheckRoute(k) \/ LookUpDelivery(k) \/ PutSending(k) \/ Prepare(k) \/ Steer(k)
             \/ Acknowledge(k) \/ HoldRoute(k) \/ AcknowledgeFails(k)
             \/ Enqueue(k) \/ Acquire(k)
      PROVE  SessionInv'
  BY <1>1, <1>0 DEF CheckRoute, LookUpDelivery, PutSending, Prepare, Steer, Acknowledge,
                    HoldRoute, AcknowledgeFails, Enqueue, Acquire, Dispatching
<1>2. ASSUME NEW m \in Messages, Receive(m) PROVE SessionInv'
  BY <1>2, <1>0 DEF Receive
<1>3. ASSUME NEW m \in Messages, Stop(m) PROVE SessionInv'
  <2>1. StopTurn(Hit(m)) /\ lingering' = lingering
    BY <1>3 DEF Stop
  <2>2. \A j \in Queues : turn'[j].phase = turn[j].phase /\ turn'[j].session = turn[j].session
    BY <2>1, StopKeeps DEF Types
  <2> QED BY <2>1, <2>2, SessionFrame
<1>4. ASSUME NEW k \in Queues, Drain(k) \/ CloseTurn(k) PROVE SessionInv'
  <2>1. \A j \in Queues : turn'[j] = turn[j] \/ turn'[j].phase \in {"none", "probe"}
    <3>1. CASE Drain(k) /\ pending[k] = << >>
      BY <3>1 DEF Drain
    <3>2. CASE Drain(k) /\ pending[k] # << >>
      <4>1. turn' = [turn EXCEPT ![k] = [NoTurn EXCEPT !.phase = "probe", !.msgs = Taken(pending[k])]]
        BY <3>2 DEF Drain
      <4> QED BY <4>1 DEF NoTurn, Types, TurnTypes
    <3>3. CASE CloseTurn(k)
      BY <3>3 DEF CloseTurn, NoTurn, Types, TurnTypes
    <3> QED BY <1>4, <3>1, <3>2, <3>3
  <2>2. lingering' = lingering
    BY <1>4 DEF Drain, CloseTurn
  <2> QED BY <2>1, <2>2, SessionFrame
<1>5. ASSUME NEW k \in Queues, Probe(k) PROVE SessionInv'
  <2>1. PICK s \in {SessionKey(Primary(k))} \cup
                   (IF Event[Primary(k)].root = None
                    THEN {Event[Primary(k)].parent} \cap TaskCards ELSE {}) :
           turn' = [turn EXCEPT ![k].phase = "setup", ![k].session = s]
    BY <1>5 DEF Probe
  <2>2. turn[k].msgs \in Seq(Messages) /\ turn[k].msgs # << >> /\ turn[k].phase = "probe"
        /\ turn[k] \in TurnRecs
    BY <1>5 DEF Probe, At, Types, TurnTypes, TurnRecs
  <2>3. Primary(k) \in Messages /\ Primary(k) \in InTurn(k)
    BY <2>2, TailOne DEF Primary, InTurn
  <2>4. QueueKey(Primary(k)) = k
    BY <2>3 DEF Placed, PlacedAt, Flying
  <2>5. Serves(k, s)
    BY <2>1, <2>3, <2>4 DEF Serves, MayRunOn
  <2>6. turn'[k].phase = "setup" /\ turn'[k].session = s
        /\ \A j \in Queues : j # k => turn'[j] = turn[j]
    BY <2>1, <2>2 DEF Types, TurnTypes, TurnRecs
  <2>7. lingering' = lingering
    BY <1>5 DEF Probe
  <2> QED BY <2>5, <2>6, <2>7, SessionFrame
<1>6. ASSUME NEW k \in Queues,
             \/ SetUp(k) \/ SetUpFails(k) \/ RefuseTurn(k) \/ TryAgain(k) \/ Finalize(k)
             \/ FinalizeFails(k) \/ FailTurn(k)
      PROVE  SessionInv'
  <2>1. PICK p \in {"ready", "refused", "failing", "closing", "retry"} :
          /\ turn' = [turn EXCEPT ![k].phase = p] /\ lingering' = lingering
          /\ p \in {"ready", "refused", "retry"} =>
               turn[k].phase \in {"setup", "ready", "again", "retry"}
    BY <1>6 DEF SetUp, SetUpFails, RefuseTurn, TryAgain, Finalize, FinalizeFails, FailTurn,
                Settled, At
  <2>2. /\ turn'[k].phase = p /\ turn'[k].session = turn[k].session
        /\ \A j \in Queues : j # k => turn'[j] = turn[j]
    BY <2>1 DEF Types, TurnTypes, TurnRecs
  <2>3. p \in {"ready", "refused", "retry"} => Serves(k, turn[k].session)
    BY <2>1 DEF SessionInv
  <2> QED BY <2>1, <2>2, <2>3, SessionFrame
<1>7. ASSUME NEW k \in Queues, Spawn(k) PROVE SessionInv'
  <2>1. /\ turn[k].phase \in {"ready", "retry"} /\ Unconfirmed(turn[k].session) = {}
        /\ turn' = [turn EXCEPT ![k].phase = "run", ![k].stopped = turn[k].hold]
        /\ lingering' = lingering
    BY <1>7 DEF Spawn
  <2>2. /\ turn'[k].phase = "run" /\ turn'[k].session = turn[k].session
        /\ \A j \in Queues : j # k => turn'[j] = turn[j]
    BY <2>1 DEF Types, TurnTypes, TurnRecs
  <2>3. \A x \in lingering : x # <<turn[k].session, k>>
    <3>1. k # None
      BY KeysAreSome
    <3> QED BY <2>1, <3>1 DEF Unconfirmed
  <2>4. Serves(k, turn[k].session)
    BY <2>1 DEF SessionInv
  <2>5. \A j \in Queues : turn'[j].phase \notin {"none", "probe", "closing", "failing"}
                            => Serves(j, turn'[j].session)
    BY <2>2, <2>4 DEF SessionInv
  <2>6. \A j \in Queues : turn'[j].phase = "run" =>
          \A x \in lingering : x # <<turn'[j].session, j>>
    BY <2>2, <2>3 DEF SessionInv, At
  <2>7. \A x \in lingering' : x[2] # None => Serves(x[2], x[1])
    BY <2>1 DEF SessionInv
  <2> QED BY <2>1, <2>5, <2>6, <2>7 DEF SessionInv, Serves, At
<1>8. ASSUME NEW k \in Queues, RunEnds(k) PROVE SessionInv'
  <2>1. turn[k].phase = "run" /\ lingering' \subseteq lingering \cup {<<turn[k].session, k>>}
    BY <1>8 DEF RunEnds, At
  <2>2. /\ turn'[k].phase \in {"finalize", "failing", "again"}
        /\ turn'[k].session = turn[k].session
        /\ \A j \in Queues : j # k => turn'[j] = turn[j]
    BY <1>8 DEF RunEnds, Types, TurnTypes, TurnRecs
  <2>3. Serves(k, turn[k].session)
    BY <2>1 DEF SessionInv
  <2>4. \A j \in Queues : turn'[j].phase \notin {"none", "probe", "closing", "failing"}
                            => Serves(j, turn'[j].session)
    BY <2>2, <2>3 DEF SessionInv
  <2>5. \A x \in lingering' : x[2] # None => Serves(x[2], x[1])
    <3>1. \A x \in lingering : x[2] # None => Serves(x[2], x[1])
      BY DEF SessionInv
    <3>2. ASSUME NEW x \in lingering', x = <<turn[k].session, k>> PROVE Serves(x[2], x[1])
      <4>1. x[1] = turn[k].session /\ x[2] = k
        BY <3>2
      <4> QED BY <2>3, <4>1
    <3> QED BY <2>1, <3>1, <3>2
  <2>6. ASSUME NEW j \in Queues, turn'[j].phase = "run", NEW x \in lingering'
        PROVE  x # <<turn'[j].session, j>>
    <3>1. j # k /\ turn'[j] = turn[j]
      BY <2>2, <2>6
    <3>2. CASE x \in lingering
      BY <2>6, <3>1, <3>2 DEF SessionInv, At
    <3>3. CASE x = <<turn[k].session, k>>
      BY <3>1, <3>3
    <3> QED BY <2>1, <3>2, <3>3
  <2> QED BY <2>4, <2>5, <2>6 DEF SessionInv, Serves, At
<1>9. ASSUME NEW x \in lingering, ChildExits(x) PROVE SessionInv'
  <2>1. lingering' \subseteq lingering /\ turn' = turn
    BY <1>9 DEF ChildExits
  <2> QED BY <2>1, SessionFrame
<1>10. ASSUME Crash PROVE SessionInv'
  <2>1. lingering' = ChildOf \X {None} /\ \A j \in Queues : turn'[j].phase = "none"
    BY <1>10 DEF Crash, NoTurn
  <2> QED BY <2>1, SessionFrame
<1> QED
  BY <1>1, <1>2, <1>3, <1>4, <1>5, <1>6, <1>7, <1>8, <1>9, <1>10 DEF Next, Progress, Troubles

-----------------------------------------------------------------------------
(* The theorems.                                                           *)

IInv == Types /\ SlotInv /\ Placed /\ FedInv /\ CancelInv /\ SessionInv

LEMMA InitInv == Init => IInv
<1> SUFFICES ASSUME Init PROVE IInv
  OBVIOUS
<1>0. /\ << >> \in Seq(RouteRecs) /\ << >> \in Seq(Messages) /\ << >> \in Seq(Queues)
      /\ Range(<< >>) = {} /\ Distinct(<< >>) /\ DOMAIN << >> = {}
  BY EmptySeq DEF Range, Distinct
<1>1. \A k \in Queues : /\ routes[k] = << >> /\ pending[k] = << >> /\ turn[k] = NoTurn
                        /\ slot[k] = "none" /\ links[k] = 0
  BY DEF Init
<1>2. NoTurn \in TurnRecs /\ NoTurn.phase = "none" /\ NoTurn.msgs = << >>
  BY EmptySeq DEF NoTurn, TurnRecs, Phases
<1>3. RouteTypes
  <2>1. client \in [Messages -> ClientViews]
    BY DEF Init, ClientViews
  <2> QED BY <1>0, <2>1 DEF Init, RouteTypes, JournalViews
<1>4. TurnTypes
  BY <1>0, <1>1, <1>2 DEF Init, TurnTypes
<1>5. SlotTypes
  BY <1>0 DEF Init, SlotTypes
<1>6. SlotInv
  <2>1. Waiting = {} /\ Holding = {}
    BY <1>1 DEF Waiting, Holding
  <2>2. waiters = << >> /\ running = 0 /\ Cardinality({}) = 0 /\ 0 <= MaxConcurrent
    BY FS_EmptySet, BridgeAssumption DEF Init
  <2> QED BY <1>0, <1>1, <1>2, <2>1, <2>2 DEF SlotInv
<1>7. Placed
  <2> SUFFICES ASSUME NEW k \in Queues PROVE PlacedAt(k)
    BY DEF Placed
  <2>1. Flying(k) = {}
    BY DEF Init, Flying
  <2>2. Routed(k) = {} /\ InTurn(k) = {} /\ RoutedOnce(k)
    BY <1>0, <1>1, <1>2 DEF Routed, InTurn, RoutedOnce
  <2> QED BY <1>0, <1>1, <2>1, <2>2 DEF PlacedAt
<1>8. FedInv /\ CancelInv
  BY <1>0, <1>1 DEF Init, FedInv, CancelInv
<1>9. SessionInv
  BY <1>1, <1>2 DEF Init, SessionInv, At
<1> QED BY <1>3, <1>4, <1>5, <1>6, <1>7, <1>8, <1>9 DEF IInv, Types

LEMMA StutterInv == IInv /\ UNCHANGED vars => IInv'
<1> SUFFICES ASSUME IInv, UNCHANGED vars PROVE IInv'
  OBVIOUS
<1>1. Types' /\ SlotInv'
  BY DEF IInv, vars, Types, RouteTypes, TurnTypes, SlotTypes, SlotInv, Waiting, Holding
<1>2. Placed'
  BY DEF IInv, vars, Placed, PlacedAt, Routed, InTurn, Flying, RoutedOnce
<1>3. FedInv' /\ CancelInv'
  BY DEF IInv, vars, FedInv, CancelInv, Journalled, AlreadyDelivered, InTurn
<1>4. SessionInv'
  BY DEF IInv, vars, SessionInv, Serves, At
<1> QED BY <1>1, <1>2, <1>3, <1>4 DEF IInv

LEMMA StepInv == IInv /\ [Next]_vars => IInv'
<1> SUFFICES ASSUME IInv, [Next]_vars PROVE IInv'
  OBVIOUS
<1>1. CASE Next
  <2>1. RouteTypes' /\ TurnTypes'
    BY <1>1, RouteTypesStep, TurnTypesStep DEF IInv
  <2>2. SlotTypes' /\ SlotInv'
    BY <1>1, SlotStep DEF IInv
  <2>3. Placed' /\ FedInv'
    BY <1>1, PlacedStep, FedStep DEF IInv
  <2>4. CancelInv' /\ SessionInv'
    BY <1>1, CancelStep, SessionStep DEF IInv
  <2> QED BY <2>1, <2>2, <2>3, <2>4 DEF IInv, Types
<1>2. CASE UNCHANGED vars
  BY <1>2, StutterInv
<1> QED BY <1>1, <1>2

LEMMA DispatchInvariant == Spec => []IInv
  BY InitInv, StepInv, PTL DEF Spec

\* Types: the dispatch loop's state stays what TypeOK says.
THEOREM TypeCorrect == Spec => []TypeOK
<1>1. IInv => TypeOK
  <2> SUFFICES ASSUME IInv PROVE TypeOK
    OBVIOUS
  <2>1. \A k \in Queues : /\ routes[k] \in Seq(RouteRecs) /\ pending[k] \in Seq(Messages)
                          /\ turn[k].phase \in Phases /\ slot[k] \in {"none", "waiting", "held"}
    BY DEF IInv, Types, RouteTypes, TurnTypes, SlotTypes, TurnRecs
  <2>2. \A k \in Queues : Range(routes[k]) \subseteq RouteRecs /\ Range(pending[k]) \subseteq Messages
    BY <2>1, RangeIn
  <2>3. running \in 0 .. MaxConcurrent
    BY BridgeAssumption DEF IInv, Types, SlotTypes, SlotInv
  <2>4. /\ client \in [Messages -> ClientViews] /\ journal \in [Messages -> JournalViews]
        /\ fed \subseteq Messages /\ cancelled \subseteq Messages
        /\ active \in [Sessions -> Queues \cup {None}] /\ stops \subseteq Queues
        /\ lingering \subseteq Sessions \X (Queues \cup {None})
    BY DEF IInv, Types, RouteTypes, TurnTypes
  <2> QED BY <2>1, <2>2, <2>3, <2>4 DEF TypeOK, RouteRecs, Phases, ClientViews, JournalViews
<1> QED BY <1>1, DispatchInvariant, PTL

\* A message in flight is in exactly one of the routing chain, the pending
\* list and the turn of its key; no other message is in any.
THEOREM NothingStranded == Spec => []NoneStranded
<1>1. IInv => NoneStranded
  <2> SUFFICES ASSUME IInv, NEW m \in Messages
               PROVE  Owners(m) = IF client[m] = "inFlight" THEN 1 ELSE 0
    BY DEF NoneStranded
  <2> DEFINE q == QueueKey(m)
             R == {k \in Queues : m \in Routed(k)}
             P == {k \in Queues : m \in Range(pending[k])}
             T == {k \in Queues : m \in InTurn(k)}
  <2>1. q \in Queues /\ \A k \in Queues : PlacedAt(k)
    BY Keys DEF IInv, Placed
  <2>2. \A k \in Queues : m \in Routed(k) \cup Range(pending[k]) \cup InTurn(k)
                            <=> k = q /\ client[m] = "inFlight"
    BY <2>1 DEF PlacedAt, Flying
  <2>3. Cardinality({}) = 0 /\ Cardinality({q}) = 1
    BY FS_EmptySet, FS_Singleton
  <2>4. Owners(m) = Cardinality(R) + Cardinality(P) + Cardinality(T)
    BY DEF Owners
  <2>5. CASE client[m] # "inFlight"
    <3>1. R = {} /\ P = {} /\ T = {}
      BY <2>2, <2>5
    <3> QED BY <2>3, <2>4, <2>5, <3>1
  <2>6. CASE client[m] = "inFlight"
    <3>1. R \subseteq {q} /\ P \subseteq {q} /\ T \subseteq {q}
      BY <2>2
    <3>2. m \in Routed(q) \/ m \in Range(pending[q]) \/ m \in InTurn(q)
      BY <2>1, <2>2, <2>6
    <3>3. /\ ~(m \in Routed(q) /\ m \in Range(pending[q]))
          /\ ~(m \in InTurn(q) /\ m \in Routed(q)) /\ ~(m \in InTurn(q) /\ m \in Range(pending[q]))
      BY <2>1 DEF PlacedAt
    <3>4. CASE m \in Routed(q)
      <4>1. R = {q} /\ P = {} /\ T = {}
        BY <2>1, <3>1, <3>3, <3>4
      <4>2. Cardinality(R) = 1 /\ Cardinality(P) = 0 /\ Cardinality(T) = 0
        BY <2>3, <4>1
      <4> HIDE DEF R, P, T, q
      <4> QED BY <2>4, <2>6, <4>2
    <3>5. CASE m \in Range(pending[q])
      <4>1. R = {} /\ P = {q} /\ T = {}
        BY <2>1, <3>1, <3>3, <3>5
      <4>2. Cardinality(R) = 0 /\ Cardinality(P) = 1 /\ Cardinality(T) = 0
        BY <2>3, <4>1
      <4> HIDE DEF R, P, T, q
      <4> QED BY <2>4, <2>6, <4>2
    <3>6. CASE m \in InTurn(q)
      <4>1. R = {} /\ P = {} /\ T = {q}
        BY <2>1, <3>1, <3>3, <3>6
      <4>2. Cardinality(R) = 0 /\ Cardinality(P) = 0 /\ Cardinality(T) = 1
        BY <2>3, <4>1
      <4> HIDE DEF R, P, T, q
      <4> QED BY <2>4, <2>6, <4>2
    <3> QED BY <3>2, <3>4, <3>5, <3>6
  <2> QED BY <2>5, <2>6
<1> QED BY <1>1, DispatchInvariant, PTL

\* The semaphore's count is the number of keys that hold a slot; a key waits
\* once, and only while every slot is taken.
THEOREM SlotsCounted == Spec => []SlotsAccounted
<1>1. IInv => SlotsAccounted
  <2> SUFFICES ASSUME IInv PROVE SlotsAccounted
    OBVIOUS
  <2>1. running = Cardinality({k \in Queues : slot[k] = "held"})
    BY DEF IInv, SlotInv, Holding
  <2>2. waiters # << >> => running = MaxConcurrent
    BY DEF IInv, SlotInv
  <2>3. ASSUME NEW k \in Queues
        PROVE  Cardinality({i \in DOMAIN waiters : waiters[i] = k})
                 = IF slot[k] = "waiting" THEN 1 ELSE 0
    <3> DEFINE W == {i \in DOMAIN waiters : waiters[i] = k}
    <3>1. Distinct(waiters) /\ Range(waiters) = Waiting
      BY DEF IInv, SlotInv
    <3>2. Cardinality({}) = 0 /\ \A x : Cardinality({x}) = 1
      BY FS_EmptySet, FS_Singleton
    <3>3. CASE slot[k] = "waiting"
      <4>1. k \in Range(waiters)
        BY <3>1, <3>3 DEF Waiting
      <4>2. PICK i \in DOMAIN waiters : waiters[i] = k
        BY <4>1 DEF Range
      <4>3. W = {i}
        BY <3>1, <4>2 DEF Distinct
      <4> QED BY <3>2, <3>3, <4>3
    <3>4. CASE slot[k] # "waiting"
      <4>1. k \notin Range(waiters)
        BY <3>1, <3>4 DEF Waiting
      <4>2. W = {}
        BY <4>1 DEF Range
      <4> QED BY <3>2, <3>4, <4>2
    <3> QED BY <3>3, <3>4
  <2> QED BY <2>1, <2>2, <2>3 DEF SlotsAccounted
<1> QED BY <1>1, DispatchInvariant, PTL

\* A turn starts with messages that were pending on its key.
LEMMA StartsFromPending ==
  ASSUME IInv, [Next]_vars, NEW m \in Messages, Starts(m)
  PROVE  \E k \in Queues : m \in Range(pending[k])
<1>1. PICK k \in Queues : turn[k].phase = "none" /\ m \in Range(turn'[k].msgs)
  BY DEF Starts, At
<1>2. turn[k].msgs = << >> /\ Range(<< >>) = {}
  BY <1>1 DEF IInv, Types, TurnTypes, Range
<1>3. turn'[k].msgs # turn[k].msgs
  BY <1>1, <1>2
<1>4. Drain(k)
  <2>1. ASSUME NEW j \in Queues, turn' = turn
               \/ (turn[j].phase # "none" /\ \E t : turn' = [turn EXCEPT ![j] = t])
               \/ Drain(j)
        PROVE  Drain(k)
    <3>1. CASE Drain(j)
      BY <1>3, <3>1 DEF Drain, IInv, Types, TurnTypes
    <3>2. CASE turn[j].phase # "none" /\ \E t : turn' = [turn EXCEPT ![j] = t]
      BY <1>1, <1>3, <3>2 DEF IInv, Types, TurnTypes
    <3> QED BY <1>3, <2>1, <3>1, <3>2
  <2>2. ASSUME NEW j \in Queues,
               \/ CheckRoute(j) \/ LookUpDelivery(j) \/ PutSending(j) \/ Prepare(j) \/ Steer(j)
               \/ Acknowledge(j) \/ HoldRoute(j) \/ AcknowledgeFails(j)
               \/ Enqueue(j) \/ Acquire(j)
        PROVE  Drain(k)
    <3>1. turn' = turn
      BY <2>2 DEF CheckRoute, LookUpDelivery, PutSending, Prepare, Steer, Acknowledge,
                  HoldRoute, AcknowledgeFails, Enqueue, Acquire, Dispatching
    <3> QED BY <2>1, <3>1
  <2>3. ASSUME NEW j \in Queues,
               \/ Probe(j) \/ SetUp(j) \/ SetUpFails(j) \/ RefuseTurn(j) \/ Spawn(j) \/ RunEnds(j)
               \/ TryAgain(j) \/ Finalize(j) \/ FinalizeFails(j) \/ FailTurn(j) \/ CloseTurn(j)
        PROVE  Drain(k)
    <3>1. turn[j].phase # "none"
      BY <2>3 DEF Probe, SetUp, SetUpFails, RefuseTurn, Spawn, RunEnds, TryAgain, Finalize,
                  FinalizeFails, FailTurn, CloseTurn, At
    <3>2. \A i \in Queues : i # j => turn'[i] = turn[i]
      BY <2>3 DEF Probe, SetUp, SetUpFails, RefuseTurn, Spawn, RunEnds, TryAgain, Finalize,
                  FinalizeFails, FailTurn, CloseTurn, Settled, IInv, Types, TurnTypes
    <3>3. k # j
      BY <1>1, <3>1
    <3> QED BY <1>3, <3>2, <3>3
  <2>4. ASSUME NEW p \in Messages, Stop(p) PROVE Drain(k)
    <3>1. turn'[k].msgs = turn[k].msgs
      BY <2>4, StopKeeps DEF Stop, IInv, Types
    <3> QED BY <1>3, <3>1
  <2>5. CASE turn' = turn
    BY <1>3, <2>5
  <2>6. (\E p \in Messages : Receive(p)) \/ (\E x \in lingering : ChildExits(x)) \/ UNCHANGED vars
          => turn' = turn
    BY DEF Receive, ChildExits, vars
  <2>7. ~Crash
    BY <1>2, <1>3 DEF Crash, NoTurn
  <2>8. ASSUME NEW j \in Queues, Drain(j) PROVE Drain(k)
    BY <2>1, <2>8
  <2> QED BY <2>2, <2>3, <2>4, <2>5, <2>6, <2>7, <2>8 DEF Next, Progress, Troubles
<1>5. pending[k] # << >>
  BY <1>3, <1>4 DEF Drain
<1>6. turn'[k].msgs = Taken(pending[k])
  BY <1>4, <1>5 DEF Drain, IInv, Types, TurnTypes, NoTurn
<1>7. Range(Taken(pending[k])) \subseteq Range(pending[k])
  BY <1>5, DrainTakes DEF IInv, Types
<1> QED BY <1>1, <1>6, <1>7

\* A follow-up that a running turn may have received never starts a turn.
THEOREM FedNotReplayed == Spec => InputOnce
<1>1. IInv /\ [Next]_vars => [\A m \in Messages : Starts(m) => m \notin fed]_vars
  BY StartsFromPending DEF IInv, FedInv
<1> QED BY <1>1, DispatchInvariant, PTL DEF Spec, InputOnce

\* What a /stop found waiting never starts a turn.
THEOREM StopsHold == Spec => StopHolds
<1>1. IInv /\ [Next]_vars => [\A m \in Messages : Starts(m) => m \notin cancelled]_vars
  BY StartsFromPending DEF IInv, CancelInv
<1> QED BY <1>1, DispatchInvariant, PTL DEF Spec, StopHolds

\* If events that may end up on one session share their queue key, a session
\* never has two running turns, nor one beside a child that may be alive.
THEOREM OneWriterPerSession == OneQueue /\ Spec => []SessionExclusive
<1>1. ASSUME OneQueue, IInv PROVE SessionExclusive
  <2>1. ASSUME NEW k \in Queues, NEW j \in Queues, NEW s, Serves(k, s), Serves(j, s)
        PROVE  k = j
    <3>1. PICK m \in Messages : QueueKey(m) = k /\ s \in MayRunOn(m)
      BY <2>1 DEF Serves
    <3>2. PICK p \in Messages : QueueKey(p) = j /\ s \in MayRunOn(p)
      BY <2>1 DEF Serves
    <3>3. MayRunOn(m) \cap MayRunOn(p) # {}
      BY <3>1, <3>2
    <3> QED BY <1>1, <3>1, <3>2, <3>3 DEF OneQueue
  <2>2. \A k \in Queues : At(k, "run") => Serves(k, turn[k].session)
    BY <1>1 DEF IInv, SessionInv, At
  <2>3. \A k, j \in Queues :
          At(k, "run") /\ At(j, "run") /\ k # j => turn[k].session # turn[j].session
    BY <2>1, <2>2
  <2>4. ASSUME NEW k \in Queues, At(k, "run"), NEW x \in lingering, x[1] = turn[k].session,
               x[2] # None
        PROVE  FALSE
    <3>1. x \in Sessions \X (Queues \cup {None}) /\ Serves(x[2], x[1])
      BY <1>1, <2>4 DEF IInv, Types, TurnTypes, SessionInv
    <3>2. x[2] = k
      BY <2>1, <2>2, <2>4, <3>1
    <3>3. x = <<turn[k].session, k>>
      BY <2>4, <3>1, <3>2
    <3> QED BY <1>1, <2>4, <3>3 DEF IInv, SessionInv
  <2> QED BY <2>3, <2>4 DEF SessionExclusive
<1>2. OneQueue => (IInv => SessionExclusive)
  BY <1>1
<1>3. SUFFICES ASSUME OneQueue PROVE Spec => []SessionExclusive
  OBVIOUS
<1>4. IInv => SessionExclusive
  BY <1>2, <1>3
<1> QED BY <1>4, DispatchInvariant, PTL


=============================================================================
