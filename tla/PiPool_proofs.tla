---------------------------- MODULE PiPool_proofs ----------------------------
(***************************************************************************)
(* What holds of PiPool for every number of turns, topics and processes.   *)
(* The invariant is stated of any turns tn, children ps and used sessions  *)
(* us, since run() and a fallback take several of the steps it is kept by  *)
(* (retire, settle, spawn) at once.                                        *)
(***************************************************************************)
EXTENDS PiPool, TLAPS

Running(r) == r.phase \in {"preflight", "prompt", "accepted", "refused"}
Placed(r) == r.phase \in {"queued", "cold"} \/ Running(r)

Typed(tn, ps, us) ==
  tn \in [Turns -> TurnState] /\ ps \in [Pids -> Child] /\ us \subseteq Sessions

Flagged(r) ==
  /\ r.killed => OnWire(r) \/ r.phase = "cold"
  /\ r.timer # "none" => OnWire(r) /\ r.killed
  /\ r.told # None => r.phase \in {"accepted", "cold", "ok", "bad"}
Flags(tn) == \A t \in Turns : Flagged(tn[t])

\* A turn and the child it is on know one another.
Seats(tn, ps) ==
  /\ \A t \in Turns : Placed(tn[t]) =>
       /\ tn[t].on \in Pids /\ ps[tn[t].on].st # "free"
       /\ Alive(ps[tn[t].on]) =>
            /\ ps[tn[t].on].thread = tn[t].thread
            /\ ps[tn[t].on].kind = IF tn[t].phase = "cold" THEN "cold" ELSE "warm"
  /\ \A t \in Turns : Running(tn[t]) => Alive(ps[tn[t].on]) /\ ps[tn[t].on].current = t
  /\ \A p \in Pids : ps[p].current # None =>
       /\ ps[p].current \in Turns /\ Running(tn[ps[p].current]) /\ tn[ps[p].current].on = p

\* What the child has run is what its turn needs.
Fits(tn, ps) == \A t \in Turns :
  /\ tn[t].phase = "accepted" => ps[tn[t].on].run \in {t, None}
  /\ tn[t].phase = "prompt" => ps[tn[t].on].ran
  /\ tn[t].phase \in {"queued", "preflight"} /\ tn[t].resume = None /\ Alive(ps[tn[t].on]) =>
       ~ps[tn[t].on].ran /\ ps[tn[t].on].session = None

\* A topic has one open turn and one living child, and the turn is on that
\* child or waits for its exit.
Serial(tn) ==
  \A t, u \in Turns : Open(tn[t]) /\ Open(tn[u]) /\ tn[t].thread = tn[u].thread => t = u
Alone(ps) ==
  \A p, q \in Pids : Alive(ps[p]) /\ Alive(ps[q]) /\ ps[p].thread = ps[q].thread => p = q
Holder(r) == IF Waiting(r) THEN r.awaits ELSE {r.on}
Holds(tn, ps) ==
  \A t \in Turns, p \in Pids :
    Open(tn[t]) /\ Alive(ps[p]) /\ ps[p].thread = tn[t].thread => p \in Holder(tn[t])

\* A topic that was told of session s, resumes it or has it open.
Claims(tn, ps, s, th) ==
  \/ \E u \in Turns : tn[u].thread = th /\ s \in {tn[u].told, tn[u].resume}
  \/ \E p \in Pids : Alive(ps[p]) /\ ps[p].thread = th /\ ps[p].native = s

Home(tn, ps) ==
  \A s \in Sessions, th, ti \in Threads \cup {None} :
    Claims(tn, ps, s, th) /\ Claims(tn, ps, s, ti) => th = ti
Origin(tn, ps) ==
  \A p \in Pids, th \in Threads \cup {None} :
    Alive(ps[p]) /\ (Claims(tn, ps, p, th) \/ Claims(tn, ps, -p, th)) => th = ps[p].thread
Fresh(tn, ps, us) ==
  \A p \in Pids : ps[p].st = "free" =>
    /\ p \notin us /\ -p \notin us
    /\ \A th \in Threads \cup {None} : ~Claims(tn, ps, p, th) /\ ~Claims(tn, ps, -p, th)
Virgin(ps, us) ==
  \A p \in Pids : Alive(ps[p]) /\ ps[p].kind = "warm" /\ ~ps[p].ran /\ ps[p].session = None =>
    ps[p].native = p /\ p \notin us
Named(ps) == \A p \in Pids : Alive(ps[p]) => ps[p].native \in Sessions

Inv(tn, ps, us) ==
  /\ Typed(tn, ps, us) /\ Flags(tn) /\ Seats(tn, ps) /\ Fits(tn, ps)
  /\ Serial(tn) /\ Alone(ps) /\ Holds(tn, ps)
  /\ Home(tn, ps) /\ Origin(tn, ps) /\ Fresh(tn, ps, us) /\ Virgin(ps, us) /\ Named(ps)

IInv == /\ Inv(turn, proc, used)
        /\ shutdown \in {"no", "draining", "done"} /\ astray = {}

-----------------------------------------------------------------------------
LEMMA Numbers ==
  /\ \A p, q \in Pids : p # -q /\ (-p = -q => p = q) /\ p \in Sessions /\ -p \in Sessions
  /\ None \notin Pids /\ None \notin Turns /\ None \notin Sessions /\ None \notin Threads
  /\ Foreign \notin Turns /\ Foreign # None
  /\ \A s \in Sessions : \E p \in Pids : s = p \/ s = -p
<1>1. Pids \subseteq Nat \ {0} /\ Turns \subseteq Nat \ {0}
  BY PiAssumption DEF Pids, Turns
<1>2. ASSUME NEW s \in Sessions PROVE s \in Int
  <2>1. s \in Pids \/ \E p \in Pids : s = -p
    BY DEF Sessions
  <2>2. \A p \in Pids : p \in Int /\ -p \in Int
    BY <1>1
  <2> QED BY <2>1, <2>2
<1>3. None \notin Int /\ 0 \in Int /\ None \notin Threads
  BY PiAssumption
<1>4. \A p, q \in Pids : p # -q /\ (-p = -q => p = q)
  BY <1>1
<1>5. \A s \in Sessions : \E p \in Pids : s = p \/ s = -p
  BY DEF Sessions
<1>6. \A p \in Pids : p \in Sessions /\ -p \in Sessions
  BY DEF Sessions
<1>7. None \notin Pids /\ None \notin Turns /\ None \notin Sessions
  <2>1. \A p \in Pids \cup Turns : p \in Int
    BY <1>1
  <2> QED BY <1>2, <1>3, <2>1
<1>8. Foreign \notin Turns /\ Foreign # None
  BY <1>1, <1>3 DEF Foreign
<1> QED BY <1>3, <1>4, <1>5, <1>6, <1>7, <1>8

\* Child p went from c to d without being spawned.
Aged(p, c, d) ==
  /\ d.st = "free" => c.st = "free"
  /\ Alive(d) =>
       /\ Alive(c) /\ d.thread = c.thread /\ d.kind = c.kind
       /\ d.native = c.native \/ (d.native = -p /\ c.ran)
       /\ c.ran => d.ran
       /\ ~d.ran => d.session = c.session

\* A turn went from r to s, while the children went from ps to qs.
TurnAged(r, s, ps, qs) ==
  /\ s.thread = r.thread /\ s.resume = r.resume
  /\ Open(s) =>
       /\ Open(r)
       /\ \A p \in Pids : Alive(qs[p]) /\ qs[p].thread = r.thread /\ p \in Holder(r) =>
            p \in Holder(s)
  /\ \/ s.told = r.told
     \/ \E p \in Pids : Alive(ps[p]) /\ ps[p].thread = r.thread /\ s.told = ps[p].native

LEMMA AgedKeeps ==
  ASSUME NEW tn, NEW ps, NEW us, NEW un, NEW qs, NEW vs,
         Inv(tn, ps, us), Typed(un, qs, vs), Flags(un), Seats(un, qs), Fits(un, qs),
         \A p \in Pids : Aged(p, ps[p], qs[p]),
         \A t \in Turns : TurnAged(tn[t], un[t], ps, qs),
         \A s \in vs : s \in us \/ \E p \in Pids : /\ Alive(ps[p]) /\ s = ps[p].native
                                                   /\ ps[p].kind = "cold" \/ ps[p].ran
  PROVE  Inv(un, qs, vs)
<1>1. /\ \A p \in Pids : ps[p] \in Child /\ qs[p] \in Child
      /\ \A t \in Turns : tn[t] \in TurnState /\ un[t] \in TurnState
  BY DEF Inv, Typed
<1>2. Serial(un)
  BY DEF Inv, Serial, TurnAged
<1>3. Alone(qs)
  BY DEF Inv, Alone, Aged
<1>4. Holds(un, qs)
  <2> SUFFICES ASSUME NEW t \in Turns, NEW p \in Pids, Open(un[t]), Alive(qs[p]),
                      qs[p].thread = un[t].thread
               PROVE  p \in Holder(un[t])
    BY DEF Holds
  <2>1. Open(tn[t]) /\ Alive(ps[p]) /\ ps[p].thread = tn[t].thread
    BY DEF TurnAged, Aged
  <2>2. p \in Holder(tn[t])
    BY <2>1 DEF Inv, Holds
  <2> QED BY <2>2 DEF TurnAged
<1>5. ASSUME NEW s, NEW th, Claims(un, qs, s, th)
      PROVE  \/ Claims(tn, ps, s, th)
             \/ \E p \in Pids : s = -p /\ Alive(ps[p]) /\ ps[p].thread = th
  <2>1. CASE \E u \in Turns : un[u].thread = th /\ s \in {un[u].told, un[u].resume}
    <3>1. PICK u \in Turns : un[u].thread = th /\ s \in {un[u].told, un[u].resume}
      BY <2>1
    <3>2. tn[u].thread = th /\ un[u].resume = tn[u].resume
      BY <3>1 DEF TurnAged
    <3>3. CASE s = un[u].resume \/ un[u].told = tn[u].told
      BY <3>1, <3>2, <3>3 DEF Claims
    <3>4. CASE s = un[u].told /\ \E p \in Pids : Alive(ps[p]) /\ ps[p].thread = tn[u].thread /\ un[u].told = ps[p].native
      BY <3>2, <3>4 DEF Claims
    <3> QED BY <3>1, <3>3, <3>4 DEF TurnAged
  <2>2. CASE \E p \in Pids : Alive(qs[p]) /\ qs[p].thread = th /\ qs[p].native = s
    <3>1. PICK p \in Pids : Alive(qs[p]) /\ qs[p].thread = th /\ qs[p].native = s
      BY <2>2
    <3>2. Alive(ps[p]) /\ ps[p].thread = th /\ (ps[p].native = s \/ s = -p)
      BY <3>1 DEF Aged
    <3> QED BY <3>2 DEF Claims
  <2> QED BY <1>5, <2>1, <2>2 DEF Claims
<1>6. Origin(un, qs)
  <2> SUFFICES ASSUME NEW p \in Pids, NEW th \in Threads \cup {None}, Alive(qs[p]),
                      NEW s \in {p, -p}, Claims(un, qs, s, th)
               PROVE  th = qs[p].thread
    BY DEF Origin
  <2>1. Alive(ps[p]) /\ qs[p].thread = ps[p].thread
    BY DEF Aged
  <2>2. CASE Claims(tn, ps, s, th)
    BY <2>1, <2>2 DEF Inv, Origin
  <2>3. CASE \E q \in Pids : s = -q /\ Alive(ps[q]) /\ ps[q].thread = th
    BY <2>1, <2>3, Numbers
  <2> QED BY <1>5, <2>2, <2>3
<1>7. Home(un, qs)
  <2> SUFFICES ASSUME NEW s \in Sessions, NEW th \in Threads \cup {None}, NEW ti \in Threads \cup {None},
                      Claims(un, qs, s, th), Claims(un, qs, s, ti)
               PROVE  th = ti
    BY DEF Home
  <2>1. CASE Claims(tn, ps, s, th) /\ Claims(tn, ps, s, ti)
    BY <2>1 DEF Inv, Home
  <2>2. ASSUME NEW p \in Pids, s = -p, Alive(ps[p]), ps[p].thread = th PROVE th = ti
    <3>1. CASE Claims(tn, ps, s, ti)
      BY <2>2, <3>1 DEF Inv, Origin
    <3>2. CASE \E q \in Pids : s = -q /\ Alive(ps[q]) /\ ps[q].thread = ti
      BY <2>2, <3>2, Numbers
    <3> QED BY <1>5, <3>1, <3>2
  <2>3. ASSUME NEW p \in Pids, s = -p, Alive(ps[p]), ps[p].thread = ti PROVE th = ti
    <3>1. CASE Claims(tn, ps, s, th)
      BY <2>3, <3>1 DEF Inv, Origin
    <3>2. CASE \E q \in Pids : s = -q /\ Alive(ps[q]) /\ ps[q].thread = th
      BY <2>3, <3>2, Numbers
    <3> QED BY <1>5, <3>1, <3>2
  <2> QED BY <1>5, <2>1, <2>2, <2>3
<1>8. Fresh(un, qs, vs)
  <2> SUFFICES ASSUME NEW p \in Pids, qs[p].st = "free", NEW s \in {p, -p}
               PROVE  s \notin vs /\ \A th \in Threads \cup {None} : ~Claims(un, qs, s, th)
    BY DEF Fresh
  <2>1. ps[p].st = "free" /\ ~Alive(ps[p])
    BY DEF Aged, Alive
  <2>2. s \notin us /\ \A th \in Threads \cup {None} : ~Claims(tn, ps, s, th)
    BY <2>1 DEF Inv, Fresh
  <2>3. \A q \in Pids : Alive(ps[q]) => ps[q].native # s
    BY <1>1, <2>2 DEF Claims, Child
  <2>4. s \notin vs
    BY <2>2, <2>3
  <2>5. ASSUME NEW th \in Threads \cup {None}, Claims(un, qs, s, th) PROVE FALSE
    <3>1. PICK q \in Pids : s = -q /\ Alive(ps[q])
      BY <1>5, <2>2, <2>5
    <3>2. q = p
      BY <3>1, Numbers
    <3> QED BY <2>1, <3>1, <3>2
  <2> QED BY <2>4, <2>5
<1>9. Virgin(qs, vs)
  <2> SUFFICES ASSUME NEW p \in Pids, Alive(qs[p]), qs[p].kind = "warm", ~qs[p].ran,
                      qs[p].session = None
               PROVE  qs[p].native = p /\ p \notin vs
    BY DEF Virgin
  <2>1. Alive(ps[p]) /\ ps[p].kind = "warm" /\ ~ps[p].ran /\ ps[p].session = None
        /\ qs[p].native = ps[p].native
    BY DEF Aged
  <2>2. ps[p].native = p /\ p \notin us
    BY <2>1 DEF Inv, Virgin
  <2>3. ASSUME NEW q \in Pids, Alive(ps[q]), p = ps[q].native, ps[q].kind = "cold" \/ ps[q].ran
        PROVE  FALSE
    <3>1. Claims(tn, ps, p, ps[q].thread) /\ ps[q].thread \in Threads \cup {None}
      BY <1>1, <2>3 DEF Claims, Child
    <3>2. ps[q].thread = ps[p].thread
      BY <2>1, <3>1 DEF Inv, Origin
    <3>3. p = q
      BY <2>1, <2>3, <3>2 DEF Inv, Alone
    <3> QED BY <2>1, <2>3, <3>3
  <2> QED BY <2>1, <2>2, <2>3
<1>10. Named(qs)
  BY Numbers DEF Inv, Named, Aged
<1> QED BY <1>2, <1>3, <1>4, <1>6, <1>7, <1>8, <1>9, <1>10 DEF Inv

StillHas(p, c, d, un) ==
  Aged(p, c, d) /\ (d.current # None => d.current = c.current /\ Running(un[c.current]))
StillOn(t, r, x, qs) ==
  /\ x.thread = r.thread
  /\ Placed(x) => Placed(r) /\ x.on = r.on /\ (x.phase = "cold" <=> r.phase = "cold")
  /\ Running(x) => Running(r) /\ Alive(qs[r.on]) /\ qs[r.on].current = t

LEMMA SeatsKeep ==
  ASSUME NEW tn \in [Turns -> TurnState], NEW ps \in [Pids -> Child],
         NEW un \in [Turns -> TurnState], NEW qs \in [Pids -> Child], Seats(tn, ps),
         \A p \in Pids : StillHas(p, ps[p], qs[p], un),
         \A t \in Turns : StillOn(t, tn[t], un[t], qs)
  PROVE  Seats(un, qs)
<1> USE DEF StillHas, StillOn
<1>1. ASSUME NEW t \in Turns, Placed(un[t])
      PROVE  /\ un[t].on \in Pids /\ qs[un[t].on].st # "free"
             /\ Alive(qs[un[t].on]) =>
                  /\ qs[un[t].on].thread = un[t].thread
                  /\ qs[un[t].on].kind = IF un[t].phase = "cold" THEN "cold" ELSE "warm"
  <2>1. /\ un[t].on = tn[t].on /\ tn[t].on \in Pids /\ ps[tn[t].on].st # "free"
        /\ Alive(ps[tn[t].on]) => /\ ps[tn[t].on].thread = tn[t].thread
                                  /\ ps[tn[t].on].kind = IF tn[t].phase = "cold" THEN "cold" ELSE "warm"
    BY <1>1 DEF Seats
  <2>2. Aged(tn[t].on, ps[tn[t].on], qs[tn[t].on])
    BY <2>1
  <2> QED BY <1>1, <2>1, <2>2 DEF Aged
<1>2. ASSUME NEW t \in Turns, Running(un[t])
      PROVE  Alive(qs[un[t].on]) /\ qs[un[t].on].current = t
  BY <1>2 DEF Placed
<1>3. ASSUME NEW p \in Pids, qs[p].current # None
      PROVE  /\ qs[p].current \in Turns /\ Running(un[qs[p].current])
             /\ un[qs[p].current].on = p
  <2>1. /\ qs[p].current = ps[p].current /\ ps[p].current \in Turns
        /\ Running(un[ps[p].current]) /\ tn[ps[p].current].on = p
    BY <1>3 DEF Seats
  <2> QED BY <2>1 DEF Placed
<1> QED BY <1>1, <1>2, <1>3 DEF Seats

\* Turn t of a topic without living children gets child p.
LEMMA BornKeeps ==
  ASSUME NEW tn, NEW ps, NEW us, Inv(tn, ps, us), NEW t \in Turns, NEW p \in Pids,
         tn[t].phase \in {"wait", "queued", "coldWait"},
         tn[t].told = None, ps[p].st = "free",
         \A q \in Pids : Alive(ps[q]) => ps[q].thread # tn[t].thread,
         NEW kind \in {"warm", "cold"}, NEW x \in TurnState,
         x.thread = tn[t].thread, x.resume = tn[t].resume, x.told = None, ~x.killed,
         x.timer = "none", x.on = p, x.phase = IF kind = "cold" THEN "cold" ELSE "queued",
         NEW c \in Child, c.st = "up", c.kind = kind, c.thread = x.thread,
         c.session = x.resume, c.native = (IF x.resume = None THEN p ELSE x.resume),
         c.ran = FALSE, c.current = None, c.run = None
  PROVE  Inv([tn EXCEPT ![t] = x], [ps EXCEPT ![p] = c], us)
<1> DEFINE un == [tn EXCEPT ![t] = x]
           qs == [ps EXCEPT ![p] = c]
<1>1. /\ tn \in [Turns -> TurnState] /\ ps \in [Pids -> Child] /\ us \subseteq Sessions
      /\ Typed(un, qs, us)
  BY DEF Inv, Typed
<1>2. /\ un[t] = x /\ \A u \in Turns : u # t => un[u] = tn[u]
      /\ qs[p] = c /\ \A q \in Pids : q # p => qs[q] = ps[q]
      /\ \A q \in Pids : ps[q] \in Child /\ qs[q] \in Child
      /\ \A u \in Turns : tn[u] \in TurnState /\ un[u] \in TurnState
      /\ \A q \in Pids : Alive(qs[q]) => q = p \/ Alive(ps[q])
      /\ Alive(c) /\ ~Alive(ps[p])
      /\ Open(x) /\ Open(tn[t]) /\ Placed(x) /\ ~Running(x) /\ ~Running(tn[t]) /\ ~Waiting(x)
  BY <1>1 DEF Alive, Open, Settled, Placed, Running, Waiting
<1> HIDE DEF un, qs
<1>3. Flags(un)
  <2>1. Flagged(x)
    BY DEF Flagged
  <2> QED BY <1>2, <2>1 DEF Inv, Flags
<1>4. Seats(un, qs)
  <2>1. ASSUME NEW u \in Turns, Placed(un[u])
        PROVE  /\ un[u].on \in Pids /\ qs[un[u].on].st # "free"
               /\ Alive(qs[un[u].on]) =>
                    /\ qs[un[u].on].thread = un[u].thread
                    /\ qs[un[u].on].kind = IF un[u].phase = "cold" THEN "cold" ELSE "warm"
    <3>1. CASE u = t
      BY <1>2, <3>1
    <3>2. CASE u # t
      <4>1. un[u] = tn[u] /\ tn[u].on \in Pids /\ ps[tn[u].on].st # "free"
        BY <1>2, <2>1, <3>2 DEF Inv, Seats
      <4>2. qs[tn[u].on] = ps[tn[u].on]
        BY <1>2, <4>1
      <4> QED BY <2>1, <4>1, <4>2 DEF Inv, Seats
    <3> QED BY <3>1, <3>2
  <2>2. ASSUME NEW u \in Turns, Running(un[u])
        PROVE  Alive(qs[un[u].on]) /\ qs[un[u].on].current = u
    <3>1. u # t /\ un[u] = tn[u]
      BY <1>2, <2>2
    <3>2. Alive(ps[tn[u].on]) /\ ps[tn[u].on].current = u /\ tn[u].on \in Pids
      BY <2>2, <3>1 DEF Inv, Seats, Placed
    <3> QED BY <1>2, <3>1, <3>2
  <2>3. ASSUME NEW q \in Pids, qs[q].current # None
        PROVE  /\ qs[q].current \in Turns /\ Running(un[qs[q].current])
               /\ un[qs[q].current].on = q
    <3>1. q # p /\ qs[q] = ps[q]
      BY <1>2, <2>3
    <3>2. ps[q].current \in Turns /\ Running(tn[ps[q].current]) /\ tn[ps[q].current].on = q
      BY <2>3, <3>1 DEF Inv, Seats
    <3> QED BY <1>2, <3>1, <3>2
  <2> QED BY <2>1, <2>2, <2>3 DEF Seats
<1>5. Fits(un, qs)
  <2> SUFFICES ASSUME NEW u \in Turns
               PROVE  /\ un[u].phase = "accepted" => qs[un[u].on].run \in {u, None}
                      /\ un[u].phase = "prompt" => qs[un[u].on].ran
                      /\ un[u].phase \in {"queued", "preflight"} /\ un[u].resume = None
                           /\ Alive(qs[un[u].on]) =>
                           ~qs[un[u].on].ran /\ qs[un[u].on].session = None
    BY DEF Fits
  <2>1. CASE u = t
    BY <1>2, <2>1
  <2>2. CASE u # t /\ Placed(tn[u])
    <3>1. tn[u].on \in Pids /\ ps[tn[u].on].st # "free"
      BY <2>2 DEF Inv, Seats
    <3>2. qs[tn[u].on] = ps[tn[u].on] /\ un[u] = tn[u]
      BY <1>2, <2>2, <3>1
    <3> QED BY <3>2 DEF Inv, Fits
  <2>3. CASE u # t /\ ~Placed(tn[u])
    BY <1>2, <2>3 DEF Placed, Running
  <2> QED BY <2>1, <2>2, <2>3
<1>6. Serial(un)
  BY <1>2 DEF Inv, Serial
<1>7. Alone(qs)
  BY <1>2 DEF Inv, Alone
<1>8. Holds(un, qs)
  <2> SUFFICES ASSUME NEW u \in Turns, NEW q \in Pids, Open(un[u]), Alive(qs[q]),
                      qs[q].thread = un[u].thread
               PROVE  q \in Holder(un[u])
    BY DEF Holds
  <2>1. CASE u = t
    <3>1. q = p
      BY <1>2, <2>1
    <3> QED BY <1>2, <2>1, <3>1 DEF Holder
  <2>2. CASE u # t
    <3>1. q # p
      <4>1. Open(tn[u]) /\ tn[u].thread # tn[t].thread
        BY <1>2, <2>2 DEF Inv, Serial
      <4> QED BY <1>2, <2>2, <4>1
    <3> QED BY <1>2, <2>2, <3>1 DEF Inv, Holds
  <2> QED BY <2>1, <2>2
<1>9. ASSUME NEW s, NEW th, Claims(un, qs, s, th)
      PROVE  Claims(tn, ps, s, th) \/ (s = p /\ th = x.thread)
  <2>1. CASE \E u \in Turns : un[u].thread = th /\ s \in {un[u].told, un[u].resume}
    <3>1. PICK u \in Turns : un[u].thread = th /\ s \in {un[u].told, un[u].resume}
      BY <2>1
    <3>2. tn[u].thread = th /\ s \in {tn[u].told, tn[u].resume}
      BY <1>2, <3>1
    <3> QED BY <3>2 DEF Claims
  <2>2. CASE \E q \in Pids : Alive(qs[q]) /\ qs[q].thread = th /\ qs[q].native = s
    <3>1. PICK q \in Pids : Alive(qs[q]) /\ qs[q].thread = th /\ qs[q].native = s
      BY <2>2
    <3>2. CASE q # p
      BY <1>2, <3>1, <3>2 DEF Claims
    <3>3. CASE q = p
      BY <1>2, <3>1, <3>3 DEF Claims
    <3> QED BY <3>2, <3>3
  <2> QED BY <1>9, <2>1, <2>2 DEF Claims
<1>10. \A th \in Threads \cup {None} : ~Claims(tn, ps, p, th) /\ ~Claims(tn, ps, -p, th)
  BY DEF Inv, Fresh
<1>11. Home(un, qs)
  BY <1>9, <1>10 DEF Inv, Home
<1>12. Origin(un, qs)
  <2> SUFFICES ASSUME NEW q \in Pids, NEW th \in Threads \cup {None}, Alive(qs[q]),
                      NEW s \in {q, -q}, Claims(un, qs, s, th)
               PROVE  th = qs[q].thread
    BY DEF Origin
  <2>1. CASE q = p
    <3>1. ~Claims(tn, ps, s, th)
      BY <1>10, <2>1
    <3> QED BY <1>2, <1>9, <2>1, <3>1
  <2>2. CASE q # p
    <3>1. s # p
      BY <2>2, Numbers
    <3>2. Claims(tn, ps, s, th) /\ qs[q] = ps[q]
      BY <1>2, <1>9, <2>2, <3>1
    <3> QED BY <1>2, <2>2, <3>2 DEF Inv, Origin
  <2> QED BY <2>1, <2>2
<1>13. Fresh(un, qs, us)
  <2> SUFFICES ASSUME NEW q \in Pids, qs[q].st = "free", NEW s \in {q, -q}
               PROVE  s \notin us /\ \A th \in Threads \cup {None} : ~Claims(un, qs, s, th)
    BY DEF Fresh
  <2>1. q # p /\ ps[q].st = "free" /\ s # p
    BY <1>2, Numbers
  <2>2. s \notin us /\ \A th \in Threads \cup {None} : ~Claims(tn, ps, s, th)
    BY <2>1 DEF Inv, Fresh
  <2> QED BY <1>9, <2>1, <2>2
<1>14. Virgin(qs, us)
  <2>1. p \notin us
    BY DEF Inv, Fresh
  <2> QED BY <1>2, <2>1 DEF Inv, Virgin
<1>15. Named(qs)
  <2>1. c.native \in Sessions
    BY Numbers DEF TurnState
  <2> QED BY <1>2, <2>1 DEF Inv, Named
<1> QED BY <1>1, <1>3, <1>4, <1>5, <1>6, <1>7, <1>8, <1>11, <1>12, <1>13, <1>14, <1>15 DEF Inv, un, qs

LEMMA RetiredIs ==
  ASSUME NEW c \in Child
  PROVE  /\ Retired(c) \in Child /\ (Alive(Retired(c)) <=> Alive(c))
         /\ Retired(c).st = (IF c.st = "up" THEN "term" ELSE c.st)
         /\ Retired(c).thread = c.thread /\ Retired(c).kind = c.kind /\ Retired(c).sig = c.sig
         /\ Retired(c).native = c.native /\ Retired(c).session = c.session
         /\ Retired(c).ran = c.ran /\ Retired(c).current = c.current /\ Retired(c).run = c.run
         /\ \A p : Aged(p, c, Retired(c)) /\ Aged(p, c, c)
<1> DEFINE d == [c EXCEPT !.st = "term"]
<1>1. /\ d \in Child /\ d.st = "term" /\ d.thread = c.thread /\ d.kind = c.kind /\ d.sig = c.sig
      /\ d.native = c.native /\ d.session = c.session /\ d.ran = c.ran /\ d.current = c.current
      /\ d.run = c.run
  BY DEF Child
<1> HIDE DEF d
<1>2. Retired(c) = IF c.st = "up" THEN d ELSE c
  BY DEF Retired, d
<1> QED BY <1>1, <1>2 DEF Aged, Alive

\* Children are retired, whatever becomes of their turns later.
LEMMA RetireKeeps ==
  ASSUME NEW tn, NEW ps, NEW us, Inv(tn, ps, us), NEW qs \in [Pids -> Child],
         \A p \in Pids : qs[p] = ps[p] \/ qs[p] = Retired(ps[p])
  PROVE  Inv(tn, qs, us)
<1>1. /\ tn \in [Turns -> TurnState] /\ ps \in [Pids -> Child] /\ us \subseteq Sessions
      /\ \A p \in Pids : ps[p] \in Child
  BY DEF Inv, Typed
<1>2. ASSUME NEW p \in Pids
      PROVE  /\ Aged(p, ps[p], qs[p]) /\ (Alive(qs[p]) <=> Alive(ps[p]))
             /\ qs[p].current = ps[p].current /\ qs[p].run = ps[p].run /\ qs[p].ran = ps[p].ran
             /\ qs[p].session = ps[p].session
  BY <1>1, RetiredIs
<1>3. ASSUME NEW t \in Turns PROVE TurnAged(tn[t], tn[t], ps, qs)
  BY DEF TurnAged
<1>4. Seats(tn, qs)
  <2>1. \A t \in Turns : Running(tn[t]) => Alive(qs[tn[t].on]) /\ qs[tn[t].on].current = t
    BY <1>2 DEF Inv, Seats, Placed
  <2>2. \A p \in Pids : qs[p].current # None => Running(tn[ps[p].current])
    BY <1>2 DEF Inv, Seats
  <2>3. /\ \A p \in Pids : StillHas(p, ps[p], qs[p], tn)
        /\ \A t \in Turns : StillOn(t, tn[t], tn[t], qs)
    BY <1>2, <2>1, <2>2 DEF StillHas, StillOn
  <2> QED BY <1>1, <2>3, SeatsKeep DEF Inv
<1>5. Fits(tn, qs)
  <2>1. ASSUME NEW t \in Turns, Placed(tn[t])
        PROVE  /\ qs[tn[t].on].run = ps[tn[t].on].run /\ qs[tn[t].on].ran = ps[tn[t].on].ran
               /\ qs[tn[t].on].session = ps[tn[t].on].session
               /\ Alive(qs[tn[t].on]) <=> Alive(ps[tn[t].on])
    BY <1>2, <2>1 DEF Inv, Seats
  <2> QED BY <2>1 DEF Inv, Fits, Placed, Running
<1>6. Typed(tn, qs, us) /\ Flags(tn)
  BY <1>1 DEF Inv, Typed
<1> QED BY <1>2, <1>3, <1>4, <1>5, <1>6, AgedKeeps

\* A turn that is not on a process settles, waits or is queued.
LEMMA MoveKeeps ==
  ASSUME NEW tn, NEW ps, NEW us, Inv(tn, ps, us), NEW t \in Turns, ~Running(tn[t]),
         NEW x \in TurnState, x.thread = tn[t].thread, x.resume = tn[t].resume,
         x.told = tn[t].told, ~x.killed, x.timer = "none",
         \/ Settled(x)
         \/ /\ Open(tn[t]) /\ x.told = None /\ x.phase \in {"wait", "coldWait", "queued"}
            /\ \A q \in Pids : Alive(ps[q]) /\ ps[q].thread = x.thread => q \in Holder(x)
            /\ x.phase = "queued" =>
                 /\ x.on \in Pids /\ Alive(ps[x.on]) /\ ps[x.on].thread = x.thread
                 /\ ps[x.on].kind = "warm"
                 /\ x.resume = None => ~ps[x.on].ran /\ ps[x.on].session = None
  PROVE  Inv([tn EXCEPT ![t] = x], ps, us)
<1> DEFINE un == [tn EXCEPT ![t] = x]
<1>1. /\ tn \in [Turns -> TurnState] /\ ps \in [Pids -> Child] /\ us \subseteq Sessions
      /\ un \in [Turns -> TurnState]
  BY DEF Inv, Typed
<1>2. /\ un[t] = x /\ \A u \in Turns : u # t => un[u] = tn[u]
      /\ \A u \in Turns : un[u] \in TurnState /\ tn[u] \in TurnState
      /\ \A p \in Pids : ps[p] \in Child
      /\ ~Running(x) /\ (Open(x) => x.phase \in {"wait", "coldWait", "queued"})
      /\ Settled(x) => ~Open(x) /\ ~Placed(x)
  BY <1>1 DEF Settled, Open, Running, Placed
<1> HIDE DEF un
<1>3. Flags(un)
  <2>1. Flagged(x)
    BY Zenon DEF Flagged, Settled
  <2> QED BY <1>2, <2>1 DEF Inv, Flags
<1>4. Seats(un, ps)
  <2>1. ASSUME NEW u \in Turns, Placed(un[u])
        PROVE  /\ un[u].on \in Pids /\ ps[un[u].on].st # "free"
               /\ Alive(ps[un[u].on]) =>
                    /\ ps[un[u].on].thread = un[u].thread
                    /\ ps[un[u].on].kind = IF un[u].phase = "cold" THEN "cold" ELSE "warm"
    <3>1. CASE u = t
      BY <1>2, <2>1, <3>1 DEF Alive, Placed
    <3>2. CASE u # t
      BY <1>2, <2>1, <3>2 DEF Inv, Seats
    <3> QED BY <3>1, <3>2
  <2>2. ASSUME NEW u \in Turns, Running(un[u])
        PROVE  Alive(ps[un[u].on]) /\ ps[un[u].on].current = u
    BY <1>2, <2>2 DEF Inv, Seats
  <2>3. ASSUME NEW q \in Pids, ps[q].current # None
        PROVE  /\ ps[q].current \in Turns /\ Running(un[ps[q].current])
               /\ un[ps[q].current].on = q
    BY <1>2, <2>3 DEF Inv, Seats
  <2> QED BY <2>1, <2>2, <2>3 DEF Seats
<1>5. Fits(un, ps)
  <2>1. /\ x.phase = "accepted" => ps[x.on].run \in {t, None}
        /\ x.phase = "prompt" => ps[x.on].ran
        /\ x.phase \in {"queued", "preflight"} /\ x.resume = None /\ Alive(ps[x.on]) =>
             ~ps[x.on].ran /\ ps[x.on].session = None
    BY <1>2 DEF Settled, Running
  <2> QED BY <1>2, <2>1 DEF Inv, Fits
<1>6. ASSUME NEW p \in Pids PROVE Aged(p, ps[p], ps[p])
  BY DEF Aged
<1>7. ASSUME NEW u \in Turns PROVE TurnAged(tn[u], un[u], ps, ps)
  BY <1>2 DEF TurnAged
<1>8. Typed(un, ps, us)
  BY <1>1, <1>2 DEF Typed, un
<1>9. Inv(un, ps, us)
  BY <1>3, <1>4, <1>5, <1>6, <1>7, <1>8, AgedKeeps
<1> QED BY <1>9 DEF un

-----------------------------------------------------------------------------
(* Placing a turn: tn are the turns, with t a waiting or queued one.       *)

Bears(tn, t, r) ==
  /\ tn[t].phase \in {"wait", "queued", "coldWait"}
  /\ r \in TurnState
  /\ r.thread = tn[t].thread /\ r.resume = tn[t].resume
  /\ r.told = None /\ tn[t].told = None /\ ~r.killed /\ r.timer = "none"
  /\ \A y : [turn EXCEPT ![t] = y] = [tn EXCEPT ![t] = y]

NoneAlive(th, ps) == \A q \in Pids : Alive(ps[q]) => ps[q].thread # th

LEMMA EndedIs ==
  ASSUME NEW r \in TurnState, NEW x, x = Bad(r) \/ x = Ok(r)
  PROVE  /\ x \in TurnState /\ x.thread = r.thread /\ x.resume = r.resume /\ x.told = r.told
         /\ x.sig = r.sig /\ ~x.killed /\ x.timer = "none" /\ Settled(x)
         /\ x.phase = IF x = Ok(r) THEN "ok" ELSE "bad"
<1>1. PICK ph \in {"ok", "bad"} :
        /\ x = [r EXCEPT !.phase = ph, !.on = None, !.awaits = {}, !.killed = FALSE, !.timer = "none"]
        /\ ph = "ok" <=> x = Ok(r)
  <2>1. Ok(r).phase = "ok" /\ Bad(r).phase = "bad"
    BY DEF Ok, Bad, SettledAs, TurnState
  <2>2. /\ Ok(r) = [r EXCEPT !.phase = "ok", !.on = None, !.awaits = {}, !.killed = FALSE, !.timer = "none"]
        /\ Bad(r) = [r EXCEPT !.phase = "bad", !.on = None, !.awaits = {}, !.killed = FALSE, !.timer = "none"]
    BY DEF Ok, Bad, SettledAs
  <2>3. Ok(r) # Bad(r)
    BY <2>1
  <2> QED BY <2>2, <2>3
<1> QED BY <1>1 DEF TurnState, Settled

LEMMA BadKeeps ==
  ASSUME NEW tn, NEW ps, NEW us, Inv(tn, ps, us), NEW t \in Turns, NEW r, Bears(tn, t, r),
         Become(t, Bad(r), ps)
  PROVE  Inv(turn', proc', us)
<1>1. turn' = [tn EXCEPT ![t] = Bad(r)] /\ proc' = ps
  BY DEF Become, Bears
<1>2. ~Running(tn[t])
  BY DEF Bears, Running
<1>3. /\ Bad(r) \in TurnState /\ Bad(r).thread = tn[t].thread /\ Bad(r).resume = tn[t].resume
      /\ Bad(r).told = tn[t].told /\ ~Bad(r).killed /\ Bad(r).timer = "none" /\ Settled(Bad(r))
  BY EndedIs DEF Bears
<1>4. Inv([tn EXCEPT ![t] = Bad(r)], ps, us)
  BY <1>2, <1>3, MoveKeeps
<1> QED BY <1>1, <1>4

LEMMA WaitKeeps ==
  ASSUME NEW tn, NEW ps, NEW us, Inv(tn, ps, us), NEW t \in Turns, NEW r, Bears(tn, t, r),
         NEW phase \in {"wait", "coldWait"}, NEW exits \in SUBSET Pids,
         \A q \in Pids : Alive(ps[q]) /\ ps[q].thread = r.thread => q \in exits,
         WaitFor(t, r, ps, phase, exits)
  PROVE  Inv(turn', proc', us)
<1> DEFINE x == [r EXCEPT !.phase = phase, !.awaits = exits, !.on = None]
<1>1. turn' = [tn EXCEPT ![t] = x] /\ proc' = ps
  BY DEF Become, WaitFor, Bears
<1>2. ~Running(tn[t]) /\ Open(tn[t])
  BY DEF Bears, Running, Open, Settled
<1>3. /\ x \in TurnState /\ x.thread = r.thread /\ x.resume = r.resume /\ x.told = r.told
      /\ x.killed = r.killed /\ x.timer = r.timer /\ x.phase = phase /\ x.awaits = exits
  BY DEF Bears, TurnState
<1> HIDE DEF x
<1>4. Holder(x) = exits
  BY <1>3 DEF Holder, Waiting
<1> QED BY <1>1, <1>2, <1>3, <1>4, MoveKeeps DEF Bears

LEMMA SpawnedIs ==
  ASSUME NEW r \in TurnState, NEW p \in Pids, NEW kind \in {"warm", "cold"}
  PROVE  LET c == Spawned(p, r, kind) IN
         /\ c \in Child /\ c.st = "up" /\ c.kind = kind /\ c.thread = r.thread
         /\ c.session = r.resume /\ c.native = (IF r.resume = None THEN p ELSE r.resume)
         /\ c.ran = FALSE /\ c.current = None /\ c.run = None
<1> DEFINE sig == IF kind = "warm" THEN r.sig ELSE None
           native == IF r.resume = None THEN p ELSE r.resume
<1>1. /\ r.resume \in Sessions \cup {None} /\ p \in Sessions
      /\ r.sig \in Signatures \cup {None} /\ r.thread \in Threads \cup {None}
  BY Numbers DEF TurnState
<1>2. sig \in Signatures \cup {None} /\ native \in Sessions \cup {None}
  BY <1>1
<1>3. Spawned(p, r, kind) =
        [st |-> "up", kind |-> kind, thread |-> r.thread, sig |-> sig, session |-> r.resume,
         native |-> native, ran |-> FALSE, current |-> None, run |-> None]
  <2>1. Spawned(p, r, kind) =
          [NoChild EXCEPT !.st = "up", !.kind = kind, !.thread = r.thread, !.sig = sig,
                          !.session = r.resume, !.native = native]
    BY DEF Spawned
  <2> HIDE DEF sig, native
  <2> QED BY <2>1 DEF NoChild
<1> HIDE DEF sig
<1> QED BY <1>1, <1>2, <1>3 DEF Child

LEMMA StartColdKeeps ==
  ASSUME NEW tn, NEW ps, NEW us, Inv(tn, ps, us), NEW t \in Turns, NEW r, Bears(tn, t, r),
         NoneAlive(r.thread, ps), StartCold(t, r, ps)
  PROVE  Inv(turn', proc', us)
<1>1. CASE Become(t, Bad(r), ps)
  BY <1>1, BadKeeps
<1>2. ASSUME NEW p \in Pids, FreshPid(p, ps),
             Become(t, [r EXCEPT !.phase = "cold", !.on = p, !.awaits = {}],
                    [ps EXCEPT ![p] = Spawned(p, r, "cold")])
      PROVE  Inv(turn', proc', us)
  <2> DEFINE x == [r EXCEPT !.phase = "cold", !.on = p, !.awaits = {}]
             c == Spawned(p, r, "cold")
  <2>1. turn' = [tn EXCEPT ![t] = x] /\ proc' = [ps EXCEPT ![p] = c]
    BY <1>2 DEF Become, Bears
  <2>2. /\ x \in TurnState /\ x.thread = r.thread /\ x.resume = r.resume /\ x.told = r.told
        /\ x.killed = r.killed /\ x.timer = r.timer /\ x.phase = "cold" /\ x.on = p
    BY DEF Bears, TurnState
  <2>3. /\ c \in Child /\ c.st = "up" /\ c.kind = "cold" /\ c.thread = r.thread
        /\ c.session = r.resume /\ c.native = (IF r.resume = None THEN p ELSE r.resume)
        /\ c.ran = FALSE /\ c.current = None /\ c.run = None
    BY SpawnedIs DEF Bears
  <2> HIDE DEF x, c
  <2>4. /\ tn[t].phase \in {"wait", "queued", "coldWait"}
        /\ tn[t].told = None /\ ps[p].st = "free"
        /\ \A q \in Pids : Alive(ps[q]) => ps[q].thread # tn[t].thread
        /\ x.thread = tn[t].thread /\ x.resume = tn[t].resume /\ x.told = None
        /\ ~x.killed /\ x.timer = "none" /\ c.thread = x.thread
        /\ c.session = x.resume /\ c.native = (IF x.resume = None THEN p ELSE x.resume)
    BY <1>2, <2>2, <2>3 DEF Bears, NoneAlive, FreshPid
  <2>5. Inv([tn EXCEPT ![t] = x], [ps EXCEPT ![p] = c], us)
    BY <2>2, <2>3, <2>4, BornKeeps
  <2> QED BY <2>1, <2>5
<1> QED BY <1>1, <1>2 DEF StartCold

\* Those of the topic's children that live are retired already.
LEMMA FallBackKeeps ==
  ASSUME NEW tn, NEW ps, NEW us, Inv(tn, ps, us), NEW t \in Turns, NEW r, Bears(tn, t, r),
         \A q \in Pids : Alive(ps[q]) /\ ps[q].thread = r.thread =>
           ps[q].st = "term" /\ ps[q].kind = "warm",
         FallBack(t, r, ps)
  PROVE  Inv(turn', proc', us)
<1>1. CASE Become(t, Bad(r), ps)
  BY <1>1, BadKeeps
<1>2. CASE Retiring(r.thread, ps) # {} /\ WaitFor(t, r, ps, "coldWait", Retiring(r.thread, ps))
  BY <1>2, WaitKeeps DEF Retiring
<1>3. CASE Retiring(r.thread, ps) = {} /\ StartCold(t, r, ps)
  <2>1. NoneAlive(r.thread, ps)
    BY <1>3 DEF NoneAlive, Retiring
  <2> QED BY <1>3, <2>1, StartColdKeeps
<1> QED BY <1>1, <1>2, <1>3 DEF FallBack, Bears

LEMMA EnqueueKeeps ==
  ASSUME NEW tn, NEW ps, NEW us, Inv(tn, ps, us), NEW t \in Turns, NEW r, Bears(tn, t, r),
         NEW p \in Pids, Entry(p, r, ps), CanContinue(ps[p], r), Enqueue(t, r, ps, p)
  PROVE  Inv(turn', proc', us)
<1> DEFINE x == [r EXCEPT !.phase = "queued", !.on = p, !.awaits = {}]
<1>1. turn' = [tn EXCEPT ![t] = x] /\ proc' = ps
  BY DEF Become, Enqueue, Bears
<1>2. ~Running(tn[t]) /\ Open(tn[t])
  BY DEF Bears, Running, Open, Settled
<1>3. /\ x \in TurnState /\ x.thread = r.thread /\ x.resume = r.resume /\ x.told = r.told
      /\ x.killed = r.killed /\ x.timer = r.timer /\ x.phase = "queued" /\ x.on = p
  BY DEF Bears, TurnState
<1> HIDE DEF x
<1>4. Holder(x) = {p}
  BY <1>3 DEF Holder, Waiting
<1>5. /\ Alive(ps[p]) /\ ps[p].thread = r.thread /\ ps[p].kind = "warm"
      /\ r.resume = None => ~ps[p].ran /\ ps[p].session = None
  BY DEF Entry, Alive, CanContinue
<1>6. \A q \in Pids : Alive(ps[q]) /\ ps[q].thread = x.thread => q \in Holder(x)
  BY <1>3, <1>4, <1>5 DEF Inv, Alone
<1> QED BY <1>1, <1>2, <1>3, <1>5, <1>6, MoveKeeps DEF Bears

LEMMA SpawnKeeps ==
  ASSUME NEW tn, NEW ps, NEW us, Inv(tn, ps, us), NEW t \in Turns, NEW r, Bears(tn, t, r),
         NoneAlive(r.thread, ps), NEW p \in Pids, ps[p].st = "free",
         Enqueue(t, r, [ps EXCEPT ![p] = Spawned(p, r, "warm")], p)
  PROVE  Inv(turn', proc', us)
<1> DEFINE x == [r EXCEPT !.phase = "queued", !.on = p, !.awaits = {}]
           c == Spawned(p, r, "warm")
<1>1. turn' = [tn EXCEPT ![t] = x] /\ proc' = [ps EXCEPT ![p] = c]
  BY DEF Become, Enqueue, Bears
<1>2. /\ x \in TurnState /\ x.thread = r.thread /\ x.resume = r.resume /\ x.told = r.told
      /\ x.killed = r.killed /\ x.timer = r.timer /\ x.phase = "queued" /\ x.on = p
  BY DEF Bears, TurnState
<1>3. /\ c \in Child /\ c.st = "up" /\ c.kind = "warm" /\ c.thread = r.thread
      /\ c.session = r.resume /\ c.native = (IF r.resume = None THEN p ELSE r.resume)
      /\ c.ran = FALSE /\ c.current = None /\ c.run = None
  BY SpawnedIs DEF Bears
<1> HIDE DEF x, c
<1>4. /\ tn[t].phase \in {"wait", "queued", "coldWait"}
      /\ tn[t].told = None /\ ps[p].st = "free"
      /\ \A q \in Pids : Alive(ps[q]) => ps[q].thread # tn[t].thread
      /\ x.thread = tn[t].thread /\ x.resume = tn[t].resume /\ x.told = None
      /\ ~x.killed /\ x.timer = "none" /\ c.thread = x.thread
      /\ c.session = x.resume /\ c.native = (IF x.resume = None THEN p ELSE x.resume)
  BY <1>2, <1>3 DEF Bears, NoneAlive
<1>5. Inv([tn EXCEPT ![t] = x], [ps EXCEPT ![p] = c], us)
  BY <1>2, <1>3, <1>4, BornKeeps
<1> QED BY <1>1, <1>5

LEMMA PlaceOnNewKeeps ==
  ASSUME NEW tn, NEW ps, NEW us, Inv(tn, ps, us), NEW t \in Turns, NEW r, Bears(tn, t, r),
         NoneAlive(r.thread, ps), PlaceOnNew(t, r, ps)
  PROVE  Inv(turn', proc', us)
<1>1. CASE FallBack(t, r, ps)
  BY <1>1, FallBackKeeps DEF NoneAlive
<1>2. ASSUME NEW p \in Pids, FreshPid(p, ps), Enqueue(t, r, [ps EXCEPT ![p] = Spawned(p, r, "warm")], p)
      PROVE  Inv(turn', proc', us)
  BY <1>2, SpawnKeeps DEF FreshPid
<1>3. ASSUME NEW p \in Pids, FreshPid(p, ps), NEW v \in Idle(ps),
             Enqueue(t, r, [ps EXCEPT ![v] = Retired(@), ![p] = Spawned(p, r, "warm")], p)
      PROVE  Inv(turn', proc', us)
  <2> DEFINE qs == [ps EXCEPT ![v] = Retired(ps[v])]
  <2>1. ps \in [Pids -> Child] /\ v \in Pids /\ ps[p].st = "free" /\ ps[v].st = "up"
    BY <1>3 DEF Inv, Typed, Idle, Entries, FreshPid
  <2>2. Retired(ps[v]) \in Child /\ Retired(ps[v]).thread = ps[v].thread
        /\ (Alive(Retired(ps[v])) <=> Alive(ps[v]))
    BY <2>1, RetiredIs
  <2>3. /\ qs \in [Pids -> Child] /\ qs[p] = ps[p]
        /\ \A q \in Pids : qs[q] = ps[q] \/ qs[q] = Retired(ps[q])
    BY <2>1, <2>2
  <2>4. [ps EXCEPT ![v] = Retired(ps[v]), ![p] = Spawned(p, r, "warm")] = [qs EXCEPT ![p] = Spawned(p, r, "warm")]
    OBVIOUS
  <2>5. NoneAlive(r.thread, qs)
    BY <2>1, <2>2 DEF NoneAlive
  <2> HIDE DEF qs
  <2>6. Inv(tn, qs, us)
    BY <2>3, RetireKeeps
  <2>7. Enqueue(t, r, [qs EXCEPT ![p] = Spawned(p, r, "warm")], p)
    BY <1>3, <2>4
  <2> QED BY <2>1, <2>3, <2>5, <2>6, <2>7, SpawnKeeps
<1> QED BY <1>1, <1>2, <1>3 DEF PlaceOnNew

LEMMA PlaceKeeps ==
  ASSUME NEW tn, NEW ps, NEW us, Inv(tn, ps, us), NEW t \in Turns, NEW r, Bears(tn, t, r),
         \A q \in Pids : Alive(ps[q]) /\ ps[q].thread = r.thread =>
           \/ ps[q].kind = "cold"
           \/ ps[q].kind = "warm" /\ (ps[q].st = "term" \/ ps[q].sig = r.sig),
         Place(t, r, ps)
  PROVE  Inv(turn', proc', us)
<1> DEFINE exits == Retiring(r.thread, ps)
           at == {p \in Pids : Entry(p, r, ps)}
<1>1. CASE Become(t, Bad(r), ps)
  BY <1>1, BadKeeps
<1>2. CASE exits # {} /\ WaitFor(t, r, ps, "wait", exits)
  <2>1. PICK p \in Pids : p \in exits /\ Alive(ps[p]) /\ ps[p].thread = r.thread
    BY <1>2 DEF Retiring, Alive
  <2>2. \A q \in Pids : Alive(ps[q]) /\ ps[q].thread = r.thread => q \in exits
    BY <2>1 DEF Inv, Alone
  <2>3. exits \in SUBSET Pids
    BY DEF Retiring
  <2> HIDE DEF exits
  <2> QED BY <1>2, <2>2, <2>3, WaitKeeps
<1>3. CASE ~HasColdWriter(r, ps) /\ exits = {} /\ at = {} /\ PlaceOnNew(t, r, ps)
  <2>1. NoneAlive(r.thread, ps)
    BY <1>3 DEF NoneAlive, Retiring, Entry, HasColdWriter, Alive
  <2> QED BY <1>3, <2>1, PlaceOnNewKeeps
<1>4. ASSUME NEW p \in at, CanContinue(ps[p], r), Enqueue(t, r, ps, p)
      PROVE  Inv(turn', proc', us)
  BY <1>4, EnqueueKeeps
<1>5. ASSUME NEW p \in at, WaitFor(t, r, [ps EXCEPT ![p] = Retired(@)], "wait", {p})
      PROVE  Inv(turn', proc', us)
  <2> DEFINE qs == [ps EXCEPT ![p] = Retired(ps[p])]
  <2>1. ps \in [Pids -> Child] /\ p \in Pids /\ Alive(ps[p]) /\ ps[p].thread = r.thread
    BY DEF Inv, Typed, Entry, Alive
  <2>2. /\ qs \in [Pids -> Child]
        /\ \A q \in Pids : qs[q] = ps[q] \/ qs[q] = Retired(ps[q])
        /\ \A q \in Pids : q # p => qs[q] = ps[q]
    BY <2>1, RetiredIs
  <2> HIDE DEF qs
  <2>3. Inv(tn, qs, us)
    BY <2>2, RetireKeeps
  <2>4. \A q \in Pids : Alive(qs[q]) /\ qs[q].thread = r.thread => q \in {p}
    BY <2>1, <2>2 DEF Inv, Alone
  <2>5. WaitFor(t, r, qs, "wait", {p})
    BY <1>5 DEF qs
  <2>6. {p} \in SUBSET Pids
    BY <2>1
  <2> QED BY <2>3, <2>4, <2>5, <2>6, WaitKeeps
<1> QED BY <1>1, <1>2, <1>3, <1>4, <1>5 DEF Place

-----------------------------------------------------------------------------
(* The other changes.                                                      *)

\* run() begins with a turn that might wait for any exit.
LEMMA BeginKeeps ==
  ASSUME Inv(turn, proc, used), NEW t \in Turns, NEW x \in TurnState, MayRun(t, x),
         x.thread \in Threads, x.told = None, ~x.killed, x.timer = "none",
         x.phase = "wait", x.awaits = Pids
  PROVE  Inv([turn EXCEPT ![t] = x], proc, used)
<1> DEFINE un == [turn EXCEPT ![t] = x]
<1>1. /\ turn \in [Turns -> TurnState] /\ proc \in [Pids -> Child] /\ used \subseteq Sessions
      /\ un \in [Turns -> TurnState] /\ Typed(un, proc, used)
  BY DEF Inv, Typed
<1>2. /\ un[t] = x /\ \A u \in Turns : u # t => un[u] = turn[u]
      /\ turn[t].phase = "none" /\ \A u \in Turns : Open(turn[u]) => turn[u].thread # x.thread
      /\ ~Running(x) /\ ~Placed(x) /\ Open(x) /\ Holder(x) = Pids
      /\ ~Running(turn[t]) /\ ~Placed(turn[t])
  BY <1>1 DEF MayRun, Open, Settled, Running, Placed, Holder, Waiting
<1> HIDE DEF un
<1>3. Flags(un)
  <2>1. Flagged(x)
    BY DEF Flagged
  <2> QED BY <1>2, <2>1 DEF Inv, Flags
<1>4. Seats(un, proc)
  BY <1>2 DEF Inv, Seats
<1>5. Fits(un, proc)
  <2>1. /\ x.phase # "accepted" /\ x.phase # "prompt" /\ x.phase \notin {"queued", "preflight"}
    OBVIOUS
  <2> QED BY <1>2, <2>1 DEF Inv, Fits
<1>6. Serial(un)
  BY <1>2 DEF Inv, Serial
<1>7. Holds(un, proc)
  BY <1>2 DEF Inv, Holds
<1>8. ASSUME NEW s \in Sessions, NEW th, Claims(un, proc, s, th) PROVE Claims(turn, proc, s, th)
  <2>1. x.resume # None => \E u \in Turns : turn[u].thread = x.thread /\ turn[u].told = x.resume
    BY DEF MayRun
  <2>2. s # None
    BY Numbers
  <2>3. ASSUME NEW u \in Turns, un[u].thread = th, s \in {un[u].told, un[u].resume}
        PROVE  Claims(turn, proc, s, th)
    BY <1>2, <2>1, <2>2, <2>3 DEF Claims
  <2> QED BY <1>8, <2>3 DEF Claims
<1>9. Home(un, proc)
  BY <1>8 DEF Inv, Home
<1>10. Origin(un, proc)
  BY <1>8, Numbers DEF Inv, Origin
<1>11. Fresh(un, proc, used)
  BY <1>8, Numbers DEF Inv, Fresh
<1> QED BY <1>1, <1>3, <1>4, <1>5, <1>6, <1>7, <1>9, <1>10, <1>11 DEF Inv, un

\* Only child p changes.
LEMMA ChildKeeps ==
  ASSUME NEW tn, NEW ps, NEW us, Inv(tn, ps, us), NEW p \in Pids, NEW d \in Child,
         Aged(p, ps[p], d), d.current = None \/ d.current = ps[p].current,
         ps[p].current # None => Alive(d) /\ d.current = ps[p].current,
         Alive(d) => d.ran = ps[p].ran /\ d.session = ps[p].session,
         \A t \in Turns : tn[t].phase = "accepted" /\ tn[t].on = p => d.run \in {t, None}
  PROVE  Inv(tn, [ps EXCEPT ![p] = d], us)
<1> DEFINE qs == [ps EXCEPT ![p] = d]
<1>1. /\ tn \in [Turns -> TurnState] /\ ps \in [Pids -> Child] /\ us \subseteq Sessions
      /\ qs \in [Pids -> Child]
  BY DEF Inv, Typed
<1>2. qs[p] = d /\ \A q \in Pids : q # p => qs[q] = ps[q]
  BY <1>1
<1> HIDE DEF qs
<1>3. ASSUME NEW q \in Pids PROVE Aged(q, ps[q], qs[q])
  BY <1>2 DEF Aged
<1>4. ASSUME NEW t \in Turns PROVE TurnAged(tn[t], tn[t], ps, qs)
  BY DEF TurnAged
<1>5. Seats(tn, qs)
  <2>1. \A t \in Turns : Running(tn[t]) => Alive(qs[tn[t].on]) /\ qs[tn[t].on].current = t
    <3>1. ASSUME NEW t \in Turns, Running(tn[t])
          PROVE  tn[t].on \in Pids /\ Alive(ps[tn[t].on]) /\ ps[tn[t].on].current = t /\ t # None
      BY <3>1, Numbers DEF Inv, Seats, Placed
    <3> QED BY <1>2, <3>1
  <2>2. \A q \in Pids : qs[q].current # None =>
          qs[q].current = ps[q].current /\ Running(tn[ps[q].current])
    BY <1>2 DEF Inv, Seats
  <2>3. /\ \A q \in Pids : StillHas(q, ps[q], qs[q], tn)
        /\ \A t \in Turns : StillOn(t, tn[t], tn[t], qs)
    BY <1>3, <2>1, <2>2 DEF StillHas, StillOn
  <2> QED BY <1>1, <2>3, SeatsKeep DEF Inv
<1>6. Fits(tn, qs)
  <2>1. ASSUME NEW t \in Turns, Running(tn[t])
        PROVE  tn[t].on \in Pids /\ Alive(ps[tn[t].on]) /\ ps[tn[t].on].current = t /\ t # None
    BY <2>1, Numbers DEF Inv, Seats, Placed
  <2>2. ASSUME NEW t \in Turns, Placed(tn[t]) PROVE tn[t].on \in Pids
    BY <2>2 DEF Inv, Seats
  <2>3. ASSUME NEW t \in Turns, tn[t].phase = "accepted" PROVE qs[tn[t].on].run \in {t, None}
    BY <1>2, <2>1, <2>3 DEF Inv, Fits, Running
  <2>4. ASSUME NEW t \in Turns, tn[t].phase = "prompt" PROVE qs[tn[t].on].ran
    <3>1. Running(tn[t]) /\ ps[tn[t].on].ran
      BY <2>4 DEF Inv, Fits, Running
    <3>2. CASE tn[t].on = p
      <4>1. Alive(d) /\ d.ran = ps[p].ran
        BY <2>1, <3>1, <3>2
      <4> QED BY <1>2, <3>1, <3>2, <4>1
    <3>3. CASE tn[t].on # p
      BY <1>2, <2>1, <3>1, <3>3
    <3> QED BY <3>2, <3>3
  <2>5. ASSUME NEW t \in Turns, tn[t].phase \in {"queued", "preflight"}, tn[t].resume = None,
               Alive(qs[tn[t].on])
        PROVE  ~qs[tn[t].on].ran /\ qs[tn[t].on].session = None
    <3>1. tn[t].on \in Pids
      BY <2>2, <2>5 DEF Placed, Running
    <3>2. Alive(ps[tn[t].on])
      BY <1>3, <2>5, <3>1 DEF Aged
    <3>3. ~ps[tn[t].on].ran /\ ps[tn[t].on].session = None
      BY <2>5, <3>2 DEF Inv, Fits
    <3> QED BY <1>2, <2>5, <3>1, <3>3
  <2> QED BY <2>3, <2>4, <2>5 DEF Fits
<1>7. Typed(tn, qs, us) /\ Flags(tn)
  BY <1>1 DEF Inv, Typed
<1>8. Inv(tn, qs, us)
  BY <1>3, <1>4, <1>5, <1>6, <1>7, AgedKeeps
<1> QED BY <1>8 DEF qs

\* Turn t and the living process it is on change.
LEMMA PairKeeps ==
  ASSUME NEW tn, NEW ps, NEW us, Inv(tn, ps, us), NEW vs \in SUBSET Sessions,
         NEW t \in Turns, NEW x \in TurnState, NEW p \in Pids, NEW d \in Child,
         tn[t].phase = "queued" \/ Running(tn[t]), tn[t].on = p, Alive(ps[p]), Flagged(x),
         x.thread = tn[t].thread, x.resume = tn[t].resume, x.told \in {tn[t].told, ps[p].native},
         Settled(x) \/ ((x.phase = "queued" \/ Running(x)) /\ x.on = p),
         Aged(p, ps[p], d), Running(x) => Alive(d) /\ d.current = t,
         Running(x) \/ d.current = None,
         x.phase = "accepted" => d.run \in {t, None}, x.phase = "prompt" => d.ran,
         x.phase \in {"queued", "preflight"} /\ x.resume = None /\ Alive(d) =>
           ~d.ran /\ d.session = None,
         \A s \in vs : s \in us \/ (s = ps[p].native /\ ps[p].ran)
  PROVE  Inv([tn EXCEPT ![t] = x], [ps EXCEPT ![p] = d], vs)
<1> DEFINE un == [tn EXCEPT ![t] = x]
           qs == [ps EXCEPT ![p] = d]
<1>1. /\ tn \in [Turns -> TurnState] /\ ps \in [Pids -> Child] /\ us \subseteq Sessions
      /\ un \in [Turns -> TurnState] /\ qs \in [Pids -> Child] /\ Typed(un, qs, vs)
  BY DEF Inv, Typed
<1>2. /\ un[t] = x /\ \A u \in Turns : u # t => un[u] = tn[u]
      /\ qs[p] = d /\ \A q \in Pids : q # p => qs[q] = ps[q]
      /\ Open(tn[t]) /\ Placed(tn[t]) /\ tn[t].phase # "cold"
      /\ Holder(tn[t]) = {p} /\ (Settled(x) => ~Open(x) /\ ~Placed(x) /\ ~Running(x))
      /\ x.phase = "queued" \/ Running(x) => x.phase # "cold" /\ Holder(x) = {x.on} /\ Placed(x)
  BY <1>1 DEF Open, Settled, Placed, Running, Holder, Waiting
<1> HIDE DEF un, qs
<1>3. Flags(un)
  BY <1>2 DEF Inv, Flags
<1>4. ps[p].thread = tn[t].thread /\ ps[p].kind = "warm"
  BY <1>2 DEF Inv, Seats
<1>5. ASSUME NEW u \in Turns, u # t, Placed(tn[u]) PROVE tn[u].on \in Pids /\ (tn[u].on = p => FALSE)
  <2>1. tn[u].on \in Pids
    BY <1>5 DEF Inv, Seats
  <2>2. ASSUME tn[u].on = p PROVE FALSE
    <3>1. tn[u].thread = tn[t].thread
      BY <1>4, <1>5, <2>2 DEF Inv, Seats
    <3>2. Open(tn[u])
      BY <1>5 DEF Open, Settled, Placed, Running
    <3> QED BY <1>2, <1>5, <3>1, <3>2 DEF Inv, Serial
  <2> QED BY <2>1, <2>2
<1>6. ASSUME NEW q \in Pids PROVE Aged(q, ps[q], qs[q])
  BY <1>2 DEF Aged
<1>7. ASSUME NEW u \in Turns PROVE TurnAged(tn[u], un[u], ps, qs)
  <2>1. CASE u # t
    BY <1>2, <2>1 DEF TurnAged
  <2>2. CASE u = t
    <3>1. Open(x) => x.on = p /\ Holder(x) = {p}
      BY <1>2
    <3>2. x.told = tn[t].told \/ (Alive(ps[p]) /\ ps[p].thread = tn[t].thread /\ x.told = ps[p].native)
      BY <1>4
    <3> QED BY <1>2, <2>2, <3>1, <3>2 DEF TurnAged
  <2> QED BY <2>1, <2>2
<1>8. Seats(un, qs)
  <2>1. ASSUME NEW u \in Turns, Placed(un[u])
        PROVE  /\ un[u].on \in Pids /\ qs[un[u].on].st # "free"
               /\ Alive(qs[un[u].on]) =>
                    /\ qs[un[u].on].thread = un[u].thread
                    /\ qs[un[u].on].kind = IF un[u].phase = "cold" THEN "cold" ELSE "warm"
    <3>1. CASE u = t
      <4>1. un[u] = x /\ x.on = p /\ x.phase # "cold"
        BY <1>2, <2>1, <3>1
      <4>2. d.st # "free"
        BY DEF Aged, Alive
      <4> QED BY <1>2, <1>4, <4>1, <4>2 DEF Aged
    <3>2. CASE u # t
      <4>1. un[u] = tn[u] /\ tn[u].on \in Pids /\ qs[tn[u].on] = ps[tn[u].on]
        BY <1>2, <1>5, <2>1, <3>2
      <4> QED BY <2>1, <4>1 DEF Inv, Seats
    <3> QED BY <3>1, <3>2
  <2>2. ASSUME NEW u \in Turns, Running(un[u])
        PROVE  Alive(qs[un[u].on]) /\ qs[un[u].on].current = u
    <3>1. CASE u = t
      BY <1>2, <2>2, <3>1
    <3>2. CASE u # t
      <4>1. un[u] = tn[u] /\ Placed(tn[u])
        BY <1>2, <2>2, <3>2 DEF Placed
      <4>2. qs[tn[u].on] = ps[tn[u].on]
        BY <1>2, <1>5, <3>2, <4>1
      <4> QED BY <2>2, <4>1, <4>2 DEF Inv, Seats
    <3> QED BY <3>1, <3>2
  <2>3. ASSUME NEW q \in Pids, qs[q].current # None
        PROVE  /\ qs[q].current \in Turns /\ Running(un[qs[q].current])
               /\ un[qs[q].current].on = q
    <3>1. CASE q = p
      BY <1>2, <2>3, <3>1
    <3>2. CASE q # p
      <4>1. /\ qs[q] = ps[q] /\ ps[q].current \in Turns /\ Running(tn[ps[q].current])
            /\ tn[ps[q].current].on = q
        BY <1>2, <2>3, <3>2 DEF Inv, Seats
      <4> QED BY <1>2, <3>2, <4>1
    <3> QED BY <3>1, <3>2
  <2> QED BY <2>1, <2>2, <2>3 DEF Seats
<1>9. Fits(un, qs)
  <2>1. /\ x.phase = "accepted" => qs[x.on].run \in {t, None}
        /\ x.phase = "prompt" => qs[x.on].ran
        /\ x.phase \in {"queued", "preflight"} /\ x.resume = None /\ Alive(qs[x.on]) =>
             ~qs[x.on].ran /\ qs[x.on].session = None
    BY <1>2 DEF Settled, Running
  <2>2. ASSUME NEW u \in Turns, u # t, Placed(tn[u]) PROVE un[u] = tn[u] /\ qs[tn[u].on] = ps[tn[u].on]
    BY <1>2, <1>5, <2>2
  <2>3. ASSUME NEW u \in Turns, u # t
        PROVE  /\ un[u].phase = "accepted" => qs[un[u].on].run \in {u, None}
               /\ un[u].phase = "prompt" => qs[un[u].on].ran
               /\ un[u].phase \in {"queued", "preflight"} /\ un[u].resume = None
                    /\ Alive(qs[un[u].on]) =>
                    ~qs[un[u].on].ran /\ qs[un[u].on].session = None
    BY <1>2, <2>2, <2>3 DEF Inv, Fits, Placed, Running
  <2> QED BY <1>2, <2>1, <2>3 DEF Fits
<1>10. \A s \in vs : s \in us \/ \E q \in Pids : /\ Alive(ps[q]) /\ s = ps[q].native
                                                 /\ ps[q].kind = "cold" \/ ps[q].ran
  OBVIOUS
<1>11. Inv(un, qs, vs)
  BY <1>1, <1>3, <1>6, <1>7, <1>8, <1>9, <1>10, AgedKeeps
<1> QED BY <1>11 DEF un, qs

\* A cold turn is stopped, or its session is named.
LEMMA ColdKeeps ==
  ASSUME NEW tn, NEW ps, NEW us, Inv(tn, ps, us), NEW vs \in SUBSET Sessions,
         NEW t \in Turns, NEW x \in TurnState, tn[t].phase = "cold", x.phase = "cold",
         x.thread = tn[t].thread, x.resume = tn[t].resume, x.on = tn[t].on, x.timer = "none",
         \/ vs = us /\ x.told = tn[t].told
         \/ /\ Alive(ps[tn[t].on]) /\ x.told = ps[tn[t].on].native
            /\ \A s \in vs : s \in us \/ s = ps[tn[t].on].native
  PROVE  Inv([tn EXCEPT ![t] = x], ps, vs)
<1> DEFINE un == [tn EXCEPT ![t] = x]
           p == tn[t].on
<1>1. /\ tn \in [Turns -> TurnState] /\ ps \in [Pids -> Child] /\ us \subseteq Sessions
      /\ un \in [Turns -> TurnState] /\ Typed(un, ps, vs)
  BY DEF Inv, Typed
<1>2. /\ un[t] = x /\ \A u \in Turns : u # t => un[u] = tn[u]
      /\ Open(tn[t]) /\ Open(x) /\ Placed(tn[t]) /\ Placed(x) /\ ~Running(x) /\ ~Running(tn[t])
      /\ Holder(tn[t]) = {p} /\ Holder(x) = {p}
  BY <1>1 DEF Open, Settled, Placed, Running, Holder, Waiting
<1> HIDE DEF un
<1>3. p \in Pids /\ (Alive(ps[p]) => ps[p].thread = tn[t].thread /\ ps[p].kind = "cold")
  BY <1>2 DEF Inv, Seats
<1>4. Flags(un)
  <2>1. Flagged(x)
    BY DEF Flagged
  <2> QED BY <1>2, <2>1 DEF Inv, Flags
<1>5. ASSUME NEW u \in Turns PROVE TurnAged(tn[u], un[u], ps, ps)
  <2>1. CASE u # t
    BY <1>2, <2>1 DEF TurnAged
  <2>2. CASE u = t
    <3>1. x.told = tn[t].told \/ (Alive(ps[p]) /\ ps[p].thread = tn[t].thread /\ x.told = ps[p].native)
      BY <1>3
    <3> QED BY <1>2, <1>3, <2>2, <3>1 DEF TurnAged
  <2> QED BY <2>1, <2>2
<1>6. ASSUME NEW q \in Pids PROVE Aged(q, ps[q], ps[q])
  BY DEF Aged
<1>7. Seats(un, ps)
  <2>1. \A q \in Pids : ps[q].current # None => ps[q].current # t /\ Running(tn[ps[q].current])
    BY <1>2 DEF Inv, Seats
  <2> QED BY <1>2, <2>1 DEF Inv, Seats
<1>8. Fits(un, ps)
  BY <1>2 DEF Inv, Fits
<1>9. \A s \in vs : s \in us \/ \E q \in Pids : /\ Alive(ps[q]) /\ s = ps[q].native
                                                /\ ps[q].kind = "cold" \/ ps[q].ran
  BY <1>3
<1>10. Inv(un, ps, vs)
  <2>1. Typed(un, ps, vs)
    BY <1>1
  <2> HIDE DEF p
  <2> QED BY <1>4, <1>5, <1>6, <1>7, <1>8, <1>9, <2>1, AgedKeeps
<1> QED BY <1>10 DEF un

-----------------------------------------------------------------------------
(* The steps.                                                              *)

LEMMA InvType ==
  ASSUME Inv(turn, proc, used)
  PROVE  /\ turn \in [Turns -> TurnState] /\ proc \in [Pids -> Child] /\ used \subseteq Sessions
         /\ \A t \in Turns : turn[t] \in TurnState
         /\ \A p \in Pids : proc[p] \in Child
BY DEF Inv, Typed

\* The turn that run() is asked for.
Asked(th, s, n) == [NoTurn EXCEPT !.thread = th, !.sig = s, !.resume = n]

LEMMA AskedIs ==
  ASSUME NEW th \in Threads, NEW s \in Signatures, NEW n \in Sessions \cup {None}
  PROVE  /\ Asked(th, s, n) \in TurnState /\ Asked(th, s, n).thread = th
         /\ Asked(th, s, n).sig = s /\ Asked(th, s, n).resume = n
         /\ Asked(th, s, n).told = None /\ ~Asked(th, s, n).killed
         /\ Asked(th, s, n).timer = "none" /\ Asked(th, s, n).phase = "none"
BY DEF Asked, NoTurn, TurnState

LEMMA RunSafe ==
  ASSUME Inv(turn, proc, used), NEW t \in Turns, Run(t)
  PROVE  Inv(turn', proc', used')
<1>1. PICK th \in Threads, s \in Signatures, n \in Sessions \cup {None} :
        LET r == Asked(th, s, n)
            ps == [p \in Pids |-> IF p \in Superseded(r) THEN Retired(proc[p]) ELSE proc[p]]
        IN
        /\ MayRun(t, r)
        /\ Become(t, Bad(r), proc) \/ Place(t, r, ps)
  BY DEF Run, Asked
<1> DEFINE r == Asked(th, s, n)
           ps == [p \in Pids |-> IF p \in Superseded(r) THEN Retired(proc[p]) ELSE proc[p]]
           x == [r EXCEPT !.phase = "wait", !.awaits = Pids]
           un == [turn EXCEPT ![t] = x]
<1>2. /\ r \in TurnState /\ r.thread = th /\ r.resume = n /\ r.told = None /\ ~r.killed
      /\ r.timer = "none" /\ r.sig = s
  BY AskedIs
<1>3. MayRun(t, r) /\ (Become(t, Bad(r), proc) \/ Place(t, r, ps))
  BY <1>1
<1> HIDE DEF r
<1>4. /\ x \in TurnState /\ x.thread = th /\ x.resume = n /\ x.told = None /\ ~x.killed
      /\ x.timer = "none" /\ x.phase = "wait" /\ x.awaits = Pids
  BY <1>2 DEF TurnState
<1> HIDE DEF x
<1>5. MayRun(t, x)
  BY <1>2, <1>3, <1>4 DEF MayRun
<1>6. Inv(un, proc, used)
  BY <1>4, <1>5, BeginKeeps
<1>7. /\ un[t] = x /\ \A y : [turn EXCEPT ![t] = y] = [un EXCEPT ![t] = y]
  BY InvType
<1> HIDE DEF un
<1>8. Bears(un, t, r)
  BY <1>2, <1>4, <1>7 DEF Bears
<1>9. used' = used
  BY DEF Run
<1>10. CASE Become(t, Bad(r), proc)
  BY <1>6, <1>8, <1>9, <1>10, BadKeeps
<1>11. CASE Place(t, r, ps)
  <2>1. /\ ps \in [Pids -> Child]
        /\ \A p \in Pids : ps[p] = IF p \in Superseded(r) THEN Retired(proc[p]) ELSE proc[p]
    BY InvType, RetiredIs
  <2> HIDE DEF ps
  <2>2. Inv(un, ps, used)
    BY <1>6, <2>1, RetireKeeps
  <2>3. ASSUME NEW q \in Pids, Alive(ps[q]), ps[q].thread = r.thread
        PROVE  \/ ps[q].kind = "cold"
               \/ ps[q].kind = "warm" /\ (ps[q].st = "term" \/ ps[q].sig = r.sig)
    <3>1. /\ Retired(proc[q]).thread = proc[q].thread /\ Retired(proc[q]).kind = proc[q].kind
          /\ Retired(proc[q]).sig = proc[q].sig /\ (Alive(Retired(proc[q])) <=> Alive(proc[q]))
          /\ proc[q].kind \in {"warm", "cold"}
          /\ proc[q].st \in {"up", "term"} => Retired(proc[q]).st = "term"
      BY InvType, RetiredIs DEF Child
    <3>2. Alive(proc[q]) /\ proc[q].thread = r.thread /\ ps[q].kind = proc[q].kind
          /\ ps[q].sig = proc[q].sig
      BY <2>1, <2>3, <3>1
    <3>3. CASE q \in Superseded(r)
      BY <2>1, <3>1, <3>2, <3>3 DEF Alive
    <3>4. CASE q \notin Superseded(r) /\ proc[q].st = "up" /\ proc[q].kind = "warm" /\ proc[q].sig # r.sig
      <4>1. proc[q].current # None
        BY <3>2, <3>4 DEF Superseded, Idle, Entries
      <4>2. PICK u \in Turns : u = proc[q].current /\ Running(turn[u]) /\ turn[u].on = q
        BY <4>1 DEF Inv, Seats
      <4>3. turn[u].thread = r.thread
        BY <3>2, <4>2 DEF Inv, Seats, Placed
      <4> QED BY <1>3, <4>2, <4>3 DEF MayRun, Settled, Running
    <3> QED BY <2>1, <3>1, <3>2, <3>3, <3>4 DEF Alive
  <2> QED BY <1>8, <1>9, <1>11, <2>2, <2>3, PlaceKeeps
<1> QED BY <1>3, <1>10, <1>11

LEMMA ResumeSafe ==
  ASSUME Inv(turn, proc, used), NEW t \in Turns, Resume(t)
  PROVE  Inv(turn', proc', used')
<1>1. turn[t].phase \in {"wait", "coldWait"} /\ \A p \in turn[t].awaits : proc[p].st = "dead"
  BY DEF Resume, MayResume
<1>2. Flagged(turn[t])
  BY DEF Inv, Flags
<1>3. turn[t].told = None /\ ~turn[t].killed /\ turn[t].timer = "none"
  <2>1. turn[t].killed \in BOOLEAN /\ turn[t] \in TurnState
    BY InvType DEF TurnState
  <2> QED BY <1>1, <1>2, <2>1 DEF Flagged, OnWire
<1>4. Bears(turn, t, turn[t])
  BY <1>1, <1>3, InvType DEF Bears
<1>5. NoneAlive(turn[t].thread, proc)
  <2>1. Open(turn[t]) /\ Holder(turn[t]) = turn[t].awaits
    BY <1>1 DEF Open, Settled, Holder, Waiting
  <2> QED BY <1>1, <2>1 DEF Inv, Holds, NoneAlive, Alive
<1>6. used' = used /\ (Place(t, turn[t], proc) \/ StartCold(t, turn[t], proc))
  BY DEF Resume
<1>7. CASE Place(t, turn[t], proc)
  BY <1>4, <1>5, <1>6, <1>7, PlaceKeeps DEF NoneAlive
<1>8. CASE StartCold(t, turn[t], proc)
  BY <1>4, <1>5, <1>6, <1>8, StartColdKeeps
<1> QED BY <1>6, <1>7, <1>8

LEMMA PhaseIs ==
  ASSUME NEW r \in TurnState, NEW phase \in {"preflight", "prompt", "accepted", "refused", "queued"}
  PROVE  LET x == [r EXCEPT !.phase = phase] IN
         /\ x \in TurnState /\ x.phase = phase /\ x.thread = r.thread /\ x.resume = r.resume
         /\ x.told = r.told /\ x.killed = r.killed /\ x.timer = r.timer /\ x.on = r.on
BY DEF TurnState

LEMMA CurrentIs ==
  ASSUME NEW c \in Child, NEW u \in Turns \cup {None}
  PROVE  LET d == [c EXCEPT !.current = u] IN
         /\ d \in Child /\ d.current = u /\ d.st = c.st /\ (Alive(d) <=> Alive(c))
         /\ d.thread = c.thread /\ d.kind = c.kind /\ d.native = c.native /\ d.ran = c.ran
         /\ d.session = c.session /\ d.run = c.run
         /\ \A p : Aged(p, c, d)
BY DEF Child, Aged, Alive

LEMMA StartTurnSafe ==
  ASSUME Inv(turn, proc, used), NEW t \in Turns, StartTurn(t)
  PROVE  Inv(turn', proc', used')
<1> DEFINE p == turn[t].on
<1>1. turn[t].phase = "queued" /\ proc[p].current = None /\ used' = used
  BY DEF StartTurn, MayStart
<1>2. /\ Placed(turn[t]) /\ Open(turn[t]) /\ Holder(turn[t]) = {p} /\ ~Running(turn[t])
  BY <1>1 DEF Placed, Open, Settled, Holder, Waiting, Running
<1>3. /\ p \in Pids /\ proc[p].st # "free"
      /\ Alive(proc[p]) => proc[p].thread = turn[t].thread /\ proc[p].kind = "warm"
  BY <1>1, <1>2 DEF Inv, Seats
<1>4. Flagged(turn[t]) /\ turn[t] \in TurnState /\ proc[p] \in Child
  BY <1>3, InvType DEF Inv, Flags
<1>5. turn[t].told = None /\ ~turn[t].killed /\ turn[t].timer = "none"
  <2>1. turn[t].killed \in BOOLEAN
    BY <1>4 DEF TurnState
  <2> QED BY <1>1, <1>4, <2>1 DEF Flagged, OnWire
<1>6. CASE proc[p].st = "up" /\ Become(t, [turn[t] EXCEPT !.phase = "preflight"], [proc EXCEPT ![p].current = t])
  <2> DEFINE x == [turn[t] EXCEPT !.phase = "preflight"]
             d == [proc[p] EXCEPT !.current = t]
  <2>1. turn' = [turn EXCEPT ![t] = x] /\ proc' = [proc EXCEPT ![p] = d]
    BY <1>6 DEF Become
  <2>2. /\ x \in TurnState /\ x.phase = "preflight" /\ x.thread = turn[t].thread
        /\ x.resume = turn[t].resume /\ x.told = None /\ ~x.killed /\ x.timer = "none"
        /\ x.on = p
    BY <1>4, <1>5, PhaseIs
  <2>3. /\ d \in Child /\ d.current = t /\ (Alive(d) <=> Alive(proc[p])) /\ d.ran = proc[p].ran
        /\ d.session = proc[p].session /\ Aged(p, proc[p], d)
    BY <1>4, CurrentIs
  <2> HIDE DEF x, d
  <2>4. Alive(proc[p]) /\ Flagged(x) /\ Running(x)
    BY <1>6, <2>2 DEF Alive, Flagged, Running
  <2>5. x.resume = None => ~d.ran /\ d.session = None
    BY <1>1, <2>2, <2>3, <2>4 DEF Inv, Fits
  <2>6. used \in SUBSET Sessions
    BY InvType
  <2> HIDE DEF p
  <2>7. Inv([turn EXCEPT ![t] = x], [proc EXCEPT ![p] = d], used)
    <3>1. turn[t].on = p
      BY DEF p
    <3>2. x.thread = turn[t].thread /\ x.told \in {turn[t].told, proc[p].native}
      BY <1>5, <2>2
    <3> QED BY <1>1, <1>3, <2>2, <2>3, <2>4, <2>5, <2>6, <3>1, <3>2, PairKeeps
  <2> QED BY <1>1, <2>1, <2>7
<1>7. CASE proc[p].st # "up" /\ FallBack(t, turn[t], proc)
  <2>1. Bears(turn, t, turn[t])
    BY <1>1, <1>4, <1>5 DEF Bears
  <2>2. ASSUME NEW q \in Pids, Alive(proc[q]), proc[q].thread = turn[t].thread
        PROVE  proc[q].st = "term" /\ proc[q].kind = "warm"
    <3>1. q = p
      BY <1>2, <2>2 DEF Inv, Holds
    <3> QED BY <1>3, <1>7, <2>2, <3>1 DEF Alive
  <2> HIDE DEF p
  <2> QED BY <1>1, <1>7, <2>1, <2>2, FallBackKeeps
<1> QED BY <1>6, <1>7 DEF StartTurn

LEMMA RunningIs ==
  ASSUME Inv(turn, proc, used), NEW t \in Turns, Running(turn[t])
  PROVE  /\ turn[t].on \in Pids /\ Alive(proc[turn[t].on]) /\ proc[turn[t].on].current = t
         /\ turn[t] \in TurnState /\ proc[turn[t].on] \in Child /\ Flagged(turn[t])
         /\ proc[turn[t].on].native \in Sessions /\ used \in SUBSET Sessions
<1>1. turn[t].on \in Pids /\ Alive(proc[turn[t].on]) /\ proc[turn[t].on].current = t
  BY DEF Inv, Seats, Placed
<1> QED BY <1>1, InvType DEF Inv, Flags, Named

\* The turn of a process settles, and the process lets go of it.
LEMMA SettleKeeps ==
  ASSUME Inv(turn, proc, used), NEW t \in Turns, NEW p, Running(turn[t]), turn[t].on = p,
         NEW x \in TurnState, Settled(x), x.thread = turn[t].thread,
         x.resume = turn[t].resume, x.told \in {turn[t].told, proc[p].native}, ~x.killed,
         x.timer = "none", NEW vs \in SUBSET Sessions,
         \A s \in vs : s \in used, Settle(t, p, x)
  PROVE  Inv(turn', proc', vs)
<1> DEFINE d == [proc[p] EXCEPT !.current = None]
<1>1. p \in Pids /\ Alive(proc[p]) /\ proc[p] \in Child
  BY RunningIs
<1>2. turn' = [turn EXCEPT ![t] = x] /\ proc' = [proc EXCEPT ![p] = d]
  BY DEF Settle, Become
<1>3. d \in Child /\ d.current = None /\ Aged(p, proc[p], d)
  BY <1>1, CurrentIs
<1>4. Flagged(x) /\ ~Running(x) /\ x.phase \notin {"accepted", "prompt", "queued", "preflight"}
  BY DEF Flagged, Settled, Running
<1> HIDE DEF d
<1>5. Inv([turn EXCEPT ![t] = x], [proc EXCEPT ![p] = d], vs)
  BY <1>1, <1>3, <1>4, PairKeeps
<1> QED BY <1>2, <1>5

LEMMA OkIfKilledIs ==
  ASSUME NEW r \in TurnState
  PROVE  OkIfKilled(r) \in {Ok(r), Bad(r)} /\ (r.killed => OkIfKilled(r) = Ok(r))
BY DEF OkIfKilled

\* Steps that only settle the turn of a process.
LEMMA EndSafe ==
  ASSUME Inv(turn, proc, used), NEW t \in Turns, NEW p \in Pids,
         \/ PreflightFails(t, p) \/ Refused(t, p) \/ Finalize(t)
         \/ RefusedBusy(t, p) /\ turn[t].killed
  PROVE  Inv(turn', proc', used')
<1>1. used' = used /\ used \in SUBSET Sessions
  BY InvType DEF PreflightFails, Refused, Finalize, RefusedBusy
<1>2. /\ Running(turn[t])
      /\ \E x \in {Ok(turn[t]), Bad(turn[t])} : Settle(t, turn[t].on, x)
  <2>1. CASE PreflightFails(t, p)
    BY <2>1 DEF PreflightFails, InPhase, Running
  <2>2. CASE Refused(t, p)
    BY <2>2, OkIfKilledIs, InvType DEF Refused, InPhase, Running
  <2>3. CASE Finalize(t)
    BY <2>3 DEF Finalize, Inv, Flags, Flagged, OnWire, Running
  <2>4. CASE RefusedBusy(t, p) /\ turn[t].killed
    BY <2>4 DEF RefusedBusy, InPhase, Running
  <2> QED BY <2>1, <2>2, <2>3, <2>4
<1>3. PICK x \in {Ok(turn[t]), Bad(turn[t])} : Settle(t, turn[t].on, x)
  BY <1>2
<1>4. turn[t] \in TurnState
  BY InvType
<1>5. /\ x \in TurnState /\ x.thread = turn[t].thread /\ x.resume = turn[t].resume
      /\ x.told = turn[t].told /\ ~x.killed /\ x.timer = "none" /\ Settled(x)
  BY <1>4, EndedIs
<1> QED BY <1>1, <1>2, <1>3, <1>5, SettleKeeps

LEMMA ToldIs ==
  ASSUME NEW r \in TurnState, NEW s \in Sessions
  PROVE  LET x == [r EXCEPT !.told = s] IN
         /\ x \in TurnState /\ x.told = s /\ x.phase = r.phase /\ x.thread = r.thread
         /\ x.resume = r.resume /\ x.on = r.on /\ x.killed = r.killed /\ x.timer = r.timer
         /\ x.awaits = r.awaits
BY DEF TurnState

LEMMA ProbeSafe ==
  ASSUME Inv(turn, proc, used), NEW t \in Turns, NEW p \in Pids, ProbeIdle(t, p)
  PROVE  Inv(turn', proc', used')
<1> DEFINE r == [turn[t] EXCEPT !.told = proc[p].native]
<1>1. Running(turn[t]) /\ turn[t].on = p /\ Settle(t, p, Ok(r)) /\ used' = used
  BY DEF ProbeIdle, InPhase, Running
<1>2. /\ r \in TurnState /\ r.told = proc[p].native /\ r.thread = turn[t].thread
      /\ r.resume = turn[t].resume /\ used \in SUBSET Sessions
  BY <1>1, RunningIs, ToldIs
<1> HIDE DEF r
<1>3. /\ Ok(r) \in TurnState /\ Settled(Ok(r)) /\ Ok(r).thread = r.thread /\ Ok(r).told = r.told
      /\ Ok(r).resume = r.resume /\ ~Ok(r).killed /\ Ok(r).timer = "none"
  BY <1>2, EndedIs
<1> QED BY <1>1, <1>2, <1>3, SettleKeeps

\* Children are retired: a process that cannot serve its turn, an idle one.
LEMMA RetireSafe ==
  ASSUME Inv(turn, proc, used), NEW t \in Turns, NEW p \in Pids, Unfit(t, p) \/ Reap(p)
  PROVE  Inv(turn', proc', used')
<1>1. turn' = turn /\ used' = used /\ proc' = [proc EXCEPT ![p] = Retired(proc[p])]
  BY DEF Unfit, Reap
<1>2. proc' \in [Pids -> Child] /\ \A q \in Pids : proc'[q] = proc[q] \/ proc'[q] = Retired(proc[q])
  BY <1>1, InvType, RetiredIs
<1> QED BY <1>1, <1>2, RetireKeeps

LEMMA PreflightSafe ==
  ASSUME Inv(turn, proc, used), NEW t \in Turns, NEW p \in Pids, Preflight(t, p)
  PROVE  Inv(turn', proc', used') /\ astray' = astray
<1> DEFINE x == [turn[t] EXCEPT !.phase = "prompt"]
           d == [proc[p] EXCEPT !.session = proc[p].native, !.ran = TRUE]
<1>1. /\ turn[t].phase = "preflight" /\ turn[t].on = p /\ Running(turn[t]) /\ used' = used
      /\ SessionMatches(proc[p], turn[t])
      /\ astray' = astray \cup (IF Astray(t, p) THEN {t} ELSE {})
  BY DEF Preflight, InPhase, Running
<1>2. turn' = [turn EXCEPT ![t] = x] /\ proc' = [proc EXCEPT ![p] = d]
  BY InvType DEF Preflight, Become
<1>3. /\ Alive(proc[p]) /\ proc[p].current = t /\ turn[t] \in TurnState /\ proc[p] \in Child
      /\ Flagged(turn[t]) /\ proc[p].native \in Sessions /\ used \in SUBSET Sessions
  BY <1>1, RunningIs
<1>4. /\ x \in TurnState /\ x.phase = "prompt" /\ x.thread = turn[t].thread
      /\ x.resume = turn[t].resume /\ x.told = turn[t].told /\ x.killed = turn[t].killed
      /\ x.timer = turn[t].timer /\ x.on = p
  BY <1>1, <1>3, PhaseIs
<1>5. /\ d \in Child /\ d.ran /\ d.current = t /\ d.st = proc[p].st
      /\ Alive(d) /\ Aged(p, proc[p], d)
  BY <1>3 DEF Child, Aged, Alive
<1> HIDE DEF x, d
<1>6. Flagged(x) /\ Running(x)
  BY <1>1, <1>3, <1>4 DEF Flagged, OnWire, Running
<1>7. Inv([turn EXCEPT ![t] = x], [proc EXCEPT ![p] = d], used)
  BY <1>1, <1>3, <1>4, <1>5, <1>6, PairKeeps
<1>8. ~Astray(t, p)
  <2>1. CASE turn[t].resume # None
    BY <1>1, <2>1 DEF Astray, SessionMatches
  <2>2. CASE turn[t].resume = None
    <3>1. ~proc[p].ran /\ proc[p].session = None
      BY <1>1, <1>3, <2>2 DEF Inv, Fits
    <3>2. proc[p].kind = "warm"
      BY <1>1, <1>3 DEF Inv, Seats, Placed
    <3> QED BY <1>3, <2>2, <3>1, <3>2 DEF Astray, Inv, Virgin
  <2> QED BY <2>1, <2>2
<1> QED BY <1>1, <1>2, <1>7, <1>8

LEMMA AcceptedSafe ==
  ASSUME Inv(turn, proc, used), NEW t \in Turns, NEW p \in Pids, Accepted(t, p)
  PROVE  Inv(turn', proc', used')
<1>1. PICK y \in {t, None} :
        Become(t, [turn[t] EXCEPT !.phase = "accepted"], [proc EXCEPT ![p].run = y])
  BY DEF Accepted
<1> DEFINE x == [turn[t] EXCEPT !.phase = "accepted"]
           d == [proc[p] EXCEPT !.run = y]
<1>2. /\ turn[t].phase = "prompt" /\ turn[t].on = p /\ Running(turn[t])
      /\ used' = used \cup {proc[p].native}
  BY DEF Accepted, Running
<1>3. turn' = [turn EXCEPT ![t] = x] /\ proc' = [proc EXCEPT ![p] = d]
  BY <1>1 DEF Become
<1>4. /\ Alive(proc[p]) /\ proc[p].current = t /\ turn[t] \in TurnState /\ proc[p] \in Child
      /\ Flagged(turn[t]) /\ proc[p].native \in Sessions /\ used \in SUBSET Sessions
  BY <1>2, RunningIs
<1>5. /\ x \in TurnState /\ x.phase = "accepted" /\ x.thread = turn[t].thread
      /\ x.resume = turn[t].resume /\ x.told = turn[t].told /\ x.killed = turn[t].killed
      /\ x.timer = turn[t].timer /\ x.on = p
  BY <1>2, <1>4, PhaseIs
<1>6. /\ d \in Child /\ d.run = y /\ d.current = t /\ Alive(d) /\ Aged(p, proc[p], d)
  BY <1>4 DEF Child, Aged, Alive
<1> HIDE DEF x, d
<1>7. Flagged(x) /\ Running(x)
  BY <1>2, <1>4, <1>5 DEF Flagged, OnWire, Running
<1>8. proc[p].ran
  BY <1>2 DEF Inv, Fits
<1>9. used' \in SUBSET Sessions /\ \A s \in used' : s \in used \/ (s = proc[p].native /\ proc[p].ran)
  BY <1>2, <1>4, <1>8
<1>10. Inv([turn EXCEPT ![t] = x], [proc EXCEPT ![p] = d], used')
  BY <1>2, <1>4, <1>5, <1>6, <1>7, <1>9, PairKeeps
<1> QED BY <1>3, <1>10

\* A process that says it is busy is retired, its turn waiting for the exit;
\* an aborted one is torn down.
LEMMA TornSafe ==
  ASSUME Inv(turn, proc, used), NEW t \in Turns, NEW p \in Pids,
         (RefusedBusy(t, p) /\ ~turn[t].killed) \/ Escalate(t)
  PROVE  Inv(turn', proc', used')
<1>1. Running(turn[t]) /\ used' = used
  BY DEF RefusedBusy, InPhase, Escalate, Running, Inv, Flags, Flagged, OnWire
<1> DEFINE q == turn[t].on
           d == Retired(proc[q])
<1>2. /\ q \in Pids /\ Alive(proc[q]) /\ proc[q].current = t /\ turn[t] \in TurnState
      /\ proc[q] \in Child /\ Flagged(turn[t]) /\ used \in SUBSET Sessions
  BY <1>1, RunningIs
<1>3. /\ d \in Child /\ Alive(d) /\ d.current = t /\ d.run = proc[q].run /\ d.ran = proc[q].ran
      /\ d.session = proc[q].session /\ Aged(q, proc[q], d)
  BY <1>2, RetiredIs
<1>4. ASSUME NEW x \in TurnState, x.phase \in {turn[t].phase, "refused"}, x.on = q,
             x.thread = turn[t].thread, x.resume = turn[t].resume, x.told = turn[t].told,
             Flagged(x), turn' = [turn EXCEPT ![t] = x],
             proc' = [proc EXCEPT ![q] = Retired(proc[q])]
      PROVE  Inv(turn', proc', used')
  <2>1. Running(x)
    BY <1>1, <1>4 DEF Running
  <2>2. /\ x.phase = "accepted" => d.run \in {t, None}
        /\ x.phase = "prompt" => d.ran
        /\ x.phase \in {"queued", "preflight"} /\ x.resume = None => ~d.ran /\ d.session = None
    BY <1>2, <1>3, <1>4 DEF Inv, Fits
  <2>3. turn[t].on = q
    OBVIOUS
  <2> HIDE DEF q, d
  <2>4. Inv([turn EXCEPT ![t] = x], [proc EXCEPT ![q] = d], used)
    BY <1>1, <1>2, <1>3, <1>4, <2>1, <2>2, <2>3, PairKeeps
  <2> QED BY <1>1, <1>4, <2>4 DEF d
<1>5. CASE RefusedBusy(t, p) /\ ~turn[t].killed
  <2> DEFINE x == [turn[t] EXCEPT !.phase = "refused"]
  <2>1. /\ turn' = [turn EXCEPT ![t] = x] /\ proc' = [proc EXCEPT ![q] = Retired(proc[q])]
        /\ turn[t].phase = "prompt"
    BY <1>5 DEF RefusedBusy, Become, InPhase
  <2>2. /\ x \in TurnState /\ x.phase = "refused" /\ x.on = q /\ x.thread = turn[t].thread
        /\ x.resume = turn[t].resume /\ x.told = turn[t].told /\ x.killed = turn[t].killed
        /\ x.timer = turn[t].timer
    BY <1>2, PhaseIs
  <2> HIDE DEF x
  <2>3. Flagged(x)
    BY <1>2, <2>1, <2>2 DEF Flagged, OnWire
  <2> QED BY <1>4, <2>1, <2>2, <2>3
<1>6. CASE Escalate(t)
  <2> DEFINE x == [turn[t] EXCEPT !.timer = "final"]
  <2>1. /\ turn' = [turn EXCEPT ![t] = x] /\ proc' = [proc EXCEPT ![q] = Retired(proc[q])]
        /\ turn[t].timer = "abort"
    BY <1>6 DEF Escalate, Become
  <2>2. /\ x \in TurnState /\ x.phase = turn[t].phase /\ x.on = q /\ x.thread = turn[t].thread
        /\ x.resume = turn[t].resume /\ x.told = turn[t].told /\ x.killed = turn[t].killed
    BY <1>2 DEF TurnState
  <2> HIDE DEF x
  <2>3. Flagged(x)
    BY <1>2, <2>1, <2>2 DEF Flagged, OnWire
  <2> QED BY <1>4, <2>1, <2>2, <2>3
<1> QED BY <1>5, <1>6

LEMMA ReceiverIs ==
  ASSUME Inv(turn, proc, used), NEW p \in Pids
  PROVE  \/ Receivers(p) = {}
         \/ \E t \in Turns : /\ Receivers(p) = {t} /\ turn[t].phase = "accepted" /\ turn[t].on = p
                            /\ proc[p].run \in {t, None}
<1> SUFFICES ASSUME NEW t \in Turns, t \in Receivers(p)
             PROVE  /\ Receivers(p) = {t} /\ turn[t].phase = "accepted" /\ turn[t].on = p
                    /\ proc[p].run \in {t, None}
  BY DEF Receivers
<1>1. proc[p].current = t /\ turn[t].phase = "accepted" /\ Receivers(p) = {t}
  BY DEF Receivers, Listens
<1>2. turn[t].on = p
  BY <1>1, Numbers DEF Inv, Seats
<1> QED BY <1>1, <1>2 DEF Inv, Fits

LEMMA StreamsSafe ==
  ASSUME Inv(turn, proc, used), NEW p \in Pids, Streams(p)
  PROVE  Inv(turn', proc', used') /\ astray' = astray
<1>1. /\ proc[p].run # None /\ proc' = proc /\ used' = used
      /\ turn' = [t \in Turns |-> IF t \in Receivers(p) THEN [turn[t] EXCEPT !.told = proc[p].native]
                                ELSE turn[t]]
      /\ astray' = astray \cup (Receivers(p) \ {proc[p].run})
  BY DEF Streams
<1>2. CASE Receivers(p) = {}
  <2>1. turn' = turn
    BY <1>1, <1>2, InvType
  <2> QED BY <1>1, <1>2, <2>1
<1>3. ASSUME NEW t \in Turns, Receivers(p) = {t}, turn[t].phase = "accepted", turn[t].on = p,
             proc[p].run \in {t, None}
      PROVE  Inv(turn', proc', used') /\ astray' = astray
  <2> DEFINE x == [turn[t] EXCEPT !.told = proc[p].native]
  <2>1. turn' = [turn EXCEPT ![t] = x] /\ proc' = [proc EXCEPT ![p] = proc[p]]
    BY <1>1, <1>3, InvType
  <2>2. astray' = astray
    BY <1>1, <1>3
  <2>3. Running(turn[t])
    BY <1>3 DEF Running
  <2>4. /\ Alive(proc[p]) /\ proc[p].current = t /\ turn[t] \in TurnState /\ proc[p] \in Child
        /\ Flagged(turn[t]) /\ proc[p].native \in Sessions /\ used \in SUBSET Sessions
    BY <1>3, <2>3, RunningIs
  <2>5. /\ x \in TurnState /\ x.told = proc[p].native /\ x.phase = "accepted"
        /\ x.thread = turn[t].thread /\ x.resume = turn[t].resume /\ x.on = p
        /\ x.killed = turn[t].killed /\ x.timer = turn[t].timer
    BY <1>3, <2>4, ToldIs
  <2> HIDE DEF x
  <2>6. Flagged(x) /\ Running(x) /\ Aged(p, proc[p], proc[p])
    BY <1>3, <2>4, <2>5, RetiredIs DEF Flagged, OnWire, Running
  <2>7. Inv([turn EXCEPT ![t] = x], [proc EXCEPT ![p] = proc[p]], used)
    BY <1>3, <2>3, <2>4, <2>5, <2>6, PairKeeps
  <2> QED BY <1>1, <2>1, <2>2, <2>7
<1> QED BY <1>2, <1>3, ReceiverIs

LEMMA RunEndsSafe ==
  ASSUME Inv(turn, proc, used), NEW p \in Pids, RunEnds(p)
  PROVE  Inv(turn', proc', used') /\ astray' = astray
<1>1. PICK bad \in BOOLEAN :
        turn' = [t \in Turns |->
          IF t \notin Receivers(p) THEN turn[t]
          ELSE LET r == [turn[t] EXCEPT !.told = proc[p].native] IN
               IF bad THEN OkIfKilled(r) ELSE Ok(r)]
  BY DEF RunEnds
<1>2. /\ proc[p].run # None /\ Alive(proc[p]) /\ used' = used
      /\ proc' = [proc EXCEPT ![p].run = None, ![p].current = IF Receivers(p) = {} THEN @ ELSE None]
      /\ astray' = astray \cup (Receivers(p) \ {proc[p].run})
  BY DEF RunEnds
<1> DEFINE current == IF Receivers(p) = {} THEN proc[p].current ELSE None
           d == [proc[p] EXCEPT !.run = None, !.current = current]
<1>3. proc[p] \in Child /\ used \in SUBSET Sessions
  BY InvType
<1>4. proc' = [proc EXCEPT ![p] = d]
  BY <1>2, InvType
<1>5. current \in Turns \cup {None}
  BY <1>3 DEF Child
<1> HIDE DEF current
<1>6. /\ d \in Child /\ d.run = None /\ d.current = current /\ d.ran = proc[p].ran
      /\ d.session = proc[p].session /\ Alive(d) /\ Aged(p, proc[p], d)
  BY <1>2, <1>3, <1>5 DEF Child, Aged, Alive
<1> HIDE DEF d
<1>7. CASE Receivers(p) = {}
  <2>1. turn' = turn
    BY <1>1, <1>7, InvType
  <2>2. current = proc[p].current
    BY <1>7 DEF current
  <2>3. Inv(turn, [proc EXCEPT ![p] = d], used)
    BY <1>6, <2>2, ChildKeeps
  <2> QED BY <1>2, <1>4, <1>7, <2>1, <2>3
<1>8. ASSUME NEW t \in Turns, Receivers(p) = {t}, turn[t].phase = "accepted", turn[t].on = p,
             proc[p].run \in {t, None}
      PROVE  Inv(turn', proc', used') /\ astray' = astray
  <2> DEFINE r == [turn[t] EXCEPT !.told = proc[p].native]
             x == IF bad THEN OkIfKilled(r) ELSE Ok(r)
  <2>1. turn' = [turn EXCEPT ![t] = x]
    BY <1>1, <1>8, InvType
  <2>2. astray' = astray
    BY <1>2, <1>8
  <2>3. Running(turn[t])
    BY <1>8 DEF Running
  <2>4. turn[t] \in TurnState /\ proc[p].native \in Sessions
    BY <1>8, <2>3, RunningIs
  <2>5. /\ r \in TurnState /\ r.told = proc[p].native /\ r.thread = turn[t].thread
        /\ r.resume = turn[t].resume
    BY <2>4, ToldIs
  <2> HIDE DEF r
  <2>6. x = Bad(r) \/ x = Ok(r)
    BY DEF OkIfKilled
  <2> HIDE DEF x
  <2>7. /\ x \in TurnState /\ x.thread = turn[t].thread /\ x.resume = turn[t].resume
        /\ x.told = proc[p].native /\ ~x.killed /\ x.timer = "none" /\ Settled(x)
    BY <2>5, <2>6, EndedIs
  <2>8. current = None
    BY <1>8 DEF current
  <2>9. Flagged(x) /\ ~Running(x) /\ x.phase \notin {"accepted", "prompt", "queued", "preflight"}
    BY <2>7 DEF Flagged, Settled, Running
  <2>10. Inv([turn EXCEPT ![t] = x], [proc EXCEPT ![p] = d], used)
    BY <1>2, <1>3, <1>6, <1>8, <2>3, <2>7, <2>8, <2>9, PairKeeps
  <2> QED BY <1>2, <1>4, <2>1, <2>2, <2>10
<1> QED BY <1>7, <1>8, ReceiverIs

\* Changes of a child that its turn does not see.
LEMMA AsideSafe ==
  ASSUME Inv(turn, proc, used), NEW p \in Pids,
         ForeignRun(p) \/ Switch(p) \/ (Exit(p) /\ proc[p].current = None)
  PROVE  Inv(turn', proc', used')
<1>1. turn' = turn /\ used' = used /\ proc[p] \in Child
  BY InvType DEF ForeignRun, Switch, Exit
<1>2. CASE ForeignRun(p)
  <2> DEFINE d == [proc[p] EXCEPT !.run = Foreign]
  <2>1. d \in Child /\ d.ran = proc[p].ran /\ d.session = proc[p].session /\ Alive(d)
        /\ d.current = proc[p].current /\ Aged(p, proc[p], d)
    BY <1>1, <1>2 DEF Child, Aged, Alive, ForeignRun
  <2>2. proc' = [proc EXCEPT ![p] = d]
    BY <1>2 DEF ForeignRun
  <2>3. \A t \in Turns : turn[t].on = p => turn[t].phase # "accepted"
    BY <1>2 DEF ForeignRun
  <2> HIDE DEF d
  <2>4. Inv(turn, [proc EXCEPT ![p] = d], used)
    BY <2>1, <2>3, ChildKeeps
  <2> QED BY <1>1, <2>2, <2>4
<1>3. CASE Switch(p)
  <2> DEFINE d == [proc[p] EXCEPT !.native = -p]
  <2>1. proc[p].st = "up" /\ proc[p].ran /\ proc[p].current = None /\ proc' = [proc EXCEPT ![p] = d]
    BY <1>3 DEF Switch, Idle, Entries
  <2>2. -p \in Sessions
    BY Numbers
  <2>3. d \in Child /\ d.ran = proc[p].ran /\ d.session = proc[p].session /\ Alive(d)
        /\ d.current = proc[p].current /\ d.run = proc[p].run /\ Aged(p, proc[p], d)
    BY <1>1, <2>1, <2>2 DEF Child, Aged, Alive
  <2>4. \A t \in Turns : ~(turn[t].phase = "accepted" /\ turn[t].on = p)
    BY <2>1, Numbers DEF Inv, Seats, Running
  <2> HIDE DEF d
  <2>5. Inv(turn, [proc EXCEPT ![p] = d], used)
    BY <2>1, <2>3, <2>4, ChildKeeps
  <2> QED BY <1>1, <2>1, <2>5
<1>4. CASE Exit(p) /\ proc[p].current = None
  <2>1. Gone \in Child /\ Gone.current = None /\ Gone.st = "dead" /\ ~Alive(Gone)
    BY DEF Gone, NoChild, Child, Alive
  <2>2. proc' = [proc EXCEPT ![p] = Gone]
    BY <1>4 DEF Exit
  <2>3. \A t \in Turns : ~(turn[t].phase = "accepted" /\ turn[t].on = p)
    BY <1>4, Numbers DEF Inv, Seats, Running
  <2>4. Aged(p, proc[p], Gone)
    BY <2>1 DEF Aged
  <2>5. Inv(turn, [proc EXCEPT ![p] = Gone], used)
    BY <1>4, <2>1, <2>3, <2>4, ChildKeeps
  <2> QED BY <1>1, <2>2, <2>5
<1> QED BY <1>2, <1>3, <1>4

LEMMA ExitSafe ==
  ASSUME Inv(turn, proc, used), NEW p \in Pids, Exit(p), proc[p].current # None
  PROVE  Inv(turn', proc', used')
<1> DEFINE ps == [proc EXCEPT ![p] = Gone]
           t == proc[p].current
<1>1. /\ Alive(proc[p]) /\ used' = used
      /\ \/ ~turn[t].killed /\ turn[t].told = None /\ FallBack(t, turn[t], ps)
         \/ Become(t, OkIfKilled(turn[t]), ps)
  BY DEF Exit, MayFallBack
<1>2. t \in Turns /\ Running(turn[t]) /\ turn[t].on = p
  BY DEF Inv, Seats
<1>3. /\ turn[t] \in TurnState /\ Flagged(turn[t]) /\ used \in SUBSET Sessions
  BY <1>2, RunningIs
<1>4. Gone \in Child /\ Gone.current = None /\ Gone.st = "dead" /\ ~Alive(Gone)
  BY DEF Gone, NoChild, Child, Alive
<1>5. Aged(p, proc[p], Gone)
  BY <1>4 DEF Aged
<1> HIDE DEF t
<1>6. CASE Become(t, OkIfKilled(turn[t]), ps)
  <2> DEFINE x == OkIfKilled(turn[t])
  <2>1. turn' = [turn EXCEPT ![t] = x] /\ proc' = [proc EXCEPT ![p] = Gone]
    BY <1>6 DEF Become
  <2>2. x = Bad(turn[t]) \/ x = Ok(turn[t])
    BY DEF OkIfKilled
  <2> HIDE DEF x
  <2>3. /\ x \in TurnState /\ x.thread = turn[t].thread /\ x.resume = turn[t].resume
        /\ x.told = turn[t].told /\ ~x.killed /\ x.timer = "none" /\ Settled(x)
    BY <1>3, <2>2, EndedIs
  <2>4. Flagged(x) /\ ~Running(x) /\ x.phase \notin {"accepted", "prompt", "queued", "preflight"}
    BY <2>3 DEF Flagged, Settled, Running
  <2>5. Inv([turn EXCEPT ![t] = x], [proc EXCEPT ![p] = Gone], used)
    BY <1>1, <1>2, <1>3, <1>4, <1>5, <2>3, <2>4, PairKeeps
  <2> QED BY <1>1, <2>1, <2>5
<1>7. CASE ~turn[t].killed /\ turn[t].told = None /\ FallBack(t, turn[t], ps)
  <2> DEFINE x == [turn[t] EXCEPT !.phase = "queued"]
             un == [turn EXCEPT ![t] = x]
  <2>1. turn[t].timer = "none"
    BY <1>3, <1>7 DEF Flagged
  <2>2. /\ x \in TurnState /\ x.phase = "queued" /\ x.thread = turn[t].thread
        /\ x.resume = turn[t].resume /\ x.told = None /\ ~x.killed /\ x.timer = "none" /\ x.on = p
    BY <1>2, <1>3, <1>7, <2>1, PhaseIs
  <2> HIDE DEF x
  <2>3. Flagged(x) /\ ~Running(x)
    BY <2>2 DEF Flagged, Running
  <2>4. Inv(un, ps, used)
    <3>1. x.told \in {turn[t].told, proc[p].native}
      BY <1>7, <2>2
    <3> QED BY <1>1, <1>2, <1>3, <1>4, <1>5, <2>2, <2>3, <3>1, PairKeeps
  <2>5. un[t] = x /\ (\A y : [turn EXCEPT ![t] = y] = [un EXCEPT ![t] = y]) /\ ps[p] = Gone
    BY <1>2, InvType
  <2> HIDE DEF un, ps
  <2>6. Bears(un, t, turn[t])
    BY <1>3, <1>7, <2>1, <2>2, <2>5 DEF Bears
  <2>7. ASSUME NEW q \in Pids, Alive(ps[q]), ps[q].thread = turn[t].thread PROVE FALSE
    <3>1. Open(x) /\ Holder(x) = {p}
      BY <2>2 DEF Open, Settled, Holder, Waiting
    <3>2. q = p
      BY <1>2, <2>2, <2>4, <2>5, <2>7, <3>1 DEF Inv, Holds
    <3> QED BY <1>4, <2>5, <2>7, <3>2
  <2> QED BY <1>1, <1>2, <1>7, <2>4, <2>6, <2>7, FallBackKeeps
<1> QED BY <1>1, <1>6, <1>7

LEMMA ColdSafe ==
  ASSUME Inv(turn, proc, used), NEW t \in Turns, ColdInit(t) \/ ColdDone(t)
  PROVE  Inv(turn', proc', used')
<1> DEFINE p == turn[t].on
<1>1. turn[t].phase = "cold" /\ turn[t] \in TurnState
  BY InvType DEF ColdInit, ColdDone
<1>2. p \in Pids /\ Open(turn[t]) /\ ~Running(turn[t]) /\ Flagged(turn[t])
  BY <1>1 DEF Inv, Seats, Placed, Open, Settled, Running, Flags
<1>3. CASE ColdInit(t)
  <2> DEFINE x == [turn[t] EXCEPT !.told = proc[p].native]
  <2>1. /\ turn' = [turn EXCEPT ![t] = x] /\ proc' = proc /\ used' = used \cup {proc[p].native}
        /\ Alive(proc[p])
    BY <1>3 DEF ColdInit, Become, Alive
  <2>2. proc[p].native \in Sessions /\ used' \in SUBSET Sessions
    BY <1>2, <2>1, InvType DEF Inv, Named
  <2>3. /\ x \in TurnState /\ x.told = proc[p].native /\ x.phase = "cold"
        /\ x.thread = turn[t].thread /\ x.resume = turn[t].resume /\ x.on = p
        /\ x.timer = turn[t].timer
    BY <1>1, <2>2, ToldIs
  <2>4. turn[t].timer = "none"
    BY <1>1, <1>2 DEF Flagged, OnWire
  <2> HIDE DEF x
  <2>5. Inv([turn EXCEPT ![t] = x], proc, used')
    BY <1>1, <2>1, <2>2, <2>3, <2>4, ColdKeeps
  <2> QED BY <2>1, <2>5
<1>4. CASE ColdDone(t)
  <2>1. PICK x : (x = Ok(turn[t]) \/ x = Bad(turn[t])) /\ Become(t, x, proc)
    BY <1>4 DEF ColdDone, OkIfKilled
  <2>2. turn' = [turn EXCEPT ![t] = x] /\ proc' = proc /\ used' = used
    BY <1>4, <2>1 DEF Become, ColdDone
  <2>3. /\ x \in TurnState /\ x.thread = turn[t].thread /\ x.resume = turn[t].resume
        /\ x.told = turn[t].told /\ ~x.killed /\ x.timer = "none" /\ Settled(x)
    BY <1>1, <2>1, EndedIs
  <2>4. Inv([turn EXCEPT ![t] = x], proc, used)
    BY <1>2, <2>3, MoveKeeps
  <2> QED BY <2>2, <2>4
<1> QED BY <1>3, <1>4

\* What #interruptTurn makes of a turn.
LEMMA InterruptedIs ==
  ASSUME NEW r \in TurnState, Flagged(r)
  PROVE  LET x == Interrupted(r) IN
         /\ x \in TurnState /\ x.thread = r.thread /\ x.resume = r.resume /\ x.told = r.told
         /\ Flagged(x) /\ (Open(x) => Open(r) /\ x.phase = r.phase /\ x.on = r.on /\ x.awaits = r.awaits)
         /\ (Open(r) => Open(x) \/ Settled(x)) /\ (~Open(r) => x = r)
         /\ (r.phase = "preflight" => Settled(x))
         /\ (OnWire(r) \/ r.phase = "cold" => x.phase = r.phase)
         /\ (Open(r) /\ ~OnWire(r) /\ r.phase # "cold" => x = Ok(r))
         /\ (x.timer # r.timer => ~Open(x) \/ OnWire(r))
<1> DEFINE y == [r EXCEPT !.killed = TRUE, !.timer = "abort"]
           z == [r EXCEPT !.killed = TRUE]
<1>1. /\ y \in TurnState /\ y.thread = r.thread /\ y.resume = r.resume /\ y.told = r.told
      /\ y.phase = r.phase /\ y.on = r.on /\ y.awaits = r.awaits /\ y.killed
  BY DEF TurnState
<1>2. /\ z \in TurnState /\ z.thread = r.thread /\ z.resume = r.resume /\ z.told = r.told
      /\ z.phase = r.phase /\ z.on = r.on /\ z.awaits = r.awaits /\ z.killed /\ z.timer = r.timer
  BY DEF TurnState
<1> HIDE DEF y, z
<1>3. /\ Ok(r) \in TurnState /\ Ok(r).thread = r.thread /\ Ok(r).resume = r.resume
      /\ Ok(r).told = r.told /\ ~Ok(r).killed /\ Ok(r).timer = "none" /\ Settled(Ok(r))
  BY EndedIs
<1>4. CASE ~Open(r) \/ r.killed
  <2>1. Interrupted(r) = r
    BY <1>4 DEF Interrupted
  <2> QED BY <1>4, <2>1 DEF Open, OnWire, Settled, Flagged
<1>5. CASE Open(r) /\ ~r.killed /\ OnWire(r)
  <2>1. Interrupted(r) = y
    BY <1>5 DEF Interrupted, y, OnWire
  <2>2. Flagged(y) /\ Open(y)
    BY <1>1, <1>5 DEF Flagged, OnWire, Open, Settled
  <2> QED BY <1>1, <1>5, <2>1, <2>2 DEF Open, OnWire, Settled
<1>6. CASE Open(r) /\ ~r.killed /\ r.phase = "cold"
  <2>1. Interrupted(r) = z
    BY <1>6 DEF Interrupted, z, OnWire
  <2>2. Flagged(z) /\ Open(z)
    BY <1>2, <1>6 DEF Flagged, OnWire, Open, Settled
  <2> QED BY <1>2, <1>6, <2>1, <2>2 DEF Open, OnWire, Settled
<1>7. CASE Open(r) /\ ~r.killed /\ ~OnWire(r) /\ r.phase # "cold"
  <2>1. Interrupted(r) = Ok(r)
    BY <1>7 DEF Interrupted
  <2>2. Flagged(Ok(r)) /\ ~Open(Ok(r))
    BY <1>3 DEF Flagged, Open, Settled
  <2> QED BY <1>3, <1>7, <2>1, <2>2 DEF OnWire
<1> QED BY <1>4, <1>5, <1>6, <1>7

LEMMA KillSafe ==
  ASSUME Inv(turn, proc, used), NEW t \in Turns, Kill(t)
  PROVE  Inv(turn', proc', used')
<1> DEFINE r == turn[t]
           x == Interrupted(r)
           tn == [turn EXCEPT ![t] = x]
           p == r.on
<1>1. /\ Open(r) /\ ~r.killed /\ used' = used /\ turn' = tn
      /\ proc' = [q \in Pids |-> LetGo(tn, IF Stuck({t}, q) THEN Retired(proc[q]) ELSE proc[q])]
  BY DEF Kill
<1>2. r \in TurnState /\ Flagged(r) /\ used \in SUBSET Sessions
  BY InvType DEF Inv, Flags
<1>3. /\ x \in TurnState /\ x.thread = r.thread /\ x.resume = r.resume /\ x.told = r.told
      /\ Flagged(x) /\ (Open(x) => x.phase = r.phase /\ x.on = r.on /\ x.awaits = r.awaits)
      /\ (Open(x) \/ Settled(x)) /\ (r.phase = "preflight" => Settled(x))
      /\ (OnWire(r) \/ r.phase = "cold" => x.phase = r.phase)
      /\ (~OnWire(r) /\ r.phase # "cold" => x = Ok(r))
  BY <1>1, <1>2, InterruptedIs
<1>4. tn[t] = x /\ \A u \in Turns : u # t => tn[u] = turn[u]
  BY InvType
<1> HIDE DEF x, tn
<1>5. ASSUME NEW q \in Pids, proc[q].current # t \/ OnWire(r) PROVE proc'[q] = proc[q]
  <2>1. ~Stuck({t}, q)
    BY <1>5 DEF Stuck, OnWire
  <2>2. proc[q].current = None \/ ~Settled(tn[proc[q].current])
    <3>1. CASE proc[q].current # None /\ proc[q].current # t
      <4>1. proc[q].current \in Turns /\ Running(turn[proc[q].current])
        BY <3>1 DEF Inv, Seats
      <4> QED BY <1>4, <3>1, <4>1 DEF Running, Settled
    <3>2. CASE proc[q].current = t /\ OnWire(r)
      BY <1>3, <1>4, <3>2 DEF OnWire, Settled
    <3> QED BY <1>5, <3>1, <3>2
  <2> QED BY <1>1, <2>1, <2>2 DEF LetGo
<1>6. CASE OnWire(r)
  <2>1. Running(r) /\ x.phase = r.phase /\ Open(x) /\ Running(x)
    BY <1>3, <1>6 DEF OnWire, Running, Open, Settled
  <2>2. /\ p \in Pids /\ Alive(proc[p]) /\ proc[p].current = t /\ proc[p] \in Child
        /\ Aged(p, proc[p], proc[p])
    BY <2>1, RunningIs DEF Aged
  <2>3. proc' = [proc EXCEPT ![p] = proc[p]]
    BY <1>1, <1>5, <1>6, InvType
  <2>4. /\ x.phase = "accepted" => proc[p].run \in {t, None}
        /\ x.phase = "prompt" => proc[p].ran
        /\ x.phase \notin {"queued", "preflight"}
    BY <1>6, <2>1 DEF Inv, Fits, OnWire
  <2>5. turn[t].on = p /\ x.thread = turn[t].thread /\ x.resume = turn[t].resume
        /\ x.told = turn[t].told /\ Running(turn[t]) /\ x.on = p
    BY <1>3, <2>1
  <2> HIDE DEF r, p
  <2>6. Inv([turn EXCEPT ![t] = x], [proc EXCEPT ![p] = proc[p]], used)
    BY <1>2, <1>3, <2>1, <2>2, <2>4, <2>5, PairKeeps
  <2> QED BY <1>1, <2>3, <2>6 DEF tn
<1>7. CASE r.phase = "cold"
  <2>1. x.phase = "cold" /\ Open(x) /\ ~Running(r) /\ x.on = r.on
    BY <1>3, <1>7 DEF Open, Settled, Running
  <2>2. \A q \in Pids : proc[q].current # t
    BY <2>1, Numbers DEF Inv, Seats
  <2>3. proc' = proc
    BY <1>1, <1>5, <2>2, InvType
  <2>4. x.timer = "none"
    BY <1>3, <2>1 DEF Flagged, OnWire
  <2>5. Inv([turn EXCEPT ![t] = x], proc, used)
    BY <1>2, <1>3, <1>7, <2>1, <2>4, ColdKeeps
  <2> QED BY <1>1, <2>3, <2>5 DEF tn
<1>8. CASE r.phase = "preflight"
  <2> DEFINE d == [Retired(proc[p]) EXCEPT !.current = None]
  <2>1. x = Ok(r) /\ Running(r)
    BY <1>3, <1>8 DEF OnWire, Running
  <2>2. p \in Pids /\ Alive(proc[p]) /\ proc[p].current = t /\ proc[p] \in Child
    BY <2>1, RunningIs
  <2>3. \A q \in Pids : q # p => proc[q].current # t
    BY Numbers DEF Inv, Seats
  <2>4. proc'[p] = d
    <3>1. Stuck({t}, p) /\ Retired(proc[p]).current = t
      BY <1>8, <2>2, RetiredIs DEF Stuck
    <3>2. Settled(tn[t]) /\ t # None
      BY <1>3, <1>4, <1>8, Numbers
    <3> QED BY <1>1, <2>2, <3>1, <3>2 DEF LetGo
  <2>5. proc' = [proc EXCEPT ![p] = d]
    BY <1>1, <1>5, <2>2, <2>3, <2>4, InvType
  <2>6. d \in Child /\ d.current = None /\ Aged(p, proc[p], d)
    <3>1. Retired(proc[p]) \in Child /\ Aged(p, proc[p], Retired(proc[p]))
      BY <2>2, RetiredIs
    <3>2. d \in Child /\ d.current = None /\ Aged(p, Retired(proc[p]), d)
      BY <3>1, CurrentIs
    <3>3. /\ d.st = Retired(proc[p]).st /\ (Alive(d) <=> Alive(Retired(proc[p])))
          /\ d.thread = Retired(proc[p]).thread /\ d.kind = Retired(proc[p]).kind
          /\ d.native = Retired(proc[p]).native /\ d.ran = Retired(proc[p]).ran
          /\ d.session = Retired(proc[p]).session
      BY <3>1, CurrentIs
    <3> QED BY <3>1, <3>2, <3>3 DEF Aged
  <2>7. /\ ~Running(x) /\ x.phase \notin {"accepted", "prompt", "queued", "preflight"}
        /\ Settled(x)
    BY <1>3, <1>8 DEF Settled, Running
  <2>8. turn[t].on = p /\ Running(turn[t]) /\ x.thread = turn[t].thread
        /\ x.resume = turn[t].resume /\ x.told = turn[t].told
    BY <1>3, <2>1
  <2> HIDE DEF d, r, p
  <2>9. Inv([turn EXCEPT ![t] = x], [proc EXCEPT ![p] = d], used)
    BY <1>2, <1>3, <2>2, <2>6, <2>7, <2>8, PairKeeps
  <2> QED BY <1>1, <2>5, <2>9 DEF tn
<1>9. CASE ~OnWire(r) /\ r.phase # "cold" /\ r.phase # "preflight"
  <2>1. x = Ok(r) /\ ~Running(r)
    BY <1>3, <1>9 DEF OnWire, Running
  <2>2. \A q \in Pids : proc[q].current # t
    BY <2>1, Numbers DEF Inv, Seats
  <2>3. proc' = proc
    BY <1>1, <1>5, <2>2, InvType
  <2>4. ~x.killed /\ x.timer = "none" /\ Settled(x)
    BY <1>2, <2>1, EndedIs
  <2>5. Inv([turn EXCEPT ![t] = x], proc, used)
    BY <1>3, <2>1, <2>4, MoveKeeps
  <2> QED BY <1>1, <2>3, <2>5 DEF tn
<1> QED BY <1>6, <1>7, <1>8, <1>9

\* Many turns are interrupted or given up, and their processes let go.
LEMMA ManyKeep ==
  ASSUME NEW tn, NEW ps, NEW us, Inv(tn, ps, us),
         NEW un \in [Turns -> TurnState], NEW qs \in [Pids -> Child],
         \A p \in Pids :
           /\ Aged(p, ps[p], qs[p]) /\ (Alive(ps[p]) => Alive(qs[p]))
           /\ qs[p].ran = ps[p].ran /\ qs[p].session = ps[p].session /\ qs[p].run = ps[p].run
           /\ qs[p].current = IF ps[p].current # None /\ Settled(un[ps[p].current]) THEN None
                              ELSE ps[p].current,
         \A t \in Turns :
           /\ un[t].thread = tn[t].thread /\ un[t].resume = tn[t].resume
           /\ un[t].told = tn[t].told /\ Flagged(un[t])
           /\ Open(un[t]) => /\ Open(tn[t]) /\ un[t].phase = tn[t].phase
                             /\ un[t].on = tn[t].on /\ un[t].awaits = tn[t].awaits
           /\ Open(tn[t]) => Open(un[t]) \/ Settled(un[t])
  PROVE  Inv(un, qs, us)
<1>1. /\ tn \in [Turns -> TurnState] /\ ps \in [Pids -> Child] /\ Typed(un, qs, us)
  BY DEF Inv, Typed
<1>2. Flags(un)
  BY DEF Flags
<1>3. ASSUME NEW t \in Turns
      PROVE  /\ Placed(un[t]) => /\ Placed(tn[t]) /\ un[t].on = tn[t].on
                                 /\ un[t].phase = tn[t].phase
             /\ Running(un[t]) => Running(tn[t])
  <2>1. Placed(un[t]) => Open(un[t])
    BY DEF Placed, Running, Open, Settled
  <2>2. Running(un[t]) => Placed(un[t])
    BY DEF Placed
  <2> QED BY <2>1, <2>2 DEF Placed, Running
<1>4. ASSUME NEW t \in Turns, Running(un[t])
      PROVE  Alive(qs[tn[t].on]) /\ qs[tn[t].on].current = t
  <2>1. tn[t].on \in Pids /\ Alive(ps[tn[t].on]) /\ ps[tn[t].on].current = t
    BY <1>3, <1>4 DEF Inv, Seats, Placed
  <2>2. ~Settled(un[t])
    BY <1>4 DEF Running, Settled
  <2> QED BY <2>1, <2>2
<1>5. ASSUME NEW p \in Pids, qs[p].current # None
      PROVE  qs[p].current = ps[p].current /\ Running(un[ps[p].current])
  <2>1. /\ qs[p].current = ps[p].current /\ ps[p].current # None
        /\ ~Settled(un[ps[p].current])
    BY <1>5
  <2>2. ps[p].current \in Turns /\ Running(tn[ps[p].current])
    BY <2>1 DEF Inv, Seats
  <2>3. Open(tn[ps[p].current])
    BY <2>2 DEF Running, Open, Settled
  <2>4. un[ps[p].current].phase = tn[ps[p].current].phase
    BY <2>1, <2>2, <2>3
  <2> QED BY <2>1, <2>2, <2>4 DEF Running
<1>6. Seats(un, qs)
  <2>1. \A p \in Pids : StillHas(p, ps[p], qs[p], un)
    BY <1>5 DEF StillHas
  <2>2. \A t \in Turns : StillOn(t, tn[t], un[t], qs)
    BY <1>3, <1>4 DEF StillOn
  <2>3. Seats(tn, ps)
    BY DEF Inv
  <2>4. /\ tn \in [Turns -> TurnState] /\ ps \in [Pids -> Child]
        /\ un \in [Turns -> TurnState] /\ qs \in [Pids -> Child]
    BY <1>1 DEF Typed
  <2> QED BY ONLY <2>1, <2>2, <2>3, <2>4, SeatsKeep
<1>7. Fits(un, qs)
  <2> SUFFICES ASSUME NEW t \in Turns
               PROVE  /\ un[t].phase = "accepted" => qs[un[t].on].run \in {t, None}
                      /\ un[t].phase = "prompt" => qs[un[t].on].ran
                      /\ un[t].phase \in {"queued", "preflight"} /\ un[t].resume = None
                           /\ Alive(qs[un[t].on]) =>
                           ~qs[un[t].on].ran /\ qs[un[t].on].session = None
    BY DEF Fits
  <2>1. CASE Placed(un[t])
    <3>1. Placed(tn[t]) /\ un[t].on = tn[t].on /\ un[t].phase = tn[t].phase
          /\ un[t].resume = tn[t].resume
      BY <1>3, <2>1
    <3>2. tn[t].on \in Pids
      BY <3>1 DEF Inv, Seats
    <3>3. /\ qs[tn[t].on].run = ps[tn[t].on].run /\ qs[tn[t].on].ran = ps[tn[t].on].ran
          /\ qs[tn[t].on].session = ps[tn[t].on].session
          /\ Alive(qs[tn[t].on]) => Alive(ps[tn[t].on])
      BY <3>2 DEF Aged
    <3> QED BY <3>1, <3>3 DEF Inv, Fits
  <2>2. CASE ~Placed(un[t])
    BY <2>2 DEF Placed, Running
  <2> QED BY <2>1, <2>2
<1>8. ASSUME NEW t \in Turns PROVE TurnAged(tn[t], un[t], ps, qs)
  BY DEF TurnAged, Holder, Waiting
<1> QED BY <1>1, <1>2, <1>6, <1>7, <1>8, AgedKeeps

LEMMA ShutdownSafe ==
  ASSUME Inv(turn, proc, used), BeginShutdown \/ EndShutdown
  PROVE  Inv(turn', proc', used')
<1>1. used' = used
  BY DEF BeginShutdown, EndShutdown
<1>2. ASSUME NEW t \in Turns PROVE turn[t] \in TurnState /\ Flagged(turn[t])
  BY InvType DEF Inv, Flags
<1> DEFINE Told(r, x) ==
             /\ x \in TurnState /\ x.thread = r.thread /\ x.resume = r.resume /\ x.told = r.told
             /\ Flagged(x)
             /\ Open(x) => Open(r) /\ x.phase = r.phase /\ x.on = r.on /\ x.awaits = r.awaits
             /\ Open(r) => Open(x) \/ Settled(x)
<1>3. ASSUME NEW t \in Turns
      PROVE  Told(turn[t], turn[t]) /\ Told(turn[t], Interrupted(turn[t])) /\ Told(turn[t], Bad(turn[t]))
  <2>1. Told(turn[t], turn[t])
    BY <1>2
  <2>2. Told(turn[t], Interrupted(turn[t]))
    BY <1>2, InterruptedIs
  <2>3. Told(turn[t], Bad(turn[t]))
    <3> DEFINE x == Bad(turn[t])
    <3>1. /\ x \in TurnState /\ x.thread = turn[t].thread /\ x.resume = turn[t].resume
          /\ x.told = turn[t].told /\ ~x.killed /\ x.timer = "none" /\ Settled(x)
      BY <1>2, EndedIs
    <3> HIDE DEF x
    <3>2. Flagged(x) /\ ~Open(x)
      BY <3>1 DEF Flagged, Open, Settled
    <3>3. Told(turn[t], x)
      BY <3>1, <3>2
    <3> QED BY <3>3 DEF x
  <2> QED BY <2>1, <2>2, <2>3
<1>4. CASE BeginShutdown
  <2>1. /\ proc' = proc
        /\ turn' = [t \in Turns |-> IF Waiting(turn[t]) THEN Bad(turn[t])
                                  ELSE IF turn[t].phase = "cold" THEN Interrupted(turn[t])
                                  ELSE turn[t]]
    BY <1>4 DEF BeginShutdown
  <2>2. ASSUME NEW t \in Turns PROVE Told(turn[t], turn'[t])
    <3>1. turn'[t] = IF Waiting(turn[t]) THEN Bad(turn[t])
                     ELSE IF turn[t].phase = "cold" THEN Interrupted(turn[t]) ELSE turn[t]
      BY <2>1
    <3> HIDE DEF Told
    <3> QED BY <1>3, <3>1
  <2>3. turn' \in [Turns -> TurnState]
    <3>1. \A t \in Turns : turn'[t] \in TurnState
      BY <2>2
    <3> QED BY <2>1, <3>1
  <2>4. ASSUME NEW p \in Pids
        PROVE  /\ Aged(p, proc[p], proc[p])
               /\ proc[p].current = IF proc[p].current # None /\ Settled(turn'[proc[p].current]) THEN None
                                    ELSE proc[p].current
    <3>1. ASSUME proc[p].current # None PROVE ~Settled(turn'[proc[p].current])
      <4>1. proc[p].current \in Turns /\ Running(turn[proc[p].current])
        BY <3>1 DEF Inv, Seats
      <4>2. turn'[proc[p].current] = turn[proc[p].current]
        BY <2>1, <4>1 DEF Running, Waiting
      <4> QED BY <4>1, <4>2 DEF Running, Settled
    <3> QED BY <3>1 DEF Aged
  <2>5. proc \in [Pids -> Child]
    BY InvType
  <2>6. \A t \in Turns :
           /\ turn'[t].thread = turn[t].thread /\ turn'[t].resume = turn[t].resume
           /\ turn'[t].told = turn[t].told /\ Flagged(turn'[t])
           /\ Open(turn'[t]) => /\ Open(turn[t]) /\ turn'[t].phase = turn[t].phase
                                /\ turn'[t].on = turn[t].on /\ turn'[t].awaits = turn[t].awaits
           /\ Open(turn[t]) => Open(turn'[t]) \/ Settled(turn'[t])
    BY <2>2
  <2>7. Inv(turn', proc, used)
    BY <2>3, <2>4, <2>5, <2>6, ManyKeep
  <2> QED BY <1>1, <2>1, <2>7
<1>5. CASE EndShutdown
  <2> DEFINE held == {proc[p].current : p \in Entries(proc)}
  <2>1. /\ turn' = [t \in Turns |-> IF t \in held THEN Interrupted(turn[t]) ELSE turn[t]]
        /\ proc' = [p \in Pids |->
                      LetGo(turn', IF p \in Entries(proc) THEN Retired(proc[p]) ELSE proc[p])]
    BY <1>5 DEF EndShutdown
  <2>2. ASSUME NEW t \in Turns PROVE Told(turn[t], turn'[t])
    <3>1. turn'[t] = IF t \in held THEN Interrupted(turn[t]) ELSE turn[t]
      BY <2>1
    <3> HIDE DEF Told, held
    <3> QED BY <1>3, <3>1
  <2>3. turn' \in [Turns -> TurnState]
    <3>1. \A t \in Turns : turn'[t] \in TurnState
      BY <2>2
    <3> QED BY <2>1, <3>1
  <2>4. ASSUME NEW p \in Pids
        PROVE  /\ Aged(p, proc[p], proc'[p]) /\ (Alive(proc[p]) => Alive(proc'[p]))
               /\ proc'[p].ran = proc[p].ran /\ proc'[p].session = proc[p].session
               /\ proc'[p].run = proc[p].run /\ proc'[p] \in Child
               /\ proc'[p].current = IF proc[p].current # None /\ Settled(turn'[proc[p].current]) THEN None
                                     ELSE proc[p].current
    <3> DEFINE c == IF p \in Entries(proc) THEN Retired(proc[p]) ELSE proc[p]
    <3>1. /\ c \in Child /\ (Alive(c) <=> Alive(proc[p])) /\ c.current = proc[p].current
          /\ c.run = proc[p].run /\ c.ran = proc[p].ran /\ c.session = proc[p].session
          /\ c.thread = proc[p].thread /\ c.kind = proc[p].kind /\ c.native = proc[p].native
          /\ Aged(p, proc[p], c)
      BY InvType, RetiredIs
    <3>2. proc'[p] = LetGo(turn', c)
      BY <2>1
    <3> HIDE DEF c
    <3> DEFINE d == [c EXCEPT !.current = None]
    <3>3. /\ d \in Child /\ d.current = None /\ d.st = c.st /\ (Alive(d) <=> Alive(c))
          /\ d.thread = c.thread /\ d.kind = c.kind /\ d.native = c.native /\ d.ran = c.ran
          /\ d.session = c.session /\ d.run = c.run
      BY <3>1, CurrentIs
    <3>4. proc'[p] = IF c.current # None /\ Settled(turn'[c.current]) THEN d ELSE c
      BY <3>2 DEF LetGo
    <3> HIDE DEF d
    <3> QED BY <3>1, <3>3, <3>4 DEF Aged
  <2>5. proc' \in [Pids -> Child]
    <3>1. \A p \in Pids : proc'[p] \in Child
      BY <2>4
    <3> QED BY <2>1, <3>1
  <2>6. \A t \in Turns :
           /\ turn'[t].thread = turn[t].thread /\ turn'[t].resume = turn[t].resume
           /\ turn'[t].told = turn[t].told /\ Flagged(turn'[t])
           /\ Open(turn'[t]) => /\ Open(turn[t]) /\ turn'[t].phase = turn[t].phase
                                /\ turn'[t].on = turn[t].on /\ turn'[t].awaits = turn[t].awaits
           /\ Open(turn[t]) => Open(turn'[t]) \/ Settled(turn'[t])
    BY <2>2
  <2>7. Inv(turn', proc', used)
    BY <2>3, <2>4, <2>5, <2>6, ManyKeep
  <2> QED BY <1>1, <2>7
<1> QED BY <1>4, <1>5

-----------------------------------------------------------------------------
LEMMA InitSafe == Init => IInv
<1> SUFFICES ASSUME Init PROVE IInv
  OBVIOUS
<1>1. /\ NoTurn \in TurnState /\ NoTurn.phase = "none" /\ NoTurn.told = None
      /\ NoTurn.resume = None /\ ~NoTurn.killed /\ NoTurn.timer = "none"
  BY DEF NoTurn, TurnState
<1>2. NoChild \in Child /\ NoChild.st = "free" /\ NoChild.current = None
  BY DEF NoChild, Child
<1>3. /\ \A t \in Turns : turn[t] = NoTurn
      /\ \A p \in Pids : proc[p] = NoChild
  BY DEF Init
<1>4. Typed(turn, proc, used)
  BY <1>1, <1>2 DEF Init, Typed
<1>5. /\ \A t \in Turns : ~Open(turn[t]) /\ ~Placed(turn[t]) /\ ~Running(turn[t]) /\ Flagged(turn[t])
      /\ \A p \in Pids : ~Alive(proc[p])
  BY <1>1, <1>2, <1>3 DEF Open, Placed, Running, Alive, Flagged
<1>6. Flags(turn) /\ Seats(turn, proc)
  BY <1>2, <1>3, <1>5 DEF Flags, Seats
<1>7. Fits(turn, proc)
  BY <1>1, <1>3 DEF Fits
<1>8. Serial(turn) /\ Alone(proc) /\ Holds(turn, proc) /\ Virgin(proc, used) /\ Named(proc)
  BY <1>5 DEF Serial, Alone, Holds, Virgin, Named
<1>9. \A s \in Sessions : \A th : ~Claims(turn, proc, s, th)
  BY <1>1, <1>3, <1>5, Numbers DEF Claims
<1>10. Home(turn, proc) /\ Origin(turn, proc) /\ Fresh(turn, proc, used)
  BY <1>5, <1>9, Numbers DEF Home, Origin, Fresh, Init
<1> QED BY <1>4, <1>6, <1>7, <1>8, <1>10 DEF IInv, Inv, Init

LEMMA StepSafe == IInv /\ [Next]_vars => IInv'
<1> SUFFICES ASSUME IInv, [Next]_vars PROVE IInv'
  OBVIOUS
<1>1. Inv(turn, proc, used) /\ astray = {} /\ shutdown \in {"no", "draining", "done"}
  BY DEF IInv
<1>2. shutdown' \in {"no", "draining", "done"}
  <2>1. ASSUME NEW t \in Turns, NEW p \in Pids, Answers(t, p) PROVE shutdown' = shutdown
    BY <2>1 DEF Answers, Preflight, Unfit, PreflightFails, Accepted, Refused, RefusedBusy, ProbeIdle
  <2>2. ASSUME NEW p \in Pids, Process(p) \/ ForeignRun(p) \/ Switch(p)
        PROVE  shutdown' = shutdown
    BY <2>2 DEF Process, Streams, RunEnds, Exit, Reap, ForeignRun, Switch
  <2>3. ASSUME NEW t \in Turns,
               \/ Run(t) \/ Kill(t) \/ Resume(t) \/ StartTurn(t)
               \/ Escalate(t) \/ Finalize(t) \/ ColdInit(t) \/ ColdDone(t)
        PROVE  shutdown' = shutdown
    BY <2>3 DEF Run, Kill, Resume, StartTurn, Escalate, Finalize, ColdInit, ColdDone
  <2>4. ASSUME BeginShutdown \/ EndShutdown PROVE shutdown' \in {"draining", "done"}
    BY <2>4 DEF BeginShutdown, EndShutdown
  <2>5. ASSUME UNCHANGED vars PROVE shutdown' = shutdown
    BY <2>5 DEF vars
  <2> QED BY <1>1, <2>1, <2>2, <2>3, <2>4, <2>5 DEF Next, Events
<1>3. ASSUME NEW t \in Turns, NEW p \in Pids, Answers(t, p)
      PROVE  Inv(turn', proc', used') /\ astray' = astray
  <2>1. CASE Preflight(t, p)
    BY <1>1, <2>1, PreflightSafe
  <2>2. CASE ~Preflight(t, p)
    <3>1. astray' = astray
      BY <1>3, <2>2 DEF Answers, Unfit, PreflightFails, Accepted, Refused, RefusedBusy, ProbeIdle
    <3> QED BY <1>1, <1>3, <2>2, <3>1, RetireSafe, EndSafe, AcceptedSafe, ProbeSafe, TornSafe
        DEF Answers
  <2> QED BY <2>1, <2>2
<1>4. ASSUME NEW p \in Pids, Process(p) PROVE Inv(turn', proc', used') /\ astray' = astray
  <2>1. CASE Streams(p)
    BY <1>1, <2>1, StreamsSafe
  <2>2. CASE RunEnds(p)
    BY <1>1, <2>2, RunEndsSafe
  <2>3. CASE Exit(p)
    <3>1. astray' = astray
      BY <2>3 DEF Exit
    <3> QED BY <1>1, <2>3, <3>1, AsideSafe, ExitSafe
  <2>4. CASE Reap(p)
    <3>1. turn' = turn /\ used' = used /\ proc' = [proc EXCEPT ![p] = Retired(proc[p])] /\ astray' = astray
      BY <2>4 DEF Reap
    <3>2. proc' \in [Pids -> Child] /\ \A q \in Pids : proc'[q] = proc[q] \/ proc'[q] = Retired(proc[q])
      BY <1>1, <3>1, InvType, RetiredIs
    <3> QED BY <1>1, <3>1, <3>2, RetireKeeps
  <2> QED BY <1>4, <2>1, <2>2, <2>3, <2>4 DEF Process
<1>5. ASSUME NEW t \in Turns,
             \/ Run(t) \/ Kill(t) \/ Resume(t) \/ StartTurn(t)
             \/ Escalate(t) \/ Finalize(t) \/ ColdInit(t) \/ ColdDone(t)
      PROVE  Inv(turn', proc', used') /\ astray' = astray
  <2>1. astray' = astray
    BY <1>5 DEF Run, Kill, Resume, StartTurn, Escalate, Finalize, ColdInit, ColdDone
  <2>2. CASE Escalate(t) \/ Finalize(t)
    <3>1. turn[t].on \in Pids
      <4>1. OnWire(turn[t])
        BY <1>1, <2>2 DEF Escalate, Finalize, Inv, Flags, Flagged
      <4> QED BY <1>1, <4>1 DEF OnWire, Inv, Seats, Placed, Running
    <3> QED BY <1>1, <2>1, <2>2, <3>1, TornSafe, EndSafe
  <2>3. CASE ~(Escalate(t) \/ Finalize(t))
    BY <1>1, <1>5, <2>1, <2>3, RunSafe, KillSafe, ResumeSafe, StartTurnSafe, ColdSafe
  <2> QED BY <2>2, <2>3
<1>6. ASSUME NEW p \in Pids, ForeignRun(p) \/ Switch(p)
      PROVE  Inv(turn', proc', used') /\ astray' = astray
  <2>1. astray' = astray
    BY <1>6 DEF ForeignRun, Switch
  <2> QED BY <1>1, <1>6, <2>1, AsideSafe
<1>7. CASE BeginShutdown \/ EndShutdown
  <2>1. astray' = astray
    BY <1>7 DEF BeginShutdown, EndShutdown
  <2> QED BY <1>1, <1>2, <1>7, <2>1, ShutdownSafe DEF IInv
<1>8. CASE UNCHANGED vars
  BY <1>1, <1>2, <1>8 DEF IInv, vars
<1> QED BY <1>1, <1>2, <1>3, <1>4, <1>5, <1>6, <1>7, <1>8 DEF Next, Events, IInv

LEMMA InvariantHolds == Spec => []IInv
BY InitSafe, StepSafe, PTL DEF Spec

THEOREM TypesHold == Spec => []TypeOK
<1>1. IInv => TypeOK
  BY DEF IInv, Inv, Typed, TypeOK
<1> QED BY <1>1, InvariantHolds, PTL

\* A session file is open in one process at most: children that live belong to
\* different topics, and a session to one topic.
THEOREM OneWriterHolds == Spec => []OneWriter
<1>1. IInv => OneWriter
  <2> SUFFICES ASSUME IInv, NEW p \in Pids, NEW q \in Pids, Alive(proc[p]), Alive(proc[q]),
                      proc[p].native = proc[q].native
               PROVE  p = q
    BY DEF OneWriter
  <2>1. proc[p].native \in Sessions /\ proc[p] \in Child /\ proc[q] \in Child
    BY InvType DEF IInv, Inv, Named
  <2>2. /\ Claims(turn, proc, proc[p].native, proc[p].thread)
        /\ Claims(turn, proc, proc[p].native, proc[q].thread)
        /\ proc[p].thread \in Threads \cup {None} /\ proc[q].thread \in Threads \cup {None}
    BY <2>1 DEF Claims, Child
  <2>3. proc[p].thread = proc[q].thread
    BY <2>1, <2>2 DEF IInv, Inv, Home
  <2> QED BY <2>3 DEF IInv, Inv, Alone
<1> QED BY <1>1, InvariantHolds, PTL

\* A turn's prompt goes to the session it resumes or to an unused one, and it
\* is shown its own run's records only.
THEOREM OwnTurnsOnly == Spec => []TurnsAreTheirOwn
<1>1. IInv => TurnsAreTheirOwn
  BY DEF IInv, TurnsAreTheirOwn
<1> QED BY <1>1, InvariantHolds, PTL

-----------------------------------------------------------------------------
(* The runner contract.                                                    *)

\* What becomes of a turn that place(), #fallbackToCold or its start() takes.
Given(x) ==
  \/ x.phase = "bad"
  \/ x.phase \in {"wait", "coldWait", "queued", "cold"} /\ ~x.killed /\ x.told = None

LEMMA GivenOut ==
  ASSUME NEW t \in Turns, NEW r \in TurnState, ~r.killed, r.told = None, NEW ps,
         Place(t, r, ps) \/ FallBack(t, r, ps) \/ StartCold(t, r, ps)
  PROVE  \E x : turn' = [turn EXCEPT ![t] = x] /\ Given(x)
<1> DEFINE Out(q) == \E x : q = [turn EXCEPT ![t] = x] /\ Given(x)
<1>1. ASSUME NEW qs, Become(t, Bad(r), qs) PROVE Out(turn')
  <2>1. Bad(r).phase = "bad"
    BY DEF Bad, SettledAs, TurnState
  <2> QED BY <1>1, <2>1 DEF Become, Given
<1>2. ASSUME NEW phase \in {"wait", "coldWait", "queued", "cold"}, NEW on, NEW exits, NEW qs,
             \/ Become(t, [r EXCEPT !.phase = phase, !.awaits = exits, !.on = on], qs)
             \/ Become(t, [r EXCEPT !.phase = phase, !.on = on, !.awaits = exits], qs)
      PROVE  Out(turn')
  <2>1. PICK x : /\ x.phase = phase /\ x.killed = r.killed /\ x.told = r.told
                 /\ turn' = [turn EXCEPT ![t] = x]
    BY <1>2 DEF Become, TurnState
  <2> QED BY <2>1 DEF Given
<1>3. ASSUME NEW qs, StartCold(t, r, qs) PROVE Out(turn')
  BY <1>1, <1>2, <1>3 DEF StartCold
<1>4. ASSUME NEW qs, NEW exits, NEW phase \in {"wait", "coldWait"}, WaitFor(t, r, qs, phase, exits)
      PROVE  Out(turn')
  BY <1>2, <1>4 DEF WaitFor
<1>5. ASSUME NEW qs, FallBack(t, r, qs) PROVE Out(turn')
  BY <1>1, <1>3, <1>4, <1>5 DEF FallBack
<1>6. ASSUME NEW qs, NEW p, Enqueue(t, r, qs, p) PROVE Out(turn')
  BY <1>2, <1>6 DEF Enqueue
<1>7. ASSUME PlaceOnNew(t, r, ps) PROVE Out(turn')
  BY <1>5, <1>6, <1>7 DEF PlaceOnNew
<1>8. ASSUME Place(t, r, ps) PROVE Out(turn')
  <2> HIDE DEF Out
  <2> QED BY <1>1, <1>4, <1>6, <1>7, <1>8 DEF Place
<1> QED BY <1>3, <1>5, <1>8

\* One step takes a turn from r to x.
Moves(r, x) ==
  \/ x = r
  \/ r.phase = "none" /\ Given(x)
  \/ Open(r) /\ x.phase = "ok"
  \/ Open(r) /\ ~r.killed /\ x.phase = "bad"
  \/ /\ Open(r) /\ Open(x) /\ (x.phase = "cold" <=> r.phase = "cold")
     /\ \/ (x.killed <=> r.killed) /\ (x.told = r.told \/ x.told # None)
        \/ ~r.killed /\ x.killed /\ x.told = r.told
  \/ /\ Open(r) /\ ~r.killed /\ r.told = None /\ r.phase # "cold"
     /\ x.phase = "cold" /\ ~x.killed /\ x.told = None

LEMMA OneMoves ==
  ASSUME Inv(turn, proc, used), NEW t \in Turns, NEW x, turn' = [turn EXCEPT ![t] = x],
         Moves(turn[t], x)
  PROVE  \A u \in Turns : Moves(turn[u], turn'[u])
<1>1. turn \in [Turns -> TurnState]
  BY InvType
<1>2. turn'[t] = x /\ \A u \in Turns : u # t => turn'[u] = turn[u]
  BY <1>1
<1>3. \A u \in Turns : Moves(turn[u], turn[u])
  BY DEF Moves
<1> QED BY <1>2, <1>3

LEMMA GivenMoves ==
  ASSUME NEW r, NEW x, Given(x), r.phase = "none" \/ (Open(r) /\ ~r.killed /\ r.told = None /\ r.phase # "cold")
  PROVE  Moves(r, x)
<1>1. CASE r.phase = "none"
  BY <1>1 DEF Moves
<1>2. CASE Open(r) /\ x.phase = "bad"
  BY <1>2 DEF Moves, Open
<1>3. CASE Open(r) /\ x.phase # "bad"
  <2>1. Open(x)
    BY <1>3 DEF Given, Open, Settled
  <2> QED BY <1>3, <2>1 DEF Given, Moves, Open
<1> QED BY <1>1, <1>2, <1>3

\* A turn that is finished, interrupted, told or moved on.
LEMMA OwnMoves ==
  ASSUME NEW r \in TurnState, Flagged(r), Open(r)
  PROVE  /\ Moves(r, Ok(r)) /\ Moves(r, Interrupted(r)) /\ Moves(r, OkIfKilled(r))
         /\ ~r.killed => Moves(r, Bad(r))
         /\ r.phase # "cold" => \A ph \in {"preflight", "prompt", "accepted", "refused"} :
              Moves(r, [r EXCEPT !.phase = ph])
         /\ \A s \in Sessions : /\ Moves(r, [r EXCEPT !.told = s])
                               /\ Moves(r, Ok([r EXCEPT !.told = s]))
                               /\ Moves(r, OkIfKilled([r EXCEPT !.told = s]))
         /\ Moves(r, [r EXCEPT !.timer = "final"])
<1>1. ASSUME NEW q \in TurnState PROVE Ok(q).phase = "ok" /\ Bad(q).phase = "bad"
  BY DEF Ok, Bad, SettledAs, TurnState
<1>2. ASSUME NEW q \in TurnState, q.killed = r.killed
      PROVE  Moves(r, Ok(q)) /\ Moves(r, OkIfKilled(q)) /\ (~r.killed => Moves(r, Bad(q)))
  BY <1>1, <1>2 DEF Moves, OkIfKilled
<1>3. ASSUME NEW ph \in {"preflight", "prompt", "accepted", "refused"}, r.phase # "cold"
      PROVE  Moves(r, [r EXCEPT !.phase = ph])
  <2> DEFINE x == [r EXCEPT !.phase = ph]
  <2>1. x.phase = ph /\ x.killed = r.killed /\ x.told = r.told
    BY PhaseIs
  <2> HIDE DEF x
  <2>2. Open(x) /\ x.phase # "cold"
    BY <2>1 DEF Open, Settled
  <2>3. Moves(r, x)
    BY <1>3, <2>1, <2>2 DEF Moves
  <2> QED BY <2>3 DEF x
<1>4. ASSUME NEW s \in Sessions
      PROVE  /\ Moves(r, [r EXCEPT !.told = s]) /\ [r EXCEPT !.told = s] \in TurnState
             /\ [r EXCEPT !.told = s].killed = r.killed
  <2> DEFINE x == [r EXCEPT !.told = s]
  <2>1. x.phase = r.phase /\ x.killed = r.killed /\ x.told = s /\ s # None /\ x \in TurnState
    BY ToldIs, Numbers
  <2> HIDE DEF x
  <2>2. Open(x)
    BY <2>1 DEF Open, Settled
  <2>3. Moves(r, x)
    BY <2>1, <2>2 DEF Moves
  <2> QED BY <2>1, <2>3 DEF x
<1>5. Moves(r, [r EXCEPT !.timer = "final"])
  <2> DEFINE x == [r EXCEPT !.timer = "final"]
  <2>1. x.phase = r.phase /\ x.killed = r.killed /\ x.told = r.told
    BY DEF TurnState
  <2> HIDE DEF x
  <2>2. Open(x)
    BY <2>1 DEF Open, Settled
  <2>3. Moves(r, x)
    BY <2>1, <2>2 DEF Moves
  <2> QED BY <2>3 DEF x
<1>6. Moves(r, Interrupted(r))
  <2> DEFINE y == [r EXCEPT !.killed = TRUE, !.timer = "abort"]
             z == [r EXCEPT !.killed = TRUE]
  <2>1. /\ y.phase = r.phase /\ y.killed /\ y.told = r.told
        /\ z.phase = r.phase /\ z.killed /\ z.told = r.told
    BY DEF TurnState
  <2>2. Interrupted(r) \in {r, Ok(r)} \/ (~r.killed /\ Interrupted(r) \in {y, z})
    BY DEF Interrupted
  <2> HIDE DEF y, z
  <2>3. Open(y) /\ Open(z)
    BY <2>1 DEF Open, Settled
  <2>4. ~r.killed => Moves(r, y) /\ Moves(r, z)
    BY <2>1, <2>3 DEF Moves
  <2>5. Moves(r, r) /\ Moves(r, Ok(r))
    BY <1>2 DEF Moves
  <2> QED BY <2>2, <2>4, <2>5
<1> QED BY <1>2, <1>3, <1>4, <1>5, <1>6

LEMMA NextMoves ==
  ASSUME Inv(turn, proc, used), Next
  PROVE  \A u \in Turns : Moves(turn[u], turn'[u])
<1> DEFINE AllMove == \A u \in Turns : Moves(turn[u], turn'[u])
<1>1. ASSUME NEW t \in Turns PROVE turn[t] \in TurnState /\ Flagged(turn[t])
  BY InvType DEF Inv, Flags
<1>2. ASSUME turn' = turn PROVE AllMove
  BY <1>2 DEF Moves
<1>3. ASSUME NEW t \in Turns, NEW qs, Open(turn[t]),
             \/ Become(t, Ok(turn[t]), qs) \/ Become(t, OkIfKilled(turn[t]), qs)
             \/ ~turn[t].killed /\ Become(t, Bad(turn[t]), qs)
             \/ Become(t, Interrupted(turn[t]), qs)
             \/ Become(t, [turn[t] EXCEPT !.timer = "final"], qs)
             \/ \E s \in Sessions : \/ Become(t, [turn[t] EXCEPT !.told = s], qs)
                                    \/ Become(t, Ok([turn[t] EXCEPT !.told = s]), qs)
             \/ /\ turn[t].phase # "cold"
                /\ \E ph \in {"preflight", "prompt", "accepted", "refused"} :
                     Become(t, [turn[t] EXCEPT !.phase = ph], qs)
      PROVE  AllMove
  <2>1. PICK x : turn' = [turn EXCEPT ![t] = x] /\ Moves(turn[t], x)
    BY <1>1, <1>3, OwnMoves DEF Become
  <2> QED BY <2>1, OneMoves
<1>4. ASSUME NEW t \in Turns, NEW r \in TurnState, ~r.killed, r.told = None, NEW qs,
             \/ turn[t].phase = "none"
             \/ /\ Open(turn[t]) /\ ~turn[t].killed /\ turn[t].told = None
                /\ turn[t].phase # "cold",
             Place(t, r, qs) \/ FallBack(t, r, qs) \/ StartCold(t, r, qs)
      PROVE  AllMove
  <2>1. PICK x : turn' = [turn EXCEPT ![t] = x] /\ Given(x)
    BY ONLY <1>4, GivenOut
  <2>2. Moves(turn[t], x)
    BY <1>4, <2>1, GivenMoves
  <2> QED BY <2>1, <2>2, OneMoves
<1>5. ASSUME NEW t \in Turns, Run(t) PROVE AllMove
  <2>1. PICK th \in Threads, n \in Signatures, s \in Sessions \cup {None} :
          /\ turn[t].phase = "none"
          /\ \/ Become(t, Bad(Asked(th, n, s)), proc)
             \/ \E qs : Place(t, Asked(th, n, s), qs)
    BY <1>5 DEF Run, MayRun, Asked
  <2> DEFINE r == Asked(th, n, s)
  <2>2. r \in TurnState /\ ~r.killed /\ r.told = None
    BY AskedIs
  <2> HIDE DEF r
  <2>3. CASE Become(t, Bad(r), proc)
    <3>1. Given(Bad(r))
      BY <2>2 DEF Given, Bad, SettledAs, TurnState
    <3> QED BY <2>1, <2>3, <3>1, GivenMoves, OneMoves DEF Become
  <2>4. ASSUME NEW qs, Place(t, r, qs) PROVE AllMove
    BY <1>4, <2>1, <2>2, <2>4
  <2> QED BY <2>1, <2>3, <2>4 DEF r
<1>6. ASSUME NEW t \in Turns, turn[t].phase \in {"wait", "coldWait", "queued", "preflight", "prompt"}
      PROVE  /\ Open(turn[t]) /\ turn[t].told = None
             /\ turn[t].phase # "prompt" => ~turn[t].killed
  BY <1>1, <1>6 DEF Open, Settled, Flagged, OnWire
<1>7. ASSUME NEW t \in Turns, Resume(t) PROVE AllMove
  BY <1>1, <1>4, <1>6, <1>7 DEF Resume, MayResume
<1>8. ASSUME NEW t \in Turns, StartTurn(t) PROVE AllMove
  <2>1. turn[t].phase = "queued"
    BY <1>8 DEF StartTurn, MayStart
  <2>2. CASE FallBack(t, turn[t], proc)
    BY <1>1, <1>4, <1>6, <2>1, <2>2
  <2>3. CASE ~FallBack(t, turn[t], proc)
    <3>1. \E qs : Become(t, [turn[t] EXCEPT !.phase = "preflight"], qs)
      BY <1>8, <2>3 DEF StartTurn
    <3> QED BY <1>3, <1>6, <2>1, <3>1
  <2> QED BY <2>2, <2>3
<1>9. ASSUME NEW t \in Turns, Kill(t) PROVE AllMove
  <2>1. turn' = [turn EXCEPT ![t] = Interrupted(turn[t])] /\ Open(turn[t])
    BY <1>9 DEF Kill
  <2> QED BY <1>1, <2>1, OwnMoves, OneMoves
<1>10. ASSUME NEW t \in Turns, Escalate(t) \/ Finalize(t) PROVE AllMove
  <2>1. Open(turn[t])
    BY <1>1, <1>10 DEF Escalate, Finalize, Flagged, OnWire, Open, Settled
  <2> QED BY <1>3, <1>10, <2>1 DEF Escalate, Finalize, Settle
<1>11. ASSUME NEW t \in Turns, ColdInit(t) \/ ColdDone(t) PROVE AllMove
  <2>1. Open(turn[t]) /\ turn[t].on \in Pids
    BY <1>11 DEF ColdInit, ColdDone, Open, Settled, Inv, Seats, Placed
  <2>2. CASE ColdInit(t)
    <3>1. proc[turn[t].on].native \in Sessions
      BY <2>1, <2>2 DEF ColdInit, Inv, Named, Alive
    <3> QED BY <1>3, <2>1, <2>2, <3>1 DEF ColdInit
  <2>3. CASE ColdDone(t)
    BY <1>3, <2>1, <2>3 DEF ColdDone
  <2> QED BY <1>11, <2>2, <2>3
<1>12. ASSUME NEW t \in Turns, NEW p \in Pids, Answers(t, p) PROVE AllMove
  <2>1. CASE Preflight(t, p) \/ PreflightFails(t, p)
    <3>1. turn[t].phase = "preflight"
      BY <2>1 DEF Preflight, PreflightFails, InPhase
    <3> QED BY <1>3, <1>6, <2>1, <3>1 DEF Preflight, PreflightFails, Settle
  <2>2. CASE Unfit(t, p)
    BY <1>2, <2>2 DEF Unfit
  <2>3. CASE Accepted(t, p) \/ Refused(t, p) \/ RefusedBusy(t, p)
    <3>1. turn[t].phase = "prompt"
      BY <2>3 DEF Accepted, Refused, RefusedBusy, InPhase
    <3>2. Open(turn[t]) /\ turn[t].phase # "cold"
      BY <1>6, <3>1
    <3>3. CASE Accepted(t, p)
      BY <1>3, <3>2, <3>3 DEF Accepted
    <3>4. CASE Refused(t, p)
      BY <1>3, <3>2, <3>4 DEF Refused, Settle
    <3>5. CASE RefusedBusy(t, p)
      BY <1>3, <3>2, <3>5 DEF RefusedBusy, Settle
    <3> QED BY <2>3, <3>3, <3>4, <3>5
  <2>4. CASE ProbeIdle(t, p)
    <3>1. /\ Open(turn[t]) /\ proc[p].native \in Sessions
          /\ \E qs : Become(t, Ok([turn[t] EXCEPT !.told = proc[p].native]), qs)
      BY <2>4 DEF ProbeIdle, InPhase, Settle, Open, Settled, Inv, Named, Alive
    <3> QED BY <1>3, <3>1
  <2> QED BY <1>12, <2>1, <2>2, <2>3, <2>4 DEF Answers
<1>13. ASSUME NEW p \in Pids, Streams(p) \/ RunEnds(p) PROVE AllMove
  <2>1. proc[p].native \in Sessions
    BY <1>13 DEF Streams, RunEnds, Inv, Named
  <2>2. ASSUME NEW t \in Turns
        PROVE  \/ turn'[t] = turn[t]
               \/ /\ Open(turn[t])
                  /\ turn'[t] \in {[turn[t] EXCEPT !.told = proc[p].native],
                                   Ok([turn[t] EXCEPT !.told = proc[p].native]),
                                   OkIfKilled([turn[t] EXCEPT !.told = proc[p].native])}
    <3>1. t \in Receivers(p) => Open(turn[t])
      BY DEF Receivers, Listens, Open, Settled
    <3>2. CASE Streams(p)
      BY <3>1, <3>2 DEF Streams
    <3>3. CASE RunEnds(p)
      BY <3>1, <3>3 DEF RunEnds
    <3> QED BY <1>13, <3>2, <3>3
  <2>3. ASSUME NEW t \in Turns PROVE Moves(turn[t], turn'[t])
    <3>1. CASE turn'[t] = turn[t]
      BY <3>1 DEF Moves
    <3>2. CASE turn'[t] # turn[t]
      <4> DEFINE r == turn[t]
                 s == proc[p].native
      <4>1. /\ r \in TurnState /\ Flagged(r) /\ Open(r) /\ s \in Sessions
            /\ turn'[t] \in {[r EXCEPT !.told = s], Ok([r EXCEPT !.told = s]),
                             OkIfKilled([r EXCEPT !.told = s])}
        BY <1>1, <2>1, <2>2, <3>2
      <4> HIDE DEF r, s
      <4>2. /\ Moves(r, [r EXCEPT !.told = s]) /\ Moves(r, Ok([r EXCEPT !.told = s]))
            /\ Moves(r, OkIfKilled([r EXCEPT !.told = s]))
        BY <4>1, OwnMoves
      <4>3. Moves(r, turn'[t])
        BY <4>1, <4>2
      <4> QED BY <4>3 DEF r
    <3> QED BY <3>1, <3>2
  <2> QED BY <2>3
<1>14. ASSUME NEW p \in Pids, Exit(p) PROVE AllMove
  <2> DEFINE t == proc[p].current
             qs == [proc EXCEPT ![p] = Gone]
  <2>1. CASE t = None
    BY <1>2, <1>14, <2>1 DEF Exit
  <2>2. CASE t # None
    <3>1. t \in Turns /\ Running(turn[t])
      BY <2>2 DEF Inv, Seats
    <3>2. Open(turn[t]) /\ turn[t].phase # "cold"
      BY <3>1 DEF Running, Open, Settled
    <3>3. \/ ~turn[t].killed /\ turn[t].told = None /\ FallBack(t, turn[t], qs)
          \/ Become(t, OkIfKilled(turn[t]), qs)
      BY <1>14, <2>2 DEF Exit, MayFallBack
    <3> HIDE DEF t, qs
    <3>4. CASE Become(t, OkIfKilled(turn[t]), qs)
      BY <1>3, <3>1, <3>2, <3>4
    <3>5. CASE ~turn[t].killed /\ turn[t].told = None /\ FallBack(t, turn[t], qs)
      BY <1>1, <1>4, <3>1, <3>2, <3>5
    <3> QED BY <3>3, <3>4, <3>5
  <2> QED BY <2>1, <2>2
<1>15. ASSUME BeginShutdown \/ EndShutdown PROVE AllMove
  <2>1. ASSUME NEW t \in Turns
        PROVE  turn'[t] \in {turn[t], Interrupted(turn[t])}
                 \/ (Waiting(turn[t]) /\ turn'[t] = Bad(turn[t]))
    BY <1>15 DEF BeginShutdown, EndShutdown
  <2>2. ASSUME NEW t \in Turns PROVE Moves(turn[t], turn'[t])
    <3>1. Moves(turn[t], turn[t])
      BY DEF Moves
    <3>2. CASE Open(turn[t])
      BY <1>1, <1>6, <2>1, <3>1, <3>2, OwnMoves DEF Waiting
    <3>3. CASE ~Open(turn[t])
      <4>1. ~Waiting(turn[t]) /\ Interrupted(turn[t]) = turn[t]
        BY <3>3 DEF Waiting, Open, Settled, Interrupted
      <4> QED BY <2>1, <3>1, <4>1
    <3> QED BY <3>2, <3>3
  <2> QED BY <2>2
<1>16. ASSUME NEW p \in Pids, Reap(p) \/ ForeignRun(p) \/ Switch(p) PROVE AllMove
  BY <1>2, <1>16 DEF Reap, ForeignRun, Switch
<1> HIDE DEF AllMove
<1>17. AllMove
  BY <1>5, <1>7, <1>8, <1>9, <1>10, <1>11, <1>12, <1>13, <1>14, <1>15, <1>16
     DEF Next, Events, Process
<1> QED BY <1>17 DEF AllMove

\* Legal(a, b): a turn's handle may go from a to b.
Legal(a, b) ==
  \/ b = a
  \/ /\ a = Contract!Unborn
     /\ b = Contract!Rejected
        \/ \E y \in {"pool", "oneShot"} : b = [Contract!Unborn EXCEPT !.done = "pending", !.by = y]
  \/ /\ a.done = "pending"
     /\ \/ b \in {Contract!Resolved, [a EXCEPT !.output = TRUE]}
        \/ /\ ~a.cancelled
           /\ \/ b \in {Contract!Rejected, [a EXCEPT !.cancelled = TRUE]}
              \/ ~a.output /\ a.by = "pool" /\ b = [a EXCEPT !.by = "oneShot"]

LEMMA SameHandle ==
  ASSUME NEW a \in Contract!Handle, NEW b \in Contract!Handle,
         a.done = b.done, a.cancelled <=> b.cancelled, a.output <=> b.output, a.by = b.by
  PROVE  a = b
<1>1. a.cancelled \in BOOLEAN /\ b.cancelled \in BOOLEAN /\ a.output \in BOOLEAN /\ b.output \in BOOLEAN
  BY DEF Contract!Handle
<1>2. a.cancelled = b.cancelled /\ a.output = b.output
  BY <1>1
<1> QED BY <1>2 DEF Contract!Handle

LEMMA Marks ==
  /\ Contract!Unborn \in Contract!Handle /\ Contract!Resolved \in Contract!Handle
  /\ Contract!Rejected \in Contract!Handle
  /\ Contract!Unborn.done = "unborn" /\ Contract!Resolved.done = "resolved"
  /\ Contract!Rejected.done = "rejected"
  /\ \A a \in {Contract!Unborn, Contract!Resolved, Contract!Rejected} :
       ~a.cancelled /\ ~a.output /\ a.by = "pool"
<1>1. /\ Contract!Unborn \in Contract!Handle /\ Contract!Unborn.done = "unborn"
      /\ ~Contract!Unborn.cancelled /\ ~Contract!Unborn.output /\ Contract!Unborn.by = "pool"
  BY DEF Contract!Handle, Contract!Unborn
<1>2. ASSUME NEW d \in {"resolved", "rejected"}
      PROVE  LET x == [Contract!Unborn EXCEPT !.done = d] IN
             x \in Contract!Handle /\ x.done = d /\ ~x.cancelled /\ ~x.output /\ x.by = "pool"
  BY <1>1 DEF Contract!Handle
<1> QED BY <1>1, <1>2 DEF Contract!Resolved, Contract!Rejected

\* The handle of a turn.
LEMMA Handles ==
  ASSUME NEW r \in TurnState, Flagged(r)
  PROVE  /\ HandleOf(r) \in Contract!Handle
         /\ Open(r) => /\ HandleOf(r).done = "pending" /\ (HandleOf(r).cancelled <=> r.killed)
                       /\ (HandleOf(r).output <=> r.told # None)
                       /\ HandleOf(r).by = IF r.phase = "cold" THEN "oneShot" ELSE "pool"
         /\ r.phase = "none" => HandleOf(r) = Contract!Unborn
         /\ r.phase = "ok" => HandleOf(r) = Contract!Resolved
         /\ r.phase = "bad" => HandleOf(r) = Contract!Rejected
<1> DEFINE h == HandleOf(r)
<1>1. /\ h.done = (CASE r.phase = "none" -> "unborn" [] r.phase = "ok" -> "resolved"
                     [] r.phase = "bad" -> "rejected" [] OTHER -> "pending")
      /\ h.by = IF r.phase = "cold" THEN "oneShot" ELSE "pool"
      /\ h.output = (Open(r) /\ r.told # None) /\ h.cancelled = r.killed
      /\ h = [done |-> h.done, cancelled |-> h.cancelled, output |-> h.output, by |-> h.by]
  BY DEF HandleOf
<1>2. r.killed \in BOOLEAN
  BY DEF TurnState
<1> HIDE DEF h
<1>3. h.done = IF r.phase = "none" THEN "unborn" ELSE IF r.phase = "ok" THEN "resolved"
               ELSE IF r.phase = "bad" THEN "rejected" ELSE "pending"
  BY <1>1
<1>4. h.output \in BOOLEAN /\ h.cancelled \in BOOLEAN
  BY <1>1, <1>2
<1>5. h \in Contract!Handle
  <2>1. ASSUME NEW d \in {"unborn", "pending", "resolved", "rejected"}, NEW c \in BOOLEAN,
               NEW o \in BOOLEAN, NEW y \in {"pool", "oneShot"}
        PROVE  [done |-> d, cancelled |-> c, output |-> o, by |-> y] \in Contract!Handle
    BY DEF Contract!Handle
  <2>2. h.done \in {"unborn", "pending", "resolved", "rejected"} /\ h.by \in {"pool", "oneShot"}
    BY <1>1, <1>3
  <2> QED BY <1>1, <1>4, <2>1, <2>2
<1>6. r.phase \in {"none", "ok", "bad"} => ~h.cancelled /\ ~h.output /\ h.by = "pool"
  BY <1>1 DEF Open, Settled, Flagged, OnWire
<1>7. r.phase = "none" => h = Contract!Unborn
  BY <1>3, <1>5, <1>6, Marks, SameHandle
<1>8. r.phase = "ok" => h = Contract!Resolved
  BY <1>3, <1>5, <1>6, Marks, SameHandle
<1>9. r.phase = "bad" => h = Contract!Rejected
  BY <1>3, <1>5, <1>6, Marks, SameHandle
<1>10. Open(r) => /\ h.done = "pending" /\ (h.cancelled <=> r.killed)
                  /\ (h.output <=> r.told # None)
  BY <1>1, <1>3 DEF Open, Settled
<1> QED BY <1>1, <1>5, <1>7, <1>8, <1>9, <1>10 DEF h

\* What a handle becomes when one part of it changes.
LEMMA HandleChanges ==
  ASSUME NEW a \in Contract!Handle, NEW b \in Contract!Handle, a.done = b.done
  PROVE  /\ (a.cancelled <=> b.cancelled) /\ a.by = b.by /\ b.output =>
              b = [a EXCEPT !.output = TRUE]
         /\ (a.output <=> b.output) /\ a.by = b.by /\ b.cancelled =>
              b = [a EXCEPT !.cancelled = TRUE]
         /\ (a.cancelled <=> b.cancelled) /\ (a.output <=> b.output) /\ b.by = "oneShot" =>
              b = [a EXCEPT !.by = "oneShot"]
<1> DEFINE w == [a EXCEPT !.output = TRUE]
           x == [a EXCEPT !.cancelled = TRUE]
           y == [a EXCEPT !.by = "oneShot"]
<1>1. /\ w \in Contract!Handle /\ w.done = a.done /\ w.cancelled = a.cancelled /\ w.output = TRUE
      /\ w.by = a.by
  BY DEF Contract!Handle
<1>2. /\ x \in Contract!Handle /\ x.done = a.done /\ x.output = a.output /\ x.cancelled = TRUE
      /\ x.by = a.by
  BY DEF Contract!Handle
<1>3. /\ y \in Contract!Handle /\ y.done = a.done /\ y.output = a.output
      /\ y.cancelled = a.cancelled /\ y.by = "oneShot"
  BY DEF Contract!Handle
<1> HIDE DEF w, x, y
<1>4. (a.cancelled <=> b.cancelled) /\ a.by = b.by /\ b.output => b = w
  BY <1>1, SameHandle
<1>5. (a.output <=> b.output) /\ a.by = b.by /\ b.cancelled => b = x
  BY <1>2, SameHandle
<1>6. (a.cancelled <=> b.cancelled) /\ (a.output <=> b.output) /\ b.by = "oneShot" => b = y
  BY <1>3, SameHandle
<1> QED BY <1>4, <1>5, <1>6 DEF w, x, y

LEMMA Pending ==
  ASSUME NEW b \in Contract!Handle, b.done = "pending", ~b.cancelled, ~b.output
  PROVE  b = [Contract!Unborn EXCEPT !.done = "pending", !.by = b.by]
<1> DEFINE z == [Contract!Unborn EXCEPT !.done = "pending", !.by = b.by]
<1>1. z \in Contract!Handle /\ z.done = "pending" /\ ~z.output /\ ~z.cancelled /\ z.by = b.by
  BY DEF Contract!Handle, Contract!Unborn
<1> HIDE DEF z
<1>2. b = z
  BY <1>1, SameHandle
<1> QED BY <1>2 DEF z

LEMMA LegalSteps ==
  ASSUME NEW r \in TurnState, NEW x \in TurnState, Flagged(r), Flagged(x), Moves(r, x)
  PROVE  Legal(HandleOf(r), HandleOf(x))
<1> DEFINE a == HandleOf(r)
           b == HandleOf(x)
<1>1. /\ a \in Contract!Handle /\ b \in Contract!Handle
      /\ Open(r) => /\ a.done = "pending" /\ (a.cancelled <=> r.killed) /\ (a.output <=> r.told # None)
                    /\ a.by = IF r.phase = "cold" THEN "oneShot" ELSE "pool"
      /\ Open(x) => /\ b.done = "pending" /\ (b.cancelled <=> x.killed) /\ (b.output <=> x.told # None)
                    /\ b.by = IF x.phase = "cold" THEN "oneShot" ELSE "pool"
      /\ r.phase = "none" => a = Contract!Unborn
      /\ x.phase = "ok" => b = Contract!Resolved
      /\ x.phase = "bad" => b = Contract!Rejected
      /\ x = r => b = a
  BY Handles
<1> SUFFICES Legal(a, b)
  OBVIOUS
<1> HIDE DEF a, b
<1>3. CASE x = r
  BY <1>1, <1>3 DEF Legal
<1>4. CASE r.phase = "none" /\ Given(x)
  <2>1. CASE x.phase = "bad"
    BY <1>1, <1>4, <2>1 DEF Legal
  <2>2. CASE x.phase # "bad"
    <3>1. Open(x) /\ ~x.killed /\ x.told = None
      BY <1>4, <2>2 DEF Given, Open, Settled
    <3>2. b.done = "pending" /\ ~b.cancelled /\ ~b.output /\ b.by \in {"pool", "oneShot"}
      BY <1>1, <3>1
    <3>3. b = [Contract!Unborn EXCEPT !.done = "pending", !.by = b.by]
      BY <1>1, <3>2, Pending
    <3> QED BY <1>1, <1>4, <3>2, <3>3 DEF Legal
  <2> QED BY <2>1, <2>2
<1>5. CASE Open(r) /\ x.phase = "ok"
  BY <1>1, <1>5 DEF Legal
<1>6. CASE Open(r) /\ ~r.killed /\ x.phase = "bad"
  BY <1>1, <1>6 DEF Legal
<1>7. CASE /\ Open(r) /\ Open(x) /\ (x.phase = "cold" <=> r.phase = "cold")
           /\ \/ (x.killed <=> r.killed) /\ (x.told = r.told \/ x.told # None)
              \/ ~r.killed /\ x.killed /\ x.told = r.told
  <2>1. /\ a.done = "pending" /\ b.done = "pending" /\ a.by = b.by
        /\ (a.cancelled <=> r.killed) /\ (b.cancelled <=> x.killed)
        /\ (a.output <=> r.told # None) /\ (b.output <=> x.told # None)
    BY <1>1, <1>7
  <2>2. CASE (a.cancelled <=> b.cancelled) /\ (a.output <=> b.output)
    BY <1>1, <2>1, <2>2, SameHandle DEF Legal
  <2>3. CASE (a.cancelled <=> b.cancelled) /\ b.output
    <3>1. b = [a EXCEPT !.output = TRUE]
      BY <1>1, <2>1, <2>3, HandleChanges
    <3> QED BY <2>1, <3>1 DEF Legal
  <2>4. CASE ~a.cancelled /\ b.cancelled /\ (a.output <=> b.output)
    <3>1. b = [a EXCEPT !.cancelled = TRUE]
      BY <1>1, <2>1, <2>4, HandleChanges
    <3> QED BY <2>1, <2>4, <3>1 DEF Legal
  <2> QED BY <1>7, <2>1, <2>2, <2>3, <2>4
<1>8. CASE /\ Open(r) /\ ~r.killed /\ r.told = None /\ r.phase # "cold"
           /\ x.phase = "cold" /\ ~x.killed /\ x.told = None
  <2>1. Open(x)
    BY <1>8 DEF Open, Settled
  <2>2. /\ a.done = "pending" /\ b.done = "pending" /\ a.by = "pool" /\ b.by = "oneShot"
        /\ ~a.cancelled /\ ~b.cancelled /\ ~a.output /\ ~b.output
    BY <1>1, <1>8, <2>1
  <2>3. b = [a EXCEPT !.by = "oneShot"]
    BY <1>1, <2>2, HandleChanges
  <2> QED BY <2>2, <2>3 DEF Legal
<1> QED BY <1>3, <1>4, <1>5, <1>6, <1>7, <1>8 DEF Moves

LEMMA ContractStep ==
  ASSUME IInv, IInv', [Next]_vars
  PROVE  [Contract!Next]_[t \in Turns |-> HandleOf(turn[t])]
<1> DEFINE h == [t \in Turns |-> HandleOf(turn[t])]
           g == [t \in Turns |-> HandleOf(turn'[t])]
<1>1. ASSUME NEW t \in Turns
      PROVE  /\ turn[t] \in TurnState /\ turn'[t] \in TurnState
             /\ Flagged(turn[t]) /\ Flagged(turn'[t])
  BY DEF IInv, Inv, Typed, Flags
<1>2. CASE Next
  <2>1. ASSUME NEW t \in Turns PROVE Legal(h[t], g[t])
    <3>1. Moves(turn[t], turn'[t])
      BY <1>2, NextMoves DEF IInv
    <3>2. Legal(HandleOf(turn[t]), HandleOf(turn'[t]))
      BY <1>1, <3>1, LegalSteps
    <3> QED BY <3>2
  <2>2. g \in [Turns -> Contract!Handle]
    BY <1>1, Handles
  <2>3. ASSUME NEW t \in Turns
        PROVE  Contract!Accept(t) \/ Contract!Refuse(t) \/ Contract!Cancel(t)
                 \/ Contract!Output(t) \/ Contract!ExecuteAgain(t) \/ Contract!Resolve(t)
                 \/ Contract!Reject(t) \/ g[t] = h[t]
    <3>1. Contract!Unborn.done = "unborn"
      BY Marks
    <3> QED BY <2>1, <3>1
            DEF Legal, Contract!Accept, Contract!Refuse, Contract!Cancel, Contract!Output,
                Contract!ExecuteAgain, Contract!Resolve, Contract!Reject
  <2> QED BY <2>2, <2>3 DEF Contract!Next
<1>3. CASE UNCHANGED vars
  BY <1>3 DEF vars
<1> QED BY <1>2, <1>3

\* The pool implements the runner contract: done settles once, a stopped turn is
\* never rejected, and only a turn that was told nothing and that nobody stopped
\* is executed again, as a one-shot.
THEOREM KeepsRunnerContract == Spec => KeepsContract
<1>1. Init => Contract!Init
  <2>1. NoTurn \in TurnState /\ NoTurn.phase = "none" /\ Flagged(NoTurn)
    BY DEF NoTurn, TurnState, Flagged
  <2> QED BY <2>1, Handles DEF Init, Contract!Init
<1>2. IInv /\ [Next]_vars => [Contract!Next]_[t \in Turns |-> HandleOf(turn[t])]
  BY StepSafe, ContractStep
<1> QED BY <1>1, <1>2, InvariantHolds, PTL DEF Spec, KeepsContract, Contract!Spec
=============================================================================
