--------------------------- MODULE Scheduler_proofs ---------------------------
(***************************************************************************)
(* A cron occurrence is fired once per record of it that gets lost, for    *)
(* every set of entries, every expression, grace and history of edits,     *)
(* stops, crashes and failed writes; an entry that comes back to a         *)
(* schedule that was not empty starts afresh.  And the search of Cron is right for  *)
(* every calendar whose hours and months are contiguous, every expression  *)
(* and every start.                                                        *)
(***************************************************************************)
EXTENDS Scheduler, Cron, FiniteSetTheorems, WellFoundedInduction, TLAPS

InCron == tick.pc \in {"entry", "cronFire", "write"}

\* The occurrence whose fire() the tick awaits.
Firing(k, o) == tick.pc = "cronFire" /\ k = Min(tick.cron) /\ o = tick.state[k]

\* Nothing is fired before its time, as the tick knows the time.
RanBefore ==
  \A k \in Keys, o \in Times :
    attempts[k][o] > 0 => o <= clock /\ (InCron => o <= tick.now)

\* Between two cron phases the file, during one the tick's copy of it, is
\* ahead of every occurrence that was fired once more than records got lost.
FileCovers ==
  ~InCron => \A k \in Keys, o \in Times :
    file[k] # None /\ o >= file[k] => attempts[k][o] <= lost
TickCovers ==
  InCron => \A k \in Keys, o \in Times :
    tick.state[k] # None /\ o >= tick.state[k] /\ ~Firing(k, o) => attempts[k][o] <= lost

CleanState == tick.pc = "entry" /\ ~tick.dirty => tick.state = file

Books == tick.now <= clock /\ RanBefore /\ FileCovers /\ TickCovers /\ CleanState /\ CronFiresOnce
IInv == TypeOK /\ Books

-----------------------------------------------------------------------------
(* The operators.                                                          *)

LEMMA LeastInstant ==
  ASSUME NEW S \in SUBSET Nat, S # {}
  PROVE  Min(S) \in S /\ \A y \in S : Min(S) <= y
<1>1. PICK x \in S : \A y \in S : ~(<<y, x>> \in OpToRel(<, Nat))
  BY WFMin, NatLessThanWellFounded, Zenon
<1>2. \A y \in S : ~(y < x)
  BY <1>1 DEF OpToRel
<1>3. \A y \in S : x <= y
  BY <1>2
<1> QED BY <1>3 DEF Min

\* The next occurrence is a later one.
LEMMA NextIsLater ==
  ASSUME NEW k \in Keys, NEW t \in Times
  PROVE  /\ NextFireAfter(k, t) \in Times \cup {None}
         /\ NextFireAfter(k, t) # None => NextFireAfter(k, t) > t
<1> DEFINE later == {o \in Occ[k] : o > t}
<1>1. later \in SUBSET Nat /\ later \subseteq Times
  BY SchedulerAssumption DEF Times
<1>2. CASE later = {}
  BY <1>2 DEF NextFireAfter
<1>3. CASE later # {}
  <2>1. Min(later) \in later
    BY <1>1, <1>3, LeastInstant
  <2>2. NextFireAfter(k, t) = Min(later)
    BY <1>3 DEF NextFireAfter
  <2> QED BY <1>1, <2>1, <2>2
<1> QED BY <1>2, <1>3

LEMMA AdvanceIsLater ==
  ASSUME NEW k \in Keys, NEW t \in Times
  PROVE  Advance(k, t) \in Times \cup {Never} /\ Advance(k, t) > t
BY NextIsLater, SchedulerAssumption DEF Advance, Never, Times

LEMMA AdvancedType ==
  ASSUME TypeOK, NEW k \in Keys, NEW pc \in Pcs
  PROVE  /\ Advanced(k, pc) \in Tick
         /\ Advanced(k, pc).pc = pc /\ Advanced(k, pc).dirty
         /\ Advanced(k, pc).now = tick.now
         /\ Advanced(k, pc).state = [tick.state EXCEPT ![k] = Advance(k, tick.now)]
<1>1. tick \in Tick
  BY DEF TypeOK
<1>2. Advance(k, tick.now) \in Times \cup {Never, None}
  BY <1>1, AdvanceIsLater DEF Tick
<1> QED BY <1>1, <1>2 DEF Advanced, Tick, Schedule

LEMMA StateTypes == NoState \in Schedule /\ IdleTick \in Tick /\ NoConfig \in Config
BY SchedulerAssumption DEF NoState, Schedule, IdleTick, Tick, Pcs, NoConfig, Config, Times

-----------------------------------------------------------------------------
(* Type correctness.                                                       *)

LEMMA InitType == Init => TypeOK
<1> SUFFICES ASSUME Init PROVE TypeOK
  OBVIOUS
<1>1. clock \in Times /\ lost \in 0..MaxLost /\ yaml \in Configs \cup {Broken}
  BY SchedulerAssumption DEF Init, Times
<1>2. attempts \in [Keys -> [Times -> Nat]] /\ addedAt \in [Keys -> Times]
  BY SchedulerAssumption DEF Init, Times
<1>3. tick.pc = "idle"
  BY DEF Init, IdleTick
<1> QED BY <1>1, <1>2, <1>3, StateTypes DEF Init, TypeOK

LEMMA EnvironmentType == TypeOK /\ Environment => TypeOK'
<1> SUFFICES ASSUME TypeOK, Environment PROVE TypeOK'
  OBVIOUS
<1>1. CASE Elapse
  BY <1>1, SchedulerAssumption DEF Elapse, TypeOK, Times, host, inbox, history
<1>2. CASE EditYaml
  BY <1>2 DEF EditYaml, TypeOK, host, inbox, history
<1>3. CASE Down
  <2>1. lost' \in 0..MaxLost
    BY <1>3, SchedulerAssumption DEF Down, TypeOK
  <2>2. tick' \in Tick /\ tick'.pc = "idle"
    BY <1>3, StateTypes DEF Down, IdleTick
  <2> QED BY <1>3, <2>1, <2>2 DEF Down, TypeOK, history
<1>4. ASSUME NEW w \in Wakes, WakeOpens(w) \/ WakeCloses(w) \/ WakeCancelled(w) PROVE TypeOK'
  BY <1>4 DEF WakeOpens, WakeCloses, WakeCancelled, TypeOK, host, inbox, history
<1>5. ASSUME NEW w \in Wakes, TurnHandled(w) \/ TurnUnhandled(w) PROVE TypeOK'
  BY <1>5 DEF TurnHandled, TurnUnhandled, TypeOK, host, history
<1> QED BY <1>1, <1>2, <1>3, <1>4, <1>5 DEF Environment

\* Every variable but the tick keeps its type in most steps of the tick.
LEMMA TickType ==
  ASSUME TypeOK, tick' \in Tick, tick'.pc \notin {"cronFire", "shotFire", "unlink"},
         UNCHANGED <<clock, yaml, up, applied, cli, inflight, saved, dispatched, attempts>>,
         UNCHANGED <<file, dir, lastCron, addedAt, lost>>
  PROVE  TypeOK'
BY DEF TypeOK

LEMMA CronType ==
  ASSUME TypeOK, NoCron \/ BeginCron \/ EndCron \/ WriteState \/ WriteFails
  PROVE  TypeOK'
<1>1. tick \in Tick /\ file \in Schedule /\ applied \in Config /\ clock \in Times
  BY DEF TypeOK
<1>2. NoteCronTick => lastCron' \in Config /\ addedAt' \in [Keys -> Times]
  BY DEF NoteCronTick, TypeOK
<1>3. CASE NoCron
  <2>1. tick' \in Tick /\ tick'.pc = "shots"
    BY <1>1, <1>3 DEF NoCron, Tick, Pcs
  <2> QED BY <1>2, <1>3, <2>1 DEF NoCron, TypeOK, inbox, history
<1>4. CASE BeginCron
  <2>1. tick' \in Tick /\ tick'.pc = "entry"
    BY <1>1, <1>4 DEF BeginCron, Tick, Pcs, Config
  <2> QED BY <1>2, <1>4, <2>1 DEF BeginCron, TypeOK, inbox
<1>5. CASE EndCron
  <2> DEFINE kept == [k \in Keys |-> IF k \in applied.keys THEN tick.state[k] ELSE None]
  <2>1. kept \in Schedule
    BY <1>1 DEF Schedule, Tick
  <2>2. \E pc \in {"write", "shots"} : tick' = [tick EXCEPT !.state = kept, !.pc = pc]
    BY <1>5 DEF EndCron
  <2>3. tick' \in Tick /\ tick'.pc \in {"write", "shots"}
    BY <1>1, <2>1, <2>2 DEF Tick, Pcs
  <2> QED BY <1>5, <2>3, TickType DEF EndCron, inbox, history
<1>6. CASE WriteState
  <2>1. tick' \in Tick /\ tick'.pc = "shots" /\ file' \in Schedule
    BY <1>1, <1>6 DEF WriteState, Tick, Pcs
  <2> QED BY <1>6, <2>1 DEF WriteState, TypeOK, inbox, history
<1>7. CASE WriteFails
  <2>1. tick' \in Tick /\ tick'.pc = "shots" /\ lost' \in 0..MaxLost
    BY <1>1, <1>7, SchedulerAssumption DEF WriteFails, TypeOK, Tick, Pcs
  <2> QED BY <1>7, <2>1 DEF WriteFails, TypeOK, inbox, history
<1> QED BY <1>3, <1>4, <1>5, <1>6, <1>7

LEMMA EntryType ==
  ASSUME TypeOK, NEW k \in Keys, SeedEntry(k) \/ PassEntry(k) \/ FireEntry(k) \/ EntryFired(k)
  PROVE  TypeOK'
<1>1. tick \in Tick /\ tick.now \in Times /\ tick.state[k] \in Times \cup {Never, None}
  BY DEF TypeOK, Tick, Schedule
<1>2. CASE SeedEntry(k)
  <2>1. NextFireAfter(k, tick.now) \in Times \cup {None}
    BY <1>1, NextIsLater
  <2>2. tick' \in Tick /\ tick'.pc = "entry"
    BY <1>1, <1>2, <2>1 DEF SeedEntry, AtEntry, Tick, Schedule
  <2> QED BY <1>2, <2>2, TickType DEF SeedEntry, host, inbox, history
<1>3. CASE PassEntry(k)
  <2>1. Advanced(k, "entry") \in Tick /\ Advanced(k, "entry").pc = "entry"
    BY AdvancedType DEF Pcs
  <2>2. tick' \in Tick /\ tick'.pc = "entry"
    BY <1>1, <1>3, <2>1 DEF PassEntry, AtEntry, Tick
  <2> QED BY <1>3, <2>2, TickType DEF PassEntry, inbox, history
<1>4. CASE FireEntry(k)
  <2>1. tick.state[k] \in Times
    BY <1>1, <1>4, SchedulerAssumption DEF FireEntry, decideCronDue, Never, Times
  <2>2. /\ tick' \in Tick /\ tick'.pc = "cronFire"
        /\ tick'.cron = tick.cron /\ tick'.state = tick.state
    BY <1>1, <1>4 DEF FireEntry, Tick, Pcs
  <2>3. tick.cron # {} /\ k = Min(tick.cron)
    BY <1>4 DEF FireEntry, AtEntry
  <2>4. attempts' \in [Keys -> [Times -> Nat]]
    BY <1>4, <2>1 DEF FireEntry, TypeOK
  <2> QED BY <1>4, <2>1, <2>2, <2>3, <2>4 DEF FireEntry, TypeOK, inbox
<1>5. CASE EntryFired(k)
  <2>1. tick' \in Tick /\ tick'.pc = "entry"
    BY <1>5, AdvancedType DEF EntryFired, Pcs
  <2> QED BY <1>5, <2>1, TickType DEF EntryFired, inbox, history
<1> QED BY <1>2, <1>3, <1>4, <1>5

LEMMA ShotsType ==
  ASSUME TypeOK, BeginShots \/ EndShots
  PROVE  TypeOK'
<1>1. tick' \in Tick /\ tick'.pc \in {"idle", "shot"}
  <2>1. clock \in Times /\ IdleTick \in Tick
    BY StateTypes DEF TypeOK
  <2>2. CASE BeginShots
    BY <2>1, <2>2 DEF BeginShots, IdleTick, Tick, Pcs
  <2>3. CASE EndShots
    BY <2>1, <2>3 DEF EndShots, IdleTick
  <2> QED BY <2>2, <2>3
<1> QED BY <1>1, TickType DEF BeginShots, EndShots, inbox, history

LEMMA ShotType ==
  ASSUME TypeOK, NEW w \in Wakes,
         \/ ReadTorn(w) \/ SkipShot(w) \/ DropShot(w) \/ FireShot(w)
         \/ Unlink(w) \/ UnlinkFails(w)
         \/ \E posted \in BOOLEAN : ShotFired(w, posted)
  PROVE  TypeOK'
<1>1. tick \in Tick
  BY DEF TypeOK
<1>2. NextShot(w) \in Tick /\ NextShot(w).pc = "shot"
  BY <1>1 DEF NextShot, Tick, Pcs
<1>3. ASSUME NEW pc \in Pcs
      PROVE  \A t \in {[tick EXCEPT !.pc = pc], [tick EXCEPT !.pc = pc, !.torn = TRUE]} :
               t \in Tick /\ t.pc = pc /\ t.shots = tick.shots
  BY <1>1, <1>3 DEF Tick
<1>4. CASE ReadTorn(w) \/ DropShot(w) \/ FireShot(w)
  <2>1. tick' \in Tick /\ tick'.pc \in {"unlink", "shotFire"} /\ tick'.shots = tick.shots
    <3>1. PICK pc \in {"unlink", "shotFire"} :
            tick' \in {[tick EXCEPT !.pc = pc], [tick EXCEPT !.pc = pc, !.torn = TRUE]}
      BY <1>4 DEF ReadTorn, DropShot, FireShot
    <3>2. pc \in Pcs
      BY DEF Pcs
    <3> QED BY <1>3, <3>1, <3>2
  <2>2. tick.shots # {}
    BY <1>4 DEF ReadTorn, DropShot, FireShot, AtShot
  <2> QED BY <1>4, <2>1, <2>2 DEF ReadTorn, DropShot, FireShot, TypeOK, inbox, history
<1>5. CASE SkipShot(w)
  BY <1>2, <1>5, TickType DEF SkipShot, inbox, history
<1>6. CASE Unlink(w)
  BY <1>2, <1>6 DEF Unlink, TypeOK, inbox, history
<1>7. CASE UnlinkFails(w)
  BY <1>2, <1>7, SchedulerAssumption DEF UnlinkFails, TypeOK, inbox, history
<1>8. ASSUME NEW posted \in BOOLEAN, ShotFired(w, posted) PROVE TypeOK'
  <2>1. tick' \in Tick /\ tick'.pc \in {"shot", "unlink"} /\ (tick'.pc = "unlink" => tick'.shots # {})
    BY <1>1, <1>2, <1>3, <1>8 DEF ShotFired, Tick, TypeOK, Pcs
  <2>2. inflight' \subseteq Wakes /\ dispatched' \subseteq Wakes
    BY <1>8 DEF ShotFired, Fire, TypeOK
  <2> QED BY <1>8, <2>1, <2>2 DEF ShotFired, TypeOK, history
<1> QED BY <1>4, <1>5, <1>6, <1>7, <1>8

LEMMA NextType == TypeOK /\ [Next]_vars => TypeOK'
<1> SUFFICES ASSUME TypeOK, [Next]_vars PROVE TypeOK'
  OBVIOUS
<1>1. CASE Environment
  BY <1>1, EnvironmentType
<1>2. CASE Boot
  <2>1. applied' \in Config
    BY <1>2, SchedulerAssumption DEF Boot, TypeOK
  <2> QED BY <1>2, <2>1 DEF Boot, TypeOK, inbox, history
<1>3. CASE TickStep
  <2>1. CASE MaybeReloadConfig
    <3>1. applied' \in Config
      BY <2>1, SchedulerAssumption DEF MaybeReloadConfig, TypeOK
    <3>2. tick' \in Tick /\ tick'.pc = "cron"
      BY <2>1 DEF MaybeReloadConfig, TypeOK, Tick, Pcs
    <3> QED BY <2>1, <3>1, <3>2 DEF MaybeReloadConfig, TypeOK, inbox, history
  <2> QED BY <1>3, <2>1, CronType, EntryType, ShotsType, ShotType DEF TickStep
<1>4. CASE UNCHANGED vars
  BY <1>4 DEF vars, TypeOK
<1> QED BY <1>1, <1>2, <1>3, <1>4 DEF Next

\* Every variable stays in its type, and a tick that awaits a post or an unlink
\* has the entry or the wake it is at (the loops of #tickCron, #tickOneShots).
THEOREM TypeCorrect == Spec => []TypeOK
BY InitType, NextType, PTL DEF Spec

-----------------------------------------------------------------------------
(* The books.                                                              *)

\* A step that leaves the tick alone.
LEMMA Untouched ==
  ASSUME IInv, TypeOK', UNCHANGED <<tick, file, attempts, lost>>, clock' >= clock
  PROVE  Books'
BY DEF IInv, Books, RanBefore, FileCovers, TickCovers, CleanState, CronFiresOnce, InCron, Firing,
       TypeOK, Tick, Times

\* A step that ends or stays out of the cron phase without a new fire; a step
\* that ends one without saving it is counted.
LEMMA OutOfCron ==
  ASSUME IInv, TypeOK', UNCHANGED <<file, attempts, clock>>,
         tick'.pc \notin {"entry", "cronFire", "write"}, tick'.now <= clock',
         (lost' = lost /\ ~InCron) \/ lost' = lost + 1
  PROVE  Books'
<1>1. lost \in Nat /\ attempts \in [Keys -> [Times -> Nat]]
  BY SchedulerAssumption DEF IInv, TypeOK
<1>2. \A k \in Keys, o \in Times : attempts[k][o] <= lost + 1
  BY <1>1 DEF IInv, Books, CronFiresOnce
<1>3. FileCovers'
  BY <1>1, <1>2 DEF IInv, Books, FileCovers, InCron
<1>4. CronFiresOnce'
  BY <1>1, <1>2 DEF CronFiresOnce
<1> QED BY <1>3, <1>4 DEF IInv, Books, RanBefore, TickCovers, CleanState, InCron

\* A step to the next entry: its own moves past the tick's time or stays.
LEMMA ToNextEntry ==
  ASSUME IInv, TypeOK', NEW k \in Keys, NEW next \in Times \cup {Never, None},
         tick.pc = "entry" \/ (tick.pc = "cronFire" /\ k = Min(tick.cron)),
         next = None \/ next > tick.now,
         tick'.pc = "entry", tick'.now = tick.now,
         tick'.state = [tick.state EXCEPT ![k] = next],
         tick'.dirty \/ (tick.pc = "entry" /\ ~tick.dirty /\ tick'.state = tick.state),
         UNCHANGED <<clock, file, attempts, lost>>
  PROVE  Books'
<1>1. /\ tick.now \in Times /\ tick.state \in Schedule /\ lost \in Nat
      /\ attempts \in [Keys -> [Times -> Nat]]
  BY SchedulerAssumption DEF IInv, TypeOK, Tick
<1>2. InCron /\ InCron'
  BY DEF InCron
<1>3. TickCovers'
  <2> SUFFICES ASSUME NEW q \in Keys, NEW o \in Times, tick'.state[q] # None, o >= tick'.state[q]
               PROVE  attempts[q][o] <= lost
    BY DEF TickCovers
  <2>1. CASE q = k
    <3>1. next > tick.now /\ o >= next /\ next \in Nat
      BY <1>1, <2>1, SchedulerAssumption DEF Schedule, Times, Never
    <3>2. ~(o <= tick.now)
      BY <1>1, <3>1 DEF Times
    <3>3. ~(attempts[q][o] > 0)
      BY <1>2, <3>2 DEF IInv, Books, RanBefore
    <3> QED BY <1>1, <3>3
  <2>2. CASE q # k
    <3>1. tick'.state[q] = tick.state[q]
      BY <1>1, <2>2 DEF Schedule
    <3>2. ~Firing(q, o)
      BY <2>2 DEF Firing
    <3> QED BY <1>2, <3>1, <3>2 DEF IInv, Books, TickCovers
  <2> QED BY <2>1, <2>2
<1>4. CleanState'
  BY DEF CleanState, IInv, Books
<1> QED BY <1>2, <1>3, <1>4 DEF IInv, Books, RanBefore, FileCovers, CronFiresOnce

LEMMA EnvironmentBooks == IInv /\ TypeOK' /\ Environment => Books'
<1> SUFFICES ASSUME IInv, TypeOK', Environment PROVE Books'
  OBVIOUS
<1>0. clock \in Nat
  BY DEF IInv, TypeOK, Times
<1>1. CASE Elapse
  BY <1>0, <1>1, Untouched DEF Elapse, host, history
<1>2. CASE EditYaml
  BY <1>0, <1>2, Untouched DEF EditYaml, host, history
<1>3. CASE Down
  <2>1. tick'.pc = "idle" /\ tick'.now = 0
    BY <1>3 DEF Down, IdleTick
  <2>2. (lost' = lost /\ ~InCron) \/ lost' = lost + 1
    BY <1>3 DEF Down, InCron
  <2> QED BY <1>0, <1>3, <2>1, <2>2, OutOfCron DEF Down, history
<1>4. ASSUME NEW w \in Wakes, WakeOpens(w) \/ WakeCloses(w) \/ WakeCancelled(w) PROVE Books'
  BY <1>0, <1>4, Untouched DEF WakeOpens, WakeCloses, WakeCancelled, host, history
<1>5. ASSUME NEW w \in Wakes, TurnHandled(w) \/ TurnUnhandled(w) PROVE Books'
  BY <1>0, <1>5, Untouched DEF TurnHandled, TurnUnhandled, host, history
<1> QED BY <1>1, <1>2, <1>3, <1>4, <1>5 DEF Environment

LEMMA CronBooks ==
  ASSUME IInv, TypeOK', NoCron \/ BeginCron \/ EndCron \/ WriteState \/ WriteFails
  PROVE  Books'
<1>1. /\ tick \in Tick /\ clock \in Nat /\ tick.now <= clock /\ lost \in Nat
      /\ file \in Schedule /\ attempts \in [Keys -> [Times -> Nat]]
  BY SchedulerAssumption DEF IInv, Books, TypeOK, Times
<1>2. CASE NoCron
  <2>1. tick'.pc = "shots" /\ tick'.now = tick.now /\ ~InCron
    BY <1>1, <1>2 DEF NoCron, InCron, Tick
  <2> QED BY <1>1, <1>2, <2>1, OutOfCron DEF NoCron, history
<1>3. CASE BeginCron
  <2>1. tick'.pc = "entry" /\ tick'.now = clock /\ tick'.state = file /\ ~tick'.dirty /\ ~InCron
    BY <1>1, <1>3 DEF BeginCron, InCron, Tick
  <2> QED BY <1>1, <1>3, <2>1
       DEF BeginCron, IInv, Books, RanBefore, FileCovers, TickCovers, CleanState, CronFiresOnce, InCron
<1>4. CASE EndCron
  <2> DEFINE kept == [k \in Keys |-> IF k \in applied.keys THEN tick.state[k] ELSE None]
             dirty == tick.dirty \/ kept # tick.state
  <2>1. /\ tick.pc = "entry" /\ UNCHANGED <<clock, file, attempts, lost>>
        /\ tick' = [tick EXCEPT !.state = kept, !.pc = IF dirty THEN "write" ELSE "shots"]
    BY <1>4 DEF EndCron, history
  <2>2. /\ tick'.pc = (IF dirty THEN "write" ELSE "shots") /\ tick'.now = tick.now
        /\ tick'.state = kept
    BY <1>1, <2>1 DEF Tick
  <2>3. \A k \in Keys, o \in Times : kept[k] # None /\ o >= kept[k] => attempts[k][o] <= lost
    BY <2>1 DEF IInv, Books, TickCovers, InCron, Firing
  <2>4. CASE dirty
    <3>1. TickCovers'
      BY <2>1, <2>2, <2>3 DEF TickCovers
    <3> QED BY <1>1, <2>1, <2>2, <2>4, <3>1
         DEF IInv, Books, RanBefore, FileCovers, CleanState, CronFiresOnce, InCron
  <2>5. CASE ~dirty
    <3>1. file = kept
      BY <2>1, <2>5 DEF IInv, Books, CleanState
    <3>2. FileCovers'
      BY <2>1, <2>3, <3>1 DEF FileCovers
    <3> QED BY <1>1, <2>1, <2>2, <2>5, <3>2
         DEF IInv, Books, RanBefore, TickCovers, CleanState, CronFiresOnce, InCron
  <2> QED BY <2>4, <2>5
<1>5. CASE WriteState
  <2>1. /\ tick.pc = "write" /\ tick'.pc = "shots" /\ tick'.now = tick.now /\ file' = tick.state
        /\ UNCHANGED <<clock, attempts, lost>>
    BY <1>1, <1>5 DEF WriteState, history, Tick
  <2>2. FileCovers'
    BY <2>1 DEF IInv, Books, TickCovers, FileCovers, InCron, Firing
  <2> QED BY <1>1, <2>1, <2>2
       DEF IInv, Books, RanBefore, TickCovers, CleanState, CronFiresOnce, InCron
<1>6. CASE WriteFails
  <2>1. tick'.pc = "shots" /\ tick'.now = tick.now
    BY <1>1, <1>6 DEF WriteFails, Tick
  <2> QED BY <1>1, <1>6, <2>1, OutOfCron DEF WriteFails, history
<1> QED BY <1>2, <1>3, <1>4, <1>5, <1>6

LEMMA EntryBooks ==
  ASSUME IInv, TypeOK', NEW k \in Keys,
         SeedEntry(k) \/ PassEntry(k) \/ FireEntry(k) \/ EntryFired(k)
  PROVE  Books'
<1>1. /\ tick \in Tick /\ tick.now \in Times /\ tick.state \in Schedule /\ TypeOK
      /\ tick.state[k] \in Times \cup {Never, None}
      /\ lost \in Nat /\ attempts \in [Keys -> [Times -> Nat]]
  BY SchedulerAssumption DEF IInv, TypeOK, Tick, Schedule
<1>2. CASE SeedEntry(k)
  <2> DEFINE next == NextFireAfter(k, tick.now)
  <2>1. next \in Times \cup {Never, None} /\ (next = None \/ next > tick.now)
    BY <1>1, NextIsLater
  <2>2. /\ tick.pc = "entry" /\ tick.state[k] = None
        /\ tick' = [tick EXCEPT !.cron = @ \ {k}, !.state[k] = next, !.dirty = @ \/ next # None]
        /\ UNCHANGED <<clock, file, attempts, lost>>
    BY <1>2 DEF SeedEntry, AtEntry, history
  <2>3. /\ tick'.pc = "entry" /\ tick'.now = tick.now
        /\ tick'.state = [tick.state EXCEPT ![k] = next]
        /\ tick'.dirty = (tick.dirty \/ next # None)
    BY <1>1, <2>2 DEF Tick
  <2>4. next = None => tick'.state = tick.state
    BY <1>1, <2>2, <2>3 DEF Schedule
  <2>5. tick'.dirty \/ (tick.pc = "entry" /\ ~tick.dirty /\ tick'.state = tick.state)
    BY <2>2, <2>3, <2>4
  <2>6. tick.pc = "entry" \/ (tick.pc = "cronFire" /\ k = Min(tick.cron))
    BY <2>2
  <2> HIDE DEF next
  <2> QED BY <2>1, <2>2, <2>3, <2>5, <2>6, ToNextEntry
<1>3. CASE PassEntry(k)
  <2>1. tick.pc = "entry" /\ UNCHANGED <<clock, file, attempts, lost>>
    BY <1>3 DEF PassEntry, AtEntry, history
  <2>2. CASE tick' = [tick EXCEPT !.cron = @ \ {k}]
    <3>1. /\ tick'.pc = "entry" /\ tick'.now = tick.now /\ tick'.state = tick.state
          /\ tick'.dirty = tick.dirty
      BY <1>1, <2>1, <2>2 DEF Tick
    <3>2. \A q \in Keys, o \in Times : ~Firing(q, o)
      BY <2>1 DEF Firing
    <3> QED BY <2>1, <3>1, <3>2
         DEF IInv, Books, RanBefore, FileCovers, TickCovers, CleanState, CronFiresOnce, InCron
  <2>3. CASE tick' = Advanced(k, "entry")
    <3>1. Advance(k, tick.now) \in Times \cup {Never, None} /\ Advance(k, tick.now) > tick.now
      BY <1>1, AdvanceIsLater
    <3>2. /\ tick'.pc = "entry" /\ tick'.now = tick.now /\ tick'.dirty
          /\ tick'.state = [tick.state EXCEPT ![k] = Advance(k, tick.now)]
      BY <1>1, <2>3, AdvancedType DEF Pcs
    <3>3. tick.pc = "entry" \/ (tick.pc = "cronFire" /\ k = Min(tick.cron))
      BY <2>1
    <3> QED BY <2>1, <3>1, <3>2, <3>3, ToNextEntry
  <2> QED BY <1>3, <2>2, <2>3 DEF PassEntry
<1>4. CASE FireEntry(k)
  <2> DEFINE due == tick.state[k]
  <2>1. /\ tick.pc = "entry" /\ k = Min(tick.cron) /\ UNCHANGED <<clock, file, lost>>
        /\ tick' = [tick EXCEPT !.pc = "cronFire"]
        /\ attempts' = [attempts EXCEPT ![k][due] = @ + 1]
    BY <1>4 DEF FireEntry, AtEntry
  <2>2. /\ tick'.pc = "cronFire" /\ tick'.now = tick.now /\ tick'.state = tick.state
        /\ tick'.cron = tick.cron
    BY <1>1, <2>1 DEF Tick
  <2>3. due \in Times /\ due <= tick.now /\ due # None
    BY <1>1, <1>4, SchedulerAssumption DEF FireEntry, decideCronDue, Never, Times
  <2>4. \A q \in Keys, o \in Times :
          attempts'[q][o] = IF q = k /\ o = due THEN attempts[q][o] + 1 ELSE attempts[q][o]
    BY <1>1, <2>1, <2>3
  <2>5. attempts[k][due] <= lost
    BY <2>1, <2>3 DEF IInv, Books, TickCovers, InCron, Firing, Times
  <2>6. CronFiresOnce'
    BY <1>1, <2>1, <2>4, <2>5 DEF IInv, Books, CronFiresOnce
  <2>7. TickCovers'
    BY <2>1, <2>2, <2>4 DEF IInv, Books, TickCovers, Firing, InCron
  <2>8. RanBefore' /\ tick'.now <= clock'
    <3>1. tick.now <= clock /\ clock' = clock /\ clock \in Nat /\ InCron
      BY <2>1 DEF IInv, Books, InCron, TypeOK, Times
    <3>2. ASSUME NEW q \in Keys, NEW o \in Times, attempts'[q][o] > 0 PROVE o <= tick.now
      BY <2>3, <2>4, <3>1, <3>2 DEF IInv, Books, RanBefore
    <3>3. \A o \in Times : o <= tick.now => o <= clock
      BY <1>1, <3>1 DEF Times
    <3> QED BY <2>2, <3>1, <3>2, <3>3 DEF RanBefore
  <2>9. FileCovers' /\ CleanState'
    BY <2>2 DEF FileCovers, CleanState, InCron
  <2> QED BY <2>6, <2>7, <2>8, <2>9 DEF Books
<1>5. CASE EntryFired(k)
  <2>1. tick.pc = "cronFire" /\ k = Min(tick.cron) /\ UNCHANGED <<clock, file, attempts, lost>>
    BY <1>5 DEF EntryFired, history
  <2>2. Advance(k, tick.now) \in Times \cup {Never, None} /\ Advance(k, tick.now) > tick.now
    BY <1>1, AdvanceIsLater
  <2>3. tick' = Advanced(k, "entry")
    BY <1>5 DEF EntryFired
  <2> QED BY <1>1, <2>1, <2>2, <2>3, AdvancedType, ToNextEntry DEF Pcs
<1> QED BY <1>2, <1>3, <1>4, <1>5

LEMMA ShotBooks ==
  ASSUME IInv, TypeOK',
         \/ BeginShots \/ EndShots
         \/ \E w \in Wakes :
              \/ ReadTorn(w) \/ SkipShot(w) \/ DropShot(w) \/ FireShot(w)
              \/ Unlink(w) \/ UnlinkFails(w) \/ \E posted \in BOOLEAN : ShotFired(w, posted)
  PROVE  Books'
<1>1. tick \in Tick /\ clock \in Nat /\ tick.now <= clock
  BY DEF IInv, Books, TypeOK, Times
<1>2. \A w : NextShot(w).pc = "shot" /\ NextShot(w).now = tick.now
  BY <1>1 DEF NextShot, Tick
<1>3. /\ ~InCron /\ UNCHANGED <<file, attempts, clock>>
      /\ lost' = lost \/ lost' = lost + 1
  BY DEF InCron, BeginShots, EndShots, ReadTorn, SkipShot, DropShot, FireShot, AtShot, Unlink,
         UnlinkFails, ShotFired, history
<1>4. tick'.pc \in {"idle", "shot", "shotFire", "unlink"} /\ tick'.now <= clock
  <2>1. CASE BeginShots \/ EndShots
    <3>1. CASE tick' = IdleTick
      BY <1>1, <3>1 DEF IdleTick
    <3>2. CASE \E files \in SUBSET Wakes :
                 tick' = [IdleTick EXCEPT !.pc = "shot", !.now = clock, !.shots = files]
      <4>1. tick'.pc = "shot" /\ tick'.now = clock
        BY <3>2 DEF IdleTick
      <4> QED BY <1>1, <4>1
    <3>3. CASE BeginShots
      <4> DEFINE files == {w \in Wakes : dir[w] # "none"}
      <4>1. \/ tick' = IdleTick
            \/ tick' = [IdleTick EXCEPT !.pc = "shot", !.now = clock, !.shots = files]
        BY <3>3 DEF BeginShots
      <4>2. files \in SUBSET Wakes
        OBVIOUS
      <4> HIDE DEF files
      <4> QED BY <3>1, <3>2, <4>1, <4>2
    <3> QED BY <2>1, <3>1, <3>3 DEF EndShots
  <2>2. ASSUME NEW w \in Wakes, SkipShot(w) \/ Unlink(w) \/ UnlinkFails(w)
        PROVE  tick'.pc = "shot" /\ tick'.now <= clock
    BY <1>1, <1>2, <2>2 DEF SkipShot, Unlink, UnlinkFails
  <2>3. ASSUME NEW w \in Wakes, ReadTorn(w) \/ DropShot(w) \/ FireShot(w)
        PROVE  tick'.pc \in {"shotFire", "unlink"} /\ tick'.now <= clock
    BY <1>1, <2>3 DEF ReadTorn, DropShot, FireShot, Tick
  <2>4. ASSUME NEW w \in Wakes, NEW posted \in BOOLEAN, ShotFired(w, posted)
        PROVE  tick'.pc \in {"shot", "unlink"} /\ tick'.now <= clock
    BY <1>1, <1>2, <2>4 DEF ShotFired, Tick
  <2> QED BY <2>1, <2>2, <2>3, <2>4
<1> QED BY <1>3, <1>4, OutOfCron

LEMMA InitInv == Init => IInv
<1> SUFFICES ASSUME Init PROVE Books
  BY InitType DEF IInv
<1>1. tick.pc = "idle" /\ tick.now = 0
  BY DEF Init, IdleTick
<1> QED BY <1>1, SchedulerAssumption
     DEF Init, Books, RanBefore, FileCovers, TickCovers, CleanState, CronFiresOnce, InCron, NoState

LEMMA NextInv == IInv /\ [Next]_vars => IInv'
<1> SUFFICES ASSUME IInv, [Next]_vars PROVE Books'
  BY NextType DEF IInv
<1>0. TypeOK'
  BY NextType DEF IInv
<1>1. CASE Environment
  BY <1>0, <1>1, EnvironmentBooks
<1>2. CASE Boot \/ UNCHANGED vars
  <2>1. clock' = clock /\ clock \in Nat
    BY <1>2 DEF Boot, vars, IInv, TypeOK, Times
  <2> QED BY <1>0, <1>2, <2>1, Untouched DEF Boot, vars, history
<1>3. CASE TickStep
  <2>1. CASE MaybeReloadConfig
    <3>1. tick'.pc = "cron" /\ tick'.now = tick.now /\ ~InCron /\ tick.now <= clock
      BY <2>1 DEF MaybeReloadConfig, InCron, IInv, Books, TypeOK, Tick
    <3> QED BY <1>0, <2>1, <3>1, OutOfCron DEF MaybeReloadConfig, history
  <2> QED BY <1>0, <1>3, <2>1, CronBooks, EntryBooks, ShotBooks DEF TickStep
<1> QED BY <1>1, <1>2, <1>3 DEF Next

\* A cron occurrence is fired once, and again only once for each crash inside a
\* tick or failed write: each loses the fire state of its own tick alone
\* (#tickCron decides every entry with one `now` and saves after all of them).
THEOREM FiredOncePerRecord == Spec => []CronFiresOnce
<1>1. IInv => CronFiresOnce
  BY DEF IInv, Books
<1> QED BY <1>1, InitInv, NextInv, PTL DEF Spec
-----------------------------------------------------------------------------
(* Entries that come and go.                                               *)

\* A tick works on the entries it noted, and those were not noted later.
Noted ==
  /\ tick.pc # "idle" => up
  /\ \A k \in Keys : addedAt[k] <= clock /\ (InCron => addedAt[k] <= tick.now)
  /\ InCron => lastCron = applied /\ tick.cron \subseteq applied.keys

\* Unless a record was lost, what is recorded of an entry is later than its
\* arrival, and nothing is recorded of one that has left.
Recorded(k) == IF InCron THEN tick.state[k] ELSE file[k]
Timely ==
  lost = 0 => \A k \in Keys :
    /\ k \in lastCron.keys /\ Recorded(k) # None => Recorded(k) > addedAt[k]
    /\ k \notin lastCron.keys /\ tick.pc \notin {"entry", "cronFire"} => Recorded(k) = None

LEMMA SameRecords ==
  ASSUME TypeOK, Noted, Timely, UNCHANGED <<tick, file, lastCron, addedAt, lost>>,
         clock' >= clock, clock' \in Nat,
         (up' = up /\ applied' = applied) \/ (up' /\ tick.pc = "idle")
  PROVE  Noted' /\ Timely'
<1>1. clock \in Nat /\ \A k \in Keys : addedAt[k] \in Nat
  BY DEF TypeOK, Times
<1>2. Noted'
  BY <1>1 DEF Noted, InCron
<1>3. Timely'
  BY DEF Timely, Recorded, InCron
<1> QED BY <1>2, <1>3

\* A step outside the cron phase that leaves the records alone.
LEMMA OutsideRecords ==
  ASSUME TypeOK, Noted, Timely, UNCHANGED <<clock, lastCron, addedAt, file>>,
         tick'.pc \notin {"entry", "cronFire", "write"},
         ~InCron \/ lost' # 0, lost' = 0 => lost = 0,
         tick'.pc # "idle" => up'
  PROVE  Noted' /\ Timely'
<1>1. Noted'
  BY DEF Noted, InCron
<1>2. Timely'
  BY DEF Timely, Recorded, InCron
<1> QED BY <1>1, <1>2

LEMMA EntryRecords ==
  ASSUME TypeOK, Noted, Timely, NEW k \in Keys, NEW next \in Times \cup {Never, None},
         tick.pc = "entry" \/ (tick.pc = "cronFire" /\ k = Min(tick.cron)),
         next = None \/ next > tick.now, k \in tick.cron,
         tick'.pc = "entry", tick'.now = tick.now, tick'.cron \subseteq tick.cron,
         tick'.state = [tick.state EXCEPT ![k] = next],
         UNCHANGED <<clock, up, applied, file, lastCron, addedAt, lost>>
  PROVE  Noted' /\ Timely'
<1>1. /\ tick.now \in Nat /\ tick.state \in Schedule /\ InCron /\ InCron'
      /\ \A q \in Keys : addedAt[q] \in Nat
  BY DEF TypeOK, Tick, InCron, Times
<1>2. Noted'
  BY <1>1 DEF Noted
<1>3. ASSUME NEW q \in Keys, q \in lastCron.keys, lost = 0, tick'.state[q] # None
      PROVE  tick'.state[q] > addedAt[q]
  <2>1. CASE q = k
    <3>1. tick'.state[q] = next /\ next \in Nat
      BY <1>1, <1>3, <2>1, SchedulerAssumption DEF Schedule, Times, Never
    <3>2. addedAt[q] <= tick.now /\ next > tick.now
      BY <1>1, <1>3, <3>1 DEF Noted
    <3> QED BY <1>1, <3>1, <3>2
  <2>2. CASE q # k
    <3>1. tick'.state[q] = tick.state[q]
      BY <1>1, <2>2 DEF Schedule
    <3> QED BY <1>1, <1>3, <3>1 DEF Timely, Recorded
  <2> QED BY <2>1, <2>2
<1>4. Timely'
  BY <1>1, <1>3 DEF Timely, Recorded
<1> QED BY <1>2, <1>4

LEMMA BeginRecords ==
  ASSUME IInv, Noted, Timely, NoCron \/ BeginCron
  PROVE  Noted' /\ Timely'
<1>1. CASE NoCron
  <2>1. /\ tick \in Tick /\ TypeOK
    BY DEF IInv, TypeOK
  <2>2. /\ tick.pc = "cron" /\ tick'.pc = "shots"
        /\ UNCHANGED <<clock, lastCron, addedAt, file, up, lost>>
    BY <1>1, <2>1 DEF NoCron, history, Tick
  <2> QED BY <2>1, <2>2, OutsideRecords DEF Noted, InCron
<1>0. SUFFICES ASSUME BeginCron PROVE Noted' /\ Timely'
  BY <1>1
<1>2. /\ tick \in Tick /\ clock \in Nat /\ file \in Schedule /\ applied \in Config
      /\ addedAt \in [Keys -> Times]
  BY DEF IInv, TypeOK, Times
<1>3. /\ tick.pc = "cron" /\ tick'.pc = "entry" /\ tick'.now = clock /\ tick'.state = file
      /\ tick'.cron = applied.keys /\ lastCron' = applied /\ UNCHANGED <<clock, up, applied, file, lost>>
      /\ addedAt' = [k \in Keys |-> IF k \in applied.keys \ lastCron.keys THEN clock ELSE addedAt[k]]
  BY <1>0, <1>2 DEF BeginCron, NoteCronTick, Tick
<1>4. \A k \in Keys : addedAt'[k] <= clock
  BY <1>2, <1>3 DEF Noted, Times
<1>5. Noted'
  BY <1>3, <1>4 DEF Noted, InCron
<1>6. ASSUME NEW k \in Keys, k \in lastCron'.keys, lost = 0, tick'.state[k] # None
      PROVE  tick'.state[k] > addedAt'[k]
  <2>1. k \in lastCron.keys
    BY <1>3, <1>6 DEF Timely, Recorded, InCron
  <2> QED BY <1>3, <1>6, <2>1 DEF Timely, Recorded, InCron
<1>7. Timely'
  BY <1>3, <1>6 DEF Timely, Recorded, InCron
<1> QED BY <1>5, <1>7

LEMMA EndRecords ==
  ASSUME IInv, Noted, Timely, EndCron \/ WriteState
  PROVE  Noted' /\ Timely'
<1>1. tick \in Tick /\ file \in Schedule /\ InCron
  BY DEF IInv, TypeOK, EndCron, WriteState, InCron
<1>2. UNCHANGED <<clock, up, applied, lastCron, addedAt, lost>>
  BY DEF EndCron, WriteState, history
<1>3. lastCron = applied
  BY <1>1 DEF Noted
<1>4. tick'.pc \in {"write", "shots"} /\ tick'.now = tick.now /\ tick'.cron = tick.cron
  BY <1>1 DEF EndCron, WriteState, Tick
<1>5. Noted'
  BY <1>1, <1>2, <1>4 DEF Noted, InCron
<1>6. CASE WriteState
  <2>1. tick.pc = "write" /\ tick'.pc = "shots" /\ file' = tick.state
    BY <1>1, <1>6 DEF WriteState, Tick
  <2>2. Timely'
    BY <1>2, <2>1 DEF Timely, Recorded, InCron
  <2> QED BY <1>5, <2>2
<1>7. CASE EndCron
  <2> DEFINE kept == [k \in Keys |-> IF k \in applied.keys THEN tick.state[k] ELSE None]
             dirty == tick.dirty \/ kept # tick.state
  <2>1. /\ tick.pc = "entry" /\ file' = file
        /\ tick' = [tick EXCEPT !.state = kept, !.pc = IF dirty THEN "write" ELSE "shots"]
    BY <1>7 DEF EndCron
  <2>2. tick'.state = kept /\ tick'.pc = (IF dirty THEN "write" ELSE "shots")
    BY <1>1, <2>1 DEF Tick
  <2>3. ~dirty => file = kept
    BY <2>1 DEF IInv, Books, CleanState
  <2>4. \A k \in Keys : Recorded(k)' = kept[k]
    BY <2>1, <2>2, <2>3 DEF Recorded, InCron
  <2>5. \A k \in Keys : kept[k] = IF k \in lastCron.keys THEN tick.state[k] ELSE None
    BY <1>3
  <2>6. \A k \in Keys : Recorded(k) = tick.state[k]
    BY <1>1 DEF Recorded
  <2> HIDE DEF kept
  <2>7. Timely'
    BY <1>2, <2>4, <2>5, <2>6 DEF Timely
  <2> QED BY <1>5, <2>7
<1> QED BY <1>6, <1>7

LEMMA KeyRecords ==
  ASSUME IInv, Noted, Timely, NEW k \in Keys,
         SeedEntry(k) \/ PassEntry(k) \/ FireEntry(k) \/ EntryFired(k)
  PROVE  Noted' /\ Timely'
<1>1. /\ tick \in Tick /\ tick.now \in Times /\ tick.state \in Schedule /\ TypeOK
      /\ tick.cron \in SUBSET Nat
      /\ UNCHANGED <<clock, up, applied, file, lastCron, addedAt, lost>>
  BY SchedulerAssumption DEF IInv, TypeOK, Tick, SeedEntry, PassEntry, FireEntry, EntryFired, history
<1>2. k \in tick.cron /\ (tick.pc = "entry" \/ (tick.pc = "cronFire" /\ k = Min(tick.cron)))
  <2>1. tick.cron # {} /\ k = Min(tick.cron)
    BY DEF SeedEntry, PassEntry, FireEntry, EntryFired, AtEntry, IInv, TypeOK
  <2> QED BY <1>1, <2>1, LeastInstant DEF SeedEntry, PassEntry, FireEntry, EntryFired, AtEntry
<1>3. CASE SeedEntry(k)
  <2> DEFINE next == NextFireAfter(k, tick.now)
  <2>1. next \in Times \cup {None} /\ (next # None => next > tick.now)
    BY <1>1, NextIsLater
  <2>2. /\ tick'.pc = "entry" /\ tick'.now = tick.now /\ tick'.cron \subseteq tick.cron
        /\ tick'.state = [tick.state EXCEPT ![k] = next]
    BY <1>1, <1>3 DEF SeedEntry, AtEntry, Tick
  <2> HIDE DEF next
  <2> QED BY <1>1, <1>2, <2>1, <2>2, EntryRecords
<1>4. ASSUME tick' = Advanced(k, "entry") PROVE Noted' /\ Timely'
  <2>1. Advance(k, tick.now) \in Times \cup {Never} /\ Advance(k, tick.now) > tick.now
    BY <1>1, AdvanceIsLater
  <2>2. /\ tick'.pc = "entry" /\ tick'.now = tick.now /\ tick'.cron \subseteq tick.cron
        /\ tick'.state = [tick.state EXCEPT ![k] = Advance(k, tick.now)]
    BY <1>1, <1>4 DEF Advanced, Tick
  <2> QED BY <1>1, <1>2, <2>1, <2>2, EntryRecords
<1>5. CASE FireEntry(k) \/ (tick' = [tick EXCEPT !.cron = @ \ {k}] /\ tick.pc = "entry")
  <2>1. /\ tick'.state = tick.state /\ tick'.now = tick.now /\ tick'.cron \subseteq tick.cron
        /\ tick.pc = "entry" /\ tick'.pc \in {"entry", "cronFire"}
    BY <1>1, <1>5 DEF FireEntry, AtEntry, Tick
  <2>2. Noted'
    BY <1>1, <2>1 DEF Noted, InCron
  <2>3. Timely'
    BY <1>1, <2>1 DEF Timely, Recorded, InCron
  <2> QED BY <2>2, <2>3
<1> QED BY <1>3, <1>4, <1>5 DEF PassEntry, EntryFired, AtEntry

LEMMA ShotsRecords ==
  ASSUME IInv, Noted, Timely,
         \/ BeginShots \/ EndShots \/ MaybeReloadConfig
         \/ \E w \in Wakes : ReadTorn(w) \/ SkipShot(w) \/ DropShot(w) \/ FireShot(w)
         \/ \E w \in Wakes : Unlink(w) \/ UnlinkFails(w)
         \/ \E w \in Wakes, posted \in BOOLEAN : ShotFired(w, posted)
  PROVE  Noted' /\ Timely'
<1>1. TypeOK /\ tick \in Tick /\ lost \in Nat /\ yaml \in Configs \cup {Broken}
  BY SchedulerAssumption DEF IInv, TypeOK
<1>2. CASE BeginShots \/ EndShots
  <2>1. /\ ~InCron /\ tick.pc # "idle"
        /\ UNCHANGED <<clock, lastCron, addedAt, file, up, applied, lost>>
    BY <1>2 DEF BeginShots, EndShots, InCron, history
  <2>2. ASSUME BeginShots PROVE tick'.pc \in {"idle", "shot"}
    <3> DEFINE files == {w \in Wakes : dir[w] # "none"}
    <3>1. tick' = IdleTick \/ tick' = [IdleTick EXCEPT !.pc = "shot", !.now = clock, !.shots = files]
      BY <2>2 DEF BeginShots
    <3> HIDE DEF files
    <3>2. /\ IdleTick.pc = "idle"
          /\ \A t, S : [IdleTick EXCEPT !.pc = "shot", !.now = t, !.shots = S].pc = "shot"
      BY DEF IdleTick
    <3>3. [IdleTick EXCEPT !.pc = "shot", !.now = clock, !.shots = files].pc = "shot"
      BY <3>2
    <3> QED BY <3>1, <3>2, <3>3, Zenon
  <2>3. tick'.pc \in {"idle", "shot"}
    <3>1. CASE EndShots
      BY <3>1 DEF EndShots, IdleTick
    <3>2. CASE BeginShots
      <4> QED BY <2>2, <3>2
    <3> QED BY <1>2, <3>1, <3>2
  <2> QED BY <1>1, <2>1, <2>3, OutsideRecords DEF Noted
<1>3. CASE MaybeReloadConfig
  <2>1. tick'.pc = "cron" /\ ~InCron /\ up
        /\ UNCHANGED <<clock, lastCron, addedAt, file, up, lost>>
    BY <1>1, <1>3 DEF MaybeReloadConfig, InCron, Noted, Tick, history
  <2> QED BY <1>1, <2>1, OutsideRecords
<1>4. ASSUME NEW w \in Wakes, ReadTorn(w) \/ SkipShot(w) \/ DropShot(w) \/ FireShot(w)
      PROVE  Noted' /\ Timely'
  <2>1. ~InCron /\ tick.pc = "shot" /\ tick'.pc \in {"unlink", "shot", "shotFire"}
        /\ UNCHANGED <<clock, lastCron, addedAt, file, up, applied, lost>>
    BY <1>1, <1>4 DEF ReadTorn, SkipShot, DropShot, FireShot, AtShot, NextShot, InCron, Tick, history
  <2> QED BY <1>1, <2>1, OutsideRecords DEF Noted
<1>5. ASSUME NEW w \in Wakes, Unlink(w) \/ UnlinkFails(w) PROVE Noted' /\ Timely'
  <2>1. ~InCron /\ tick.pc = "unlink" /\ tick'.pc = "shot" /\ lost' \in {lost, lost + 1}
        /\ UNCHANGED <<clock, lastCron, addedAt, file, up, applied>>
    BY <1>1, <1>5 DEF Unlink, UnlinkFails, NextShot, InCron, Tick, history
  <2> QED BY <1>1, <2>1, OutsideRecords DEF Noted
<1>6. ASSUME NEW w \in Wakes, NEW posted \in BOOLEAN, ShotFired(w, posted) PROVE Noted' /\ Timely'
  <2>1. ~InCron /\ tick.pc = "shotFire" /\ tick'.pc \in {"shot", "unlink"}
        /\ UNCHANGED <<clock, lastCron, addedAt, file, up, applied, lost>>
    BY <1>1, <1>6 DEF ShotFired, NextShot, InCron, Tick, history
  <2> QED BY <1>1, <2>1, OutsideRecords DEF Noted
<1> QED BY <1>2, <1>3, <1>4, <1>5, <1>6

LEMMA EnvironmentRecords ==
  ASSUME IInv, Noted, Timely, TypeOK', Environment \/ Boot \/ UNCHANGED vars
  PROVE  Noted' /\ Timely'
<1>1. TypeOK /\ clock \in Nat /\ clock' \in Nat /\ lost \in Nat /\ yaml \in Configs \cup {Broken}
  <2>1. TypeOK /\ clock \in Times /\ clock' \in Times
    BY DEF IInv, TypeOK
  <2>2. lost \in Nat /\ yaml \in Configs \cup {Broken}
    BY <2>1, SchedulerAssumption DEF TypeOK
  <2> QED BY <2>1, <2>2 DEF Times
<1>2. CASE Elapse \/ EditYaml \/ UNCHANGED vars
  BY <1>1, <1>2, SameRecords DEF Elapse, EditYaml, vars, host, history
<1>3. CASE Boot
  <2>1. tick.pc = "idle" /\ up' /\ UNCHANGED <<clock, tick, file, lastCron, addedAt, lost>>
    BY <1>1, <1>3 DEF Boot, Noted, history
  <2>2. clock' >= clock
    BY <1>1, <2>1
  <2> QED BY <1>1, <2>1, <2>2, SameRecords
<1>4. CASE Down
  <2>1. tick'.pc = "idle" /\ ~up' /\ UNCHANGED <<clock, lastCron, addedAt, file>>
        /\ ((tick.pc = "idle" /\ lost' = lost) \/ lost' = lost + 1)
    BY <1>4 DEF Down, IdleTick, history
  <2> QED BY <1>1, <2>1, OutsideRecords DEF InCron
<1>5. ASSUME NEW w \in Wakes, WakeOpens(w) \/ WakeCloses(w) \/ WakeCancelled(w) PROVE Noted' /\ Timely'
  BY <1>1, <1>5, SameRecords DEF WakeOpens, WakeCloses, WakeCancelled, host, history
<1>6. ASSUME NEW w \in Wakes, TurnHandled(w) \/ TurnUnhandled(w) PROVE Noted' /\ Timely'
  BY <1>1, <1>6, SameRecords DEF TurnHandled, TurnUnhandled, host, history
<1> QED BY <1>2, <1>3, <1>4, <1>5, <1>6 DEF Environment

LEMMA NextRecords ==
  ASSUME IInv, Noted, Timely, [Next]_vars
  PROVE  Noted' /\ Timely'
<1>1. TypeOK'
  BY NextType DEF IInv
<1>2. CASE WriteFails
  <2>1. lost' = lost + 1 /\ lost \in Nat /\ tick'.pc = "shots" /\ tick.pc = "write"
        /\ UNCHANGED <<clock, lastCron, addedAt, file, up, applied>>
    BY <1>2, SchedulerAssumption DEF WriteFails, IInv, TypeOK, Tick, history
  <2> QED BY <2>1, OutsideRecords DEF IInv, Noted
<1>3. CASE Environment \/ Boot \/ UNCHANGED vars
  BY <1>1, <1>3, EnvironmentRecords
<1>4. CASE TickStep
  BY <1>2, <1>4, BeginRecords, EndRecords, KeyRecords, ShotsRecords DEF TickStep
<1> QED BY <1>3, <1>4 DEF Next

\* "edited/added entries seed forward from now": no occurrence before its
\* arrival is fired for an entry that comes back, for every sequence of edits.
\* An entry has left once a tick with another entry was without it; one that
\* comes back after the schedule was merely empty has never left, since
\* #tickCron returns before it drops its fire state (scheduler.ts:331).
THEOREM ReturningEntriesStartAfresh == Spec => FiresAfterApplied
<1>1. Init => Noted /\ Timely
  BY SchedulerAssumption DEF Init, Noted, Timely, Recorded, InCron, IdleTick, NoState, NoConfig
<1>2. IInv /\ Noted /\ Timely /\ [Next]_vars => Noted' /\ Timely'
  BY NextRecords
<1>3. ASSUME IInv, Noted, Timely, [Next]_vars
      PROVE  [\A k \in Keys : attempts'[k] # attempts[k] /\ lost = 0 => tick.state[k] > addedAt[k]]_vars
  <2> SUFFICES ASSUME Next, NEW k \in Keys, attempts'[k] # attempts[k], lost = 0
               PROVE  tick.state[k] > addedAt[k]
    BY <1>3
  <2>1. PICK q \in Keys : FireEntry(q)
    <3>1. ~Environment /\ ~Boot
      BY DEF Environment, Elapse, EditYaml, Down, WakeOpens, WakeCloses, WakeCancelled, TurnHandled,
             TurnUnhandled, Boot, history
    <3>2. ~MaybeReloadConfig /\ ~NoCron /\ ~BeginCron /\ ~EndCron /\ ~WriteState /\ ~WriteFails
      BY DEF MaybeReloadConfig, NoCron, BeginCron, EndCron, WriteState, WriteFails, history
    <3>3. \A q \in Keys : ~SeedEntry(q) /\ ~PassEntry(q) /\ ~EntryFired(q)
      BY DEF SeedEntry, PassEntry, EntryFired, history
    <3>4. ~BeginShots /\ ~EndShots /\ \A w \in Wakes : ~ReadTorn(w) /\ ~SkipShot(w) /\ ~DropShot(w)
      BY DEF BeginShots, EndShots, ReadTorn, SkipShot, DropShot, history
    <3>5. \A w \in Wakes : ~FireShot(w) /\ ~Unlink(w) /\ ~UnlinkFails(w)
      BY DEF FireShot, Unlink, UnlinkFails, history
    <3>6. \A w \in Wakes, posted \in BOOLEAN : ~ShotFired(w, posted)
      BY DEF ShotFired, history
    <3> QED BY <3>1, <3>2, <3>3, <3>4, <3>5, <3>6 DEF Next, TickStep
  <2>2. q = k
    BY <1>3, <2>1 DEF FireEntry, IInv, TypeOK
  <2>3. k \in tick.cron /\ InCron /\ tick.state[k] # None
    <3>1. tick.cron \in SUBSET Nat /\ tick.cron # {} /\ k = Min(tick.cron)
      BY <1>3, <2>1, <2>2, SchedulerAssumption DEF FireEntry, AtEntry, IInv, TypeOK, Tick
    <3> QED BY <2>1, <2>2, <3>1, LeastInstant DEF FireEntry, AtEntry, InCron
  <2>4. k \in lastCron.keys
    BY <1>3, <2>3 DEF Noted
  <2> QED BY <1>3, <2>3, <2>4 DEF Timely, Recorded
<1> QED BY <1>1, <1>2, <1>3, InitInv, NextInv, PTL DEF Spec, FiresAfterApplied

-----------------------------------------------------------------------------
(* The search of Cron.                                                     *)

\* The cursor has left at least as many minutes behind as there were
\* iterations, and stops where the result is.
Progress ==
  /\ cursor >= from + i
  /\ result \in Instants => result = cursor /\ result > from /\ cronMatches(spec, result)
  /\ result = Unsatisfiable => i = MaxLookahead

SearchInv == SearchTypeOK /\ Progress /\ NothingSkipped

\* A jump to the end of a month or hour that cannot match skips no match.
LEMMA JumpSkipsNothing ==
  ASSUME SearchTypeOK, Running, NEW end \in Instants, end >= cursor + 1,
         \A t \in cursor+1..end : ~cronMatches(spec, t),
         NothingSkipped
  PROVE  \A t \in from+1..end : ~cronMatches(spec, t)
<1> SUFFICES ASSUME NEW t \in from+1..end PROVE ~cronMatches(spec, t)
  OBVIOUS
<1>1. CASE t \in cursor+1..end
  BY <1>1
<1>2. CASE t \in from+1..cursor
  <2>1. cronMatches(spec, t) => result = t
    BY <1>2 DEF NothingSkipped
  <2>2. result # t
    BY <1>2 DEF Running, SearchTypeOK, Instants, Searching
  <2> QED BY <2>1, <2>2
<1> QED BY <1>1, <1>2 DEF SearchTypeOK, Instants

LEMMA SearchInitInv == SearchInit => SearchInv
BY CronAssumption DEF SearchInit, SearchInv, SearchTypeOK, Progress, NothingSkipped, Instants, Searching, Unsatisfiable

LEMMA SkipMonthInv == SearchInv /\ SkipMonth => SearchInv'
<1> SUFFICES ASSUME SearchInv, SkipMonth PROVE SearchInv'
  OBVIOUS
<1> DEFINE c == cursor + 1
           end == MonthEnd[c]
<1>1. c \in Instants /\ end \in Instants /\ end >= c /\ \A u \in c..end : Month[u] = Month[c]
  <2>0. Running
    BY DEF SkipMonth
  <2>1. c \in Instants
    BY <2>0, CronAssumption DEF SearchInv, SearchTypeOK, Running, Instants
  <2>2. end \in Instants
    BY <2>1, CronAssumption
  <2>3. end >= c /\ \A u \in c..end : Month[u] = Month[c]
    BY <2>1, CronAssumption, Zenon
  <2> QED BY <2>1, <2>2, <2>3, Zenon
<1>2. \A t \in c..end : ~cronMatches(spec, t)
  BY <1>1 DEF SkipMonth, cronMatches
<1>3. \A t \in from+1..end : ~cronMatches(spec, t)
  BY <1>1, <1>2, JumpSkipsNothing DEF SearchInv, SkipMonth
<1>4. cursor' = end /\ i' = i + 1 /\ UNCHANGED <<spec, from, result>> /\ Running
  BY DEF SkipMonth, Iterate
<1>5. SearchTypeOK'
  BY <1>1, <1>4, CronAssumption DEF SearchInv, SearchTypeOK, Running
<1>6. Progress'
  BY <1>1, <1>4, CronAssumption
  DEF SearchInv, SearchTypeOK, Progress, Running, Instants, Searching, Unsatisfiable
<1>7. NothingSkipped'
  <2> SUFFICES ASSUME NEW t \in (from+1..cursor)', cronMatches(spec, t)' PROVE FALSE
    BY DEF NothingSkipped
  <2> QED BY <1>3, <1>4 DEF cronMatches, DayMatches
<1> QED BY <1>5, <1>6, <1>7 DEF SearchInv

LEMMA SkipHourInv == SearchInv /\ SkipHour => SearchInv'
<1> SUFFICES ASSUME SearchInv, SkipHour PROVE SearchInv'
  OBVIOUS
<1> DEFINE c == cursor + 1
           end == HourEnd[c]
<1>1. c \in Instants /\ end \in Instants /\ end >= c /\ \A u \in c..end : Hour[u] = Hour[c]
  <2>0. Running
    BY DEF SkipHour
  <2>1. c \in Instants
    BY <2>0, CronAssumption DEF SearchInv, SearchTypeOK, Running, Instants
  <2>2. end \in Instants
    BY <2>1, CronAssumption
  <2>3. end >= c /\ \A u \in c..end : Hour[u] = Hour[c]
    BY <2>1, CronAssumption, Zenon
  <2> QED BY <2>1, <2>2, <2>3, Zenon
<1>2. \A t \in c..end : ~cronMatches(spec, t)
  BY <1>1 DEF SkipHour, cronMatches
<1>3. \A t \in from+1..end : ~cronMatches(spec, t)
  BY <1>1, <1>2, JumpSkipsNothing DEF SearchInv, SkipHour
<1>4. cursor' = end /\ i' = i + 1 /\ UNCHANGED <<spec, from, result>> /\ Running
  BY DEF SkipHour, Iterate
<1>5. SearchTypeOK'
  BY <1>1, <1>4, CronAssumption DEF SearchInv, SearchTypeOK, Running
<1>6. Progress'
  BY <1>1, <1>4, CronAssumption
  DEF SearchInv, SearchTypeOK, Progress, Running, Instants, Searching, Unsatisfiable
<1>7. NothingSkipped'
  <2> SUFFICES ASSUME NEW t \in (from+1..cursor)', cronMatches(spec, t)' PROVE FALSE
    BY DEF NothingSkipped
  <2> QED BY <1>3, <1>4 DEF cronMatches, DayMatches
<1> QED BY <1>5, <1>6, <1>7 DEF SearchInv

LEMMA TryMinuteInv == SearchInv /\ TryMinute => SearchInv'
<1> SUFFICES ASSUME SearchInv, TryMinute PROVE SearchInv'
  OBVIOUS
<1> DEFINE c == cursor + 1
<1>1. /\ c \in Instants /\ cursor' = c /\ i' = i + 1 /\ UNCHANGED <<spec, from>> /\ Running
      /\ result' = IF cronMatches(spec, c) THEN c ELSE Searching
  <2>0. Running
    BY DEF TryMinute
  <2>1. c \in Instants
    BY <2>0, CronAssumption DEF SearchInv, SearchTypeOK, Running, Instants
  <2> QED BY <2>1 DEF TryMinute, Iterate
<1>2. \A t \in Instants : cronMatches(spec, t)' = cronMatches(spec, t)
  BY <1>1 DEF cronMatches, DayMatches
<1>3. \A t \in from+1..cursor : ~cronMatches(spec, t)
  <2> SUFFICES ASSUME NEW t \in from+1..cursor PROVE ~cronMatches(spec, t)
    OBVIOUS
  <2>1. cronMatches(spec, t) => result = t
    BY DEF SearchInv, NothingSkipped
  <2>2. result # t
    BY <1>1 DEF SearchInv, Running, SearchTypeOK, Instants, Searching
  <2> QED BY <2>1, <2>2
<1>4. SearchTypeOK'
  BY <1>1, CronAssumption DEF SearchInv, SearchTypeOK, Running
<1>5. Progress'
  <2>1. cursor' >= (from + i)' /\ cursor' > from'
    BY <1>1, CronAssumption DEF SearchInv, SearchTypeOK, Progress, Running, Instants
  <2>2. result' \in Instants => result' = c /\ cronMatches(spec, c)
    BY <1>1, CronAssumption DEF Instants, Searching
  <2>3. result' # Unsatisfiable
    BY <1>1 DEF Instants, Searching, Unsatisfiable
  <2> QED BY <1>1, <1>2, <2>1, <2>2, <2>3 DEF Progress
<1>6. NothingSkipped'
  <2> SUFFICES ASSUME NEW t \in (from+1..cursor)', cronMatches(spec, t)' PROVE result' = t
    BY DEF NothingSkipped
  <2>0. t \in Instants /\ t \in from+1..c
    BY <1>1, CronAssumption DEF SearchInv, SearchTypeOK, Instants
  <2>1. t \in Instants /\ cronMatches(spec, t)
    BY <2>0, <1>2, <1>1 DEF cronMatches, DayMatches
  <2>2. t = c
    BY <1>1, <1>3, <2>0, <2>1 DEF SearchInv, SearchTypeOK, Instants
  <2> QED BY <1>1, <2>1, <2>2
<1> QED BY <1>4, <1>5, <1>6 DEF SearchInv

LEMMA GiveUpInv == SearchInv /\ GiveUp => SearchInv'
<1> SUFFICES ASSUME SearchInv, GiveUp PROVE SearchInv'
  OBVIOUS
<1>1. SearchTypeOK'
  BY CronAssumption DEF SearchInv, SearchTypeOK, GiveUp
<1>2. Progress'
  BY CronAssumption DEF SearchInv, SearchTypeOK, Progress, GiveUp, Instants, Unsatisfiable
<1>3. NothingSkipped'
  <2> SUFFICES ASSUME NEW t \in from+1..cursor, cronMatches(spec, t) PROVE FALSE
    BY DEF NothingSkipped, GiveUp, cronMatches, DayMatches
  <2> QED BY DEF SearchInv, NothingSkipped, GiveUp, SearchTypeOK, Instants, Searching
<1> QED BY <1>1, <1>2, <1>3 DEF SearchInv

LEMMA Invariant == SearchSpec => []SearchInv
<1>1. SearchInv /\ [Search]_searchVars => SearchInv'
  <2> SUFFICES ASSUME SearchInv, [Search]_searchVars PROVE SearchInv'
    OBVIOUS
  <2>1. CASE UNCHANGED searchVars
    BY <2>1 DEF SearchInv, SearchTypeOK, Progress, NothingSkipped, cronMatches, DayMatches, searchVars
  <2> QED BY <2>1, SkipMonthInv, SkipHourInv, TryMinuteInv, GiveUpInv DEF Search
<1> QED BY <1>1, SearchInitInv, PTL DEF SearchSpec

\* The fast skips over months and hours jump over no matching minute
\* (nextFireAfter), in any calendar and for any expression.
THEOREM SkipsLoseNothing == SearchSpec => []NothingSkipped
<1>1. SearchInv => NothingSkipped
  BY DEF SearchInv
<1> QED BY <1>1, Invariant, PTL

\* nextFireAfter returns the first matching minute strictly after its start,
\* and null only when the look-ahead holds no match.
THEOREM ReturnsNextFire == SearchSpec => []FindsNext
<1>1. SearchInv => FindsNext
  <2> SUFFICES ASSUME SearchInv PROVE FindsNext
    OBVIOUS
  <2>1. ASSUME result \in Instants, NEW t \in from+1..result-1 PROVE ~cronMatches(spec, t)
    BY <2>1 DEF SearchInv, SearchTypeOK, Progress, NothingSkipped, Instants
  <2>2. ASSUME result = Unsatisfiable, NEW t \in Instants, t \in from+1..from+MaxLookahead
        PROVE ~cronMatches(spec, t)
    <3>1. t \in from+1..cursor
      BY <2>2, CronAssumption DEF SearchInv, SearchTypeOK, Progress, Instants
    <3>2. result # t
      BY <2>2 DEF Instants, Unsatisfiable
    <3> QED BY <3>1, <3>2 DEF SearchInv, NothingSkipped
  <2> QED BY <2>1, <2>2 DEF FindsNext, SearchInv, Progress
<1> QED BY <1>1, Invariant, PTL
===============================================================================
