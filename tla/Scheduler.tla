------------------------------- MODULE Scheduler -------------------------------
(***************************************************************************)
(* The alarm clock of one bot (src/src/schedule/scheduler.ts) with what it *)
(* talks to: the bot yaml an operator edits, the state file only the       *)
(* bridge writes, the directory of wake files that `larkway wake` fills    *)
(* from another process, and the mirror post with the local dispatch       *)
(* behind it (the fire callback of src/src/main.ts).  Every await is a     *)
(* point where the clock, the operator, the wake command or a crash may    *)
(* come in.                                                                *)
(***************************************************************************)
EXTENDS Integers, FiniteSetsExt

CONSTANTS
  Keys,       \* cron entries, by their place in the yaml; an edited expression is another key
  Wakes,      \* wake files, in the order of their names
  MaxTime,    \* bound of the clock
  Occ,        \* Occ[k]: the instants the expression of k matches (Cron)
  Grace,      \* misfire_grace_minutes
  WakeAt,     \* WakeAt[w]: the `at` of a wake
  ExpireAfter,\* ExpireAfter[w]: its expire_after, or None
  Configs,    \* the schedule slices the operator may save
  MaxLost,    \* bound of crashes inside a tick and failed writes and unlinks
  Broken,     \* a yaml that does not parse or validate
  None

Times == 0..MaxTime
Never == MaxTime + 1     \* new Date(8640000000000000)
Config == [keys : SUBSET Keys, chat : BOOLEAN]
Schedule == [Keys -> Times \cup {Never, None}]

ASSUME SchedulerAssumption ==
  /\ Keys \subseteq Nat /\ Wakes \subseteq Nat /\ IsFiniteSet(Keys) /\ IsFiniteSet(Wakes)
  /\ MaxTime \in Nat /\ Grace \in Nat /\ MaxLost \in Nat
  /\ Occ \in [Keys -> SUBSET Times]
  /\ WakeAt \in [Wakes -> Times] /\ ExpireAfter \in [Wakes -> Nat \cup {None}]
  /\ Configs \subseteq Config
  /\ Broken \notin Config /\ None \notin Int

VARIABLES
  clock,
  yaml,       \* what the file on disk says
  up,         \* the bridge process runs
  applied,    \* #cron and #defaultChatId, what the running scheduler applies
  tick,       \* where #tick is, with its local variables
  file,       \* schedule-state.json: next_fire_at per entry
  dir,        \* the wake files in wakes/
  cli,        \* how far `larkway wake` is with each wake
  inflight,   \* wakes whose turn the bot works on (inFlightMessageIds)
  saved,      \* wakes whose turn is done and persisted as seen
  dispatched, \* wakes ever dispatched
  attempts,   \* calls of fire() per cron occurrence
  lastCron,   \* the configuration of the last cron tick that had an entry
  addedAt,    \* the cron tick that first saw each entry since such a tick did not
  lost        \* crashes inside a tick and failed writes and unlinks so far

host == <<up, applied, tick>>
inbox == <<inflight, saved, dispatched>>
history == <<attempts, lastCron, addedAt>>
vars == <<clock, yaml, up, applied, tick, file, dir, cli, inflight, saved, dispatched,
          attempts, lastCron, addedAt, lost>>

Pcs == {"idle", "cron", "entry", "cronFire", "write", "shots", "shot", "shotFire", "unlink"}
Tick == [pc : Pcs, now : Times, state : Schedule, dirty : BOOLEAN,
         cron : SUBSET Keys, shots : SUBSET Wakes, torn : BOOLEAN]

NoConfig == [keys |-> {}, chat |-> FALSE]
NoState == [k \in Keys |-> None]
IdleTick == [pc |-> "idle", now |-> 0, state |-> NoState, dirty |-> FALSE,
             cron |-> {}, shots |-> {}, torn |-> FALSE]

\* nextFireAfter: strictly later, or no further occurrence.
NextFireAfter(k, t) ==
  LET later == {o \in Occ[k] : o > t} IN IF later = {} THEN None ELSE Min(later)
Advance(k, t) == IF NextFireAfter(k, t) = None THEN Never ELSE NextFireAfter(k, t)

decideCronDue(next, now) ==
  IF next > now THEN "not_due" ELSE IF now - next > Grace THEN "misfire_skip" ELSE "fire"

decideOneShotDue(w, now) ==
  IF WakeAt[w] > now THEN "not_due"
  ELSE IF ExpireAfter[w] # None /\ now - WakeAt[w] > ExpireAfter[w] THEN "expired"
  ELSE "fire"

Init ==
  /\ clock = 0 /\ yaml \in Configs
  /\ up = FALSE /\ applied = NoConfig /\ tick = IdleTick
  /\ file = NoState
  /\ dir = [w \in Wakes |-> "none"] /\ cli = [w \in Wakes |-> "idle"]
  /\ inflight = {} /\ saved = {} /\ dispatched = {}
  /\ attempts = [k \in Keys |-> [o \in Times |-> 0]]
  /\ lastCron = NoConfig /\ addedAt = [k \in Keys |-> 0] /\ lost = 0

-----------------------------------------------------------------------------
(* The environment.                                                        *)

Elapse ==
  /\ clock < MaxTime /\ clock' = clock + 1
  /\ UNCHANGED <<yaml, host, file, dir, cli, inbox, history, lost>>

EditYaml ==
  /\ yaml' \in Configs \cup {Broken}
  /\ UNCHANGED <<clock, host, file, dir, cli, inbox, history, lost>>

\* writeFile() of the wake command: the file is there before its content is.
WakeOpens(w) ==
  /\ cli[w] = "idle"
  /\ cli' = [cli EXCEPT ![w] = "writing"] /\ dir' = [dir EXCEPT ![w] = "partial"]
  /\ UNCHANGED <<clock, yaml, host, file, inbox, history, lost>>

WakeCloses(w) ==
  /\ cli[w] = "writing"
  /\ cli' = [cli EXCEPT ![w] = "armed"]
  /\ dir' = [dir EXCEPT ![w] = IF @ = "partial" THEN "ready" ELSE @]
  /\ UNCHANGED <<clock, yaml, host, file, inbox, history, lost>>

WakeCancelled(w) ==
  /\ cli[w] = "armed" /\ dir[w] = "ready"
  /\ cli' = [cli EXCEPT ![w] = "cancelled"] /\ dir' = [dir EXCEPT ![w] = "none"]
  /\ UNCHANGED <<clock, yaml, host, file, inbox, history, lost>>

\* The bot's handler on a dispatched turn: markHandled, markUnhandled.
TurnHandled(w) ==
  /\ up /\ w \in inflight /\ inflight' = inflight \ {w} /\ saved' = saved \cup {w}
  /\ UNCHANGED <<clock, yaml, host, file, dir, cli, dispatched, history, lost>>

TurnUnhandled(w) ==
  /\ up /\ w \in inflight /\ inflight' = inflight \ {w}
  /\ UNCHANGED <<clock, yaml, host, file, dir, cli, saved, dispatched, history, lost>>

\* The process ends, at its stop between two ticks or by a crash inside one.
Down ==
  /\ up /\ up' = FALSE /\ tick' = IdleTick /\ inflight' = {}
  /\ IF tick.pc = "idle" THEN lost' = lost ELSE lost < MaxLost /\ lost' = lost + 1
  /\ UNCHANGED <<clock, yaml, applied, file, dir, cli, saved, dispatched, history>>

-----------------------------------------------------------------------------
(* Configuration.                                                          *)

Boot ==
  /\ ~up /\ up' = TRUE /\ yaml # Broken /\ applied' = yaml
  /\ UNCHANGED <<clock, yaml, tick, file, dir, cli, inbox, history, lost>>

\* The top of #tick: a changed, valid slice is applied, an unreadable one is not.
MaybeReloadConfig ==
  /\ up /\ tick.pc = "idle" /\ tick' = [tick EXCEPT !.pc = "cron"]
  /\ applied' = IF yaml = Broken THEN applied ELSE yaml
  /\ UNCHANGED <<clock, yaml, up, file, dir, cli, inbox, history, lost>>

-----------------------------------------------------------------------------
(* #tickCron.                                                              *)

NoteCronTick ==
  /\ lastCron' = applied
  /\ addedAt' = [k \in Keys |->
       IF k \in applied.keys \ lastCron.keys THEN clock ELSE addedAt[k]]

\* With no entry left #tickCron returns at once and keeps the whole fire state.
NoCron ==
  /\ tick.pc = "cron" /\ applied.keys = {}
  /\ tick' = [tick EXCEPT !.pc = "shots"]
  /\ UNCHANGED <<clock, yaml, up, applied, file, dir, cli, inbox, history, lost>>

BeginCron ==
  /\ tick.pc = "cron" /\ applied.keys # {} /\ NoteCronTick
  /\ tick' = [tick EXCEPT !.pc = "entry", !.now = clock, !.state = file,
                          !.dirty = FALSE, !.cron = applied.keys]
  /\ UNCHANGED <<clock, yaml, up, applied, file, dir, cli, inbox, attempts, lost>>

\* mutant
AdvancedInMemory(k, pc) ==
  [tick EXCEPT !.pc = pc, !.state[k] = Advance(k, tick.now), !.cron = @ \ {k}]

\* The entry's next fire time moves past the tick's own idea of now.
Advanced(k, pc) ==
  [tick EXCEPT !.pc = pc, !.state[k] = Advance(k, tick.now), !.dirty = TRUE, !.cron = @ \ {k}]

AtEntry(k) == tick.pc = "entry" /\ tick.cron # {} /\ k = Min(tick.cron)

SeedEntry(k) ==
  /\ AtEntry(k) /\ tick.state[k] = None
  /\ LET next == NextFireAfter(k, tick.now) IN
     tick' = [tick EXCEPT !.cron = @ \ {k}, !.state[k] = next, !.dirty = @ \/ next # None]
  /\ UNCHANGED <<clock, yaml, up, applied, file, dir, cli, inbox, history, lost>>

PassEntry(k) ==
  /\ AtEntry(k) /\ tick.state[k] # None
  /\ LET due == decideCronDue(tick.state[k], tick.now) IN
     \/ due = "not_due" /\ tick' = [tick EXCEPT !.cron = @ \ {k}]
     \/ due = "misfire_skip" /\ tick' = Advanced(k, "entry")
     \/ due = "fire" /\ ~applied.chat /\ tick' = Advanced(k, "entry")
  /\ UNCHANGED <<clock, yaml, up, applied, file, dir, cli, inbox, history, lost>>

FireEntry(k) ==
  /\ AtEntry(k) /\ tick.state[k] # None
  /\ decideCronDue(tick.state[k], tick.now) = "fire" /\ applied.chat
  /\ tick' = [tick EXCEPT !.pc = "cronFire"]
  /\ attempts' = [attempts EXCEPT ![k][tick.state[k]] = @ + 1]
  /\ UNCHANGED <<clock, yaml, up, applied, file, dir, cli, inbox, lastCron, addedAt, lost>>

\* A cron entry advances whatever fire() returns, so its turn is not followed
\* any further.
EntryFired(k) ==
  /\ tick.pc = "cronFire" /\ k = Min(tick.cron) /\ tick' = Advanced(k, "entry")
  /\ UNCHANGED <<clock, yaml, up, applied, file, dir, cli, inbox, history, lost>>

\* mutant
EndCronKeeping ==
  /\ tick.pc = "entry" /\ tick.cron = {}
  /\ tick' = [tick EXCEPT !.pc = IF tick.dirty THEN "write" ELSE "shots"]
  /\ UNCHANGED <<clock, yaml, up, applied, file, dir, cli, inbox, history, lost>>

\* Entries that left the configuration are dropped; a clean state is not saved.
EndCron ==
  /\ tick.pc = "entry" /\ tick.cron = {}
  /\ LET kept == [k \in Keys |-> IF k \in applied.keys THEN tick.state[k] ELSE None]
         dirty == tick.dirty \/ kept # tick.state
     IN tick' = [tick EXCEPT !.state = kept, !.pc = IF dirty THEN "write" ELSE "shots"]
  /\ UNCHANGED <<clock, yaml, up, applied, file, dir, cli, inbox, history, lost>>

WriteState ==
  /\ tick.pc = "write" /\ tick' = [tick EXCEPT !.pc = "shots"] /\ file' = tick.state
  /\ UNCHANGED <<clock, yaml, up, applied, dir, cli, inbox, history, lost>>

WriteFails ==
  /\ tick.pc = "write" /\ lost < MaxLost /\ lost' = lost + 1
  /\ tick' = [tick EXCEPT !.pc = "shots"]
  /\ UNCHANGED <<clock, yaml, up, applied, file, dir, cli, inbox, history>>

-----------------------------------------------------------------------------
(* #tickOneShots.                                                          *)

BeginShots ==
  /\ tick.pc = "shots"
  /\ LET files == {w \in Wakes : dir[w] # "none"} IN
     tick' = IF files = {} THEN IdleTick
             ELSE [IdleTick EXCEPT !.pc = "shot", !.now = clock, !.shots = files]
  /\ UNCHANGED <<clock, yaml, up, applied, file, dir, cli, inbox, history, lost>>

AtShot(w) == tick.pc = "shot" /\ tick.shots # {} /\ w = Min(tick.shots)
NextShot(w) == [tick EXCEPT !.pc = "shot", !.shots = @ \ {w}, !.torn = FALSE]

\* A file read before its content was written does not parse and is removed.
ReadTorn(w) ==
  /\ AtShot(w) /\ dir[w] = "partial"
  /\ tick' = [tick EXCEPT !.pc = "unlink", !.torn = TRUE]
  /\ UNCHANGED <<clock, yaml, up, applied, file, dir, cli, inbox, history, lost>>

\* Not due, or gone since readdir().
SkipShot(w) ==
  /\ AtShot(w)
  /\ dir[w] = "none" \/ (dir[w] = "ready" /\ decideOneShotDue(w, tick.now) = "not_due")
  /\ tick' = NextShot(w)
  /\ UNCHANGED <<clock, yaml, up, applied, file, dir, cli, inbox, history, lost>>

DropShot(w) ==
  /\ AtShot(w) /\ dir[w] = "ready"
  /\ LET due == decideOneShotDue(w, tick.now) IN
     due = "expired" \/ (due = "fire" /\ ~applied.chat)
  /\ tick' = [tick EXCEPT !.pc = "unlink"]
  /\ UNCHANGED <<clock, yaml, up, applied, file, dir, cli, inbox, history, lost>>

FireShot(w) ==
  /\ AtShot(w) /\ dir[w] = "ready"
  /\ decideOneShotDue(w, tick.now) = "fire" /\ applied.chat
  /\ tick' = [tick EXCEPT !.pc = "shotFire"]
  /\ UNCHANGED <<clock, yaml, up, applied, file, dir, cli, inbox, history, lost>>

\* fire(): the mirror post fails, or it lands and ingestLocalEvent takes the
\* turn unless the message is known; a repeated post returns the same message.
Taken(w, posted) == posted /\ w \notin inflight \cup saved

Fire(w, posted) ==
  LET turn == IF Taken(w, posted) THEN {w} ELSE {} IN
  inflight' = inflight \cup turn /\ dispatched' = dispatched \cup turn

\* mutant
ShotFiredOnce(w, posted) ==
  /\ tick.pc = "shotFire" /\ w = Min(tick.shots)
  /\ Fire(w, posted)
  /\ tick' = [tick EXCEPT !.pc = "unlink"]
  /\ UNCHANGED <<clock, yaml, up, applied, file, dir, cli, saved, history, lost>>

\* Unlike a cron entry, a wake whose fire() failed keeps its file.
ShotFired(w, posted) ==
  /\ tick.pc = "shotFire" /\ w = Min(tick.shots)
  /\ Fire(w, posted)
  /\ tick' = IF Taken(w, posted) THEN [tick EXCEPT !.pc = "unlink"] ELSE NextShot(w)
  /\ UNCHANGED <<clock, yaml, up, applied, file, dir, cli, saved, history, lost>>

Unlink(w) ==
  /\ tick.pc = "unlink" /\ w = Min(tick.shots)
  /\ dir' = [dir EXCEPT ![w] = "none"] /\ tick' = NextShot(w)
  /\ UNCHANGED <<clock, yaml, up, applied, file, cli, inbox, history, lost>>

\* The code ignores a failed unlink().
UnlinkFails(w) ==
  /\ tick.pc = "unlink" /\ w = Min(tick.shots) /\ lost < MaxLost /\ lost' = lost + 1
  /\ tick' = NextShot(w)
  /\ UNCHANGED <<clock, yaml, up, applied, file, dir, cli, inbox, history>>

EndShots ==
  /\ tick.pc = "shot" /\ tick.shots = {} /\ tick' = IdleTick
  /\ UNCHANGED <<clock, yaml, up, applied, file, dir, cli, inbox, history, lost>>

-----------------------------------------------------------------------------
Environment ==
  \/ Elapse \/ EditYaml \/ Down
  \/ \E w \in Wakes : WakeOpens(w) \/ WakeCloses(w) \/ WakeCancelled(w)
  \/ \E w \in Wakes : TurnHandled(w) \/ TurnUnhandled(w)

TickStep ==
  \/ MaybeReloadConfig \/ NoCron \/ BeginCron \/ EndCron \/ WriteState \/ WriteFails
  \/ \E k \in Keys : SeedEntry(k) \/ PassEntry(k) \/ FireEntry(k) \/ EntryFired(k)
  \/ BeginShots \/ EndShots
  \/ \E w \in Wakes : ReadTorn(w) \/ SkipShot(w) \/ DropShot(w) \/ FireShot(w)
  \/ \E w \in Wakes : Unlink(w) \/ UnlinkFails(w)
  \/ \E w \in Wakes, posted \in BOOLEAN : ShotFired(w, posted)

Next == Environment \/ Boot \/ TickStep

Spec == Init /\ [][Next]_vars

\* The service manager restarts the bridge with a valid yaml, the bridge is not
\* stopped before its first tick every time, and every await settles;
\* FeishuAnswers adds that posts do not fail for ever.
Fairness == WF_vars(Boot) /\ SF_vars(MaybeReloadConfig) /\ WF_vars(TickStep)
FeishuAnswers == \A w \in Wakes : SF_vars(ShotFired(w, TRUE))

FairSpec == Spec /\ Fairness
AnsweredSpec == FairSpec /\ FeishuAnswers

-----------------------------------------------------------------------------
TypeOK ==
  /\ clock \in Times /\ yaml \in Configs \cup {Broken} /\ up \in BOOLEAN
  /\ applied \in Config /\ tick \in Tick /\ file \in Schedule
  /\ dir \in [Wakes -> {"none", "partial", "ready"}]
  /\ cli \in [Wakes -> {"idle", "writing", "armed", "cancelled"}]
  /\ inflight \subseteq Wakes /\ saved \subseteq Wakes /\ dispatched \subseteq Wakes
  /\ attempts \in [Keys -> [Times -> Nat]] /\ lastCron \in Config /\ addedAt \in [Keys -> Times]
  /\ lost \in 0..MaxLost
  /\ tick.pc = "cronFire" => tick.cron # {} /\ tick.state[Min(tick.cron)] \in Times
  /\ tick.pc \in {"shotFire", "unlink"} => tick.shots # {}

\* A cron occurrence is fired once, however long the post takes and whatever
\* it returns; it is fired again only for a crash inside a tick or a failed
\* write, each of which loses the record of that tick alone (#tickCron saves
\* the fire state after all entries).
CronFiresOnce == \A k \in Keys, o \in Times : attempts[k][o] <= 1 + lost

\* "edited/added entries seed forward from now": an entry that left and
\* returned fires only for occurrences after it was applied again, unless a
\* record was lost.  An emptied schedule is no departure here, although the
\* comment (scheduler.ts:115) knows no exception: #tickCron then returns before
\* it drops anything (scheduler.ts:331), and an entry that comes back after it
\* goes on from its old fire time.  It has left only once a tick with some other
\* entry was without it, with the schedule emptied before, after or never.
FiresAfterApplied ==
  [][\A k \in Keys : attempts'[k] # attempts[k] /\ lost = 0 => tick.state[k] > addedAt[k]]_vars

\* A due wake is dispatched, once posts get through and the yaml lets the
\* bridge start, unless it expires, has no chat, is cancelled by its owner or
\* was read before it was complete: no failed post, crash or unlink loses it
\* (#tickOneShots: "kept for retry"), and an expired one is cleaned up.
WakeAnswered ==
  \A w \in Wakes :
    dir[w] = "ready" /\ WakeAt[w] <= clock ~>
      \/ w \in dispatched \/ tick.torn \/ cli[w] = "cancelled" \/ yaml = Broken
      \/ /\ dir[w] # "ready"
         /\ \/ ~applied.chat
            \/ ExpireAfter[w] # None /\ clock > WakeAt[w] + ExpireAfter[w]
=============================================================================
