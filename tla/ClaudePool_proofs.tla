-------------------------- MODULE ClaudePool_proofs --------------------------
(***************************************************************************)
(* Theorems about ClaudePool, for every value of its constants: its types, *)
(* and the runner contract AgentTurns it implements, with the invariant    *)
(* that says why; then who may write a session: one turn on a wire, one    *)
(* child on a thread, the pid list, and what making room may not stop.     *)
(***************************************************************************)
EXTENDS ClaudePool, FiniteSetTheorems, TLAPS

LEMMA NoTurnType == NoTurn \in TurnState /\ Resolved \in TurnState /\ Rejected \in TurnState
BY DEF NoTurn, TurnState, Resolved, Rejected, Phases, Kinds, Timers

LEMMA NoProcType == NoProc \in PoolEntry
BY DEF NoProc, PoolEntry

LEMMA TermedType ==
  ASSUME NEW pr \in [Pids -> PoolEntry], NEW R
  PROVE  Termed(pr, R) \in [Pids -> PoolEntry]
<1>1. SUFFICES ASSUME NEW p \in Pids
               PROVE  (IF p \in R THEN [pr[p] EXCEPT !.st = "term"] ELSE pr[p]) \in PoolEntry
  BY DEF Termed
<1>2. pr[p] \in PoolEntry
  OBVIOUS
<1>3. [pr[p] EXCEPT !.st = "term"] \in PoolEntry
  BY <1>2 DEF PoolEntry
<1>4. QED BY <1>2, <1>3

LEMMA CutType ==
  ASSUME NEW c \in PoolEntry
  PROVE  [c EXCEPT !.cut = TRUE] \in PoolEntry
BY DEF PoolEntry

LEMMA PidWriteType ==
  ASSUME NEW d \in PidList
  PROVE  PidWrite(d) \in PidList
BY DEF PidWrite, PidList

LEMMA FallBackType ==
  ASSUME TypeOK, NEW t \in Turns, NEW o \in TurnState,
         NEW pr \in [Pids -> PoolEntry], FallBack(t, o, pr)
  PROVE  turn' \in [Turns -> TurnState] /\ proc' \in [Pids -> PoolEntry]
<1>1. CASE o.kill
  BY <1>1, NoTurnType DEF FallBack, TypeOK
<1>2. CASE ~o.kill /\ (shutdown # "no" \/ ColdWritersOf(pr, o.thread) # {})
  BY <1>2, NoTurnType DEF FallBack, TypeOK
<1>3. CASE /\ turn' = [turn EXCEPT ![t] = [o EXCEPT !.phase = "waiting",
                                              !.then = "cold", !.entry = None]]
           /\ proc' = pr
  BY <1>3 DEF TypeOK, TurnState, Phases
<1>4. CASE \E c \in Pids :
          /\ FreshPid(c)
          /\ turn' = [turn EXCEPT ![t] = [o EXCEPT !.phase = "cold", !.entry = c]]
          /\ proc' = [pr EXCEPT ![c] = [NoProc EXCEPT
                        !.st = "up", !.role = "cold", !.thread = o.thread,
                        !.inbox = <<t>>]]
  <2>1. PICK c \in Pids :
          /\ turn' = [turn EXCEPT ![t] = [o EXCEPT !.phase = "cold", !.entry = c]]
          /\ proc' = [pr EXCEPT ![c] = [NoProc EXCEPT
                        !.st = "up", !.role = "cold", !.thread = o.thread,
                        !.inbox = <<t>>]]
    BY <1>4
  <2>2. [o EXCEPT !.phase = "cold", !.entry = c] \in TurnState
    BY DEF TurnState, Phases
  <2>3. [NoProc EXCEPT !.st = "up", !.role = "cold", !.thread = o.thread,
                       !.inbox = <<t>>] \in PoolEntry
    BY NoProcType, <<t>> \in Seq(Turns) DEF PoolEntry, TurnState
  <2>4. QED BY <2>1, <2>2, <2>3 DEF TypeOK
<1>5. QED BY <1>1, <1>2, <1>3, <1>4 DEF FallBack

LEMMA MaybeSpawnBlankType ==
  ASSUME TypeOK, NEW pr \in [Pids -> PoolEntry], NEW E \in SUBSET Pids,
         NEW pw \in Standby, NEW d \in PidList, MaybeSpawnBlank(pr, E, pw, d)
  PROVE  /\ proc' \in [Pids -> PoolEntry] /\ entries' \subseteq Pids
         /\ prewarm' \in Standby /\ disk' \in PidList
<1>1. CASE ~StandbyWanted(E, pw)
  BY <1>1 DEF MaybeSpawnBlank
<1>2. CASE StandbyWanted(E, pw)
  <2>1. PICK p \in Pids :
          /\ proc' = [pr EXCEPT ![p] = [NoProc EXCEPT
                        !.st = "up", !.sig = pw.proto, !.blank = TRUE]]
          /\ entries' = E \cup {p}
    BY <1>2 DEF MaybeSpawnBlank
  <2>2. [NoProc EXCEPT !.st = "up", !.sig = pw.proto, !.blank = TRUE] \in PoolEntry
    <3>1. pw.proto \in Sigs \cup {None}
      BY DEF Standby
    <3>2. QED BY NoProcType, <3>1 DEF PoolEntry
  <2>3. prewarm' = pw /\ disk' \in PidList
    BY <1>2, PidWriteType DEF MaybeSpawnBlank
  <2>4. QED BY <2>1, <2>2, <2>3
<1>3. QED BY <1>1, <1>2

LEMMA QueueType ==
  ASSUME TypeOK, NEW t \in Turns, NEW o \in TurnState, NEW p \in Pids, Queue(t, o, p)
  PROVE  turn' \in [Turns -> TurnState] /\ chain' \in [Pids -> Seq(Turns)]
<1>1. [o EXCEPT !.phase = "queued", !.entry = p] \in TurnState
  BY DEF TurnState, Phases
<1>2. Append(chain[p], t) \in Seq(Turns)
  BY DEF TypeOK
<1>3. QED BY <1>1, <1>2 DEF Queue, TypeOK

LEMMA PlaceType ==
  ASSUME TypeOK, NEW t \in Turns, NEW o \in TurnState, Place(t, o)
  PROVE  TypeOK'
<1> DEFINE dropped == (IF RefreshStandby(o) THEN StaleBlanks(o) ELSE {})
                        \cup Superseded(o) \cup Reseeded(o)
           kept    == entries \ dropped
           same    == {p \in kept : proc[p].thread = o.thread /\ proc[p].sig = o.sig}
           standby == {p \in kept : proc[p].blank /\ Idle(p) /\ proc[p].sig = o.sig}
           pw      == IF RefreshStandby(o)
                      THEN [prewarm EXCEPT !.proto = o.sig, !.due = TRUE] ELSE prewarm
<1>1. /\ dropped \subseteq entries /\ kept \subseteq Pids /\ dying \cup dropped \subseteq Pids
      /\ same \subseteq Pids /\ standby \subseteq Pids
  BY DEF TypeOK, StaleBlanks, Superseded, Reseeded
<1>2. pw \in Standby /\ [pw EXCEPT !.failures = 0, !.due = TRUE] \in Standby
  <2>1. pw \in Standby
    BY DEF TypeOK, Standby, TurnState
  <2>2. 0 \in 0 .. MaxPrewarmFailures
    BY ClaudePoolAssumption
  <2>3. QED BY <2>1, <2>2 DEF Standby
<1>3. UNCHANGED <<interruptedExits, current, shutdown>>
  BY DEF Place
<1>4. CASE /\ \E p \in same : Queue(t, o, p)
           /\ proc' = Termed(proc, dropped)
           /\ entries' = kept /\ dying' = dying \cup dropped
           /\ prewarm' = pw /\ UNCHANGED disk
  <2>1. turn' \in [Turns -> TurnState] /\ chain' \in [Pids -> Seq(Turns)]
    BY <1>1, <1>4, QueueType
  <2>2. proc' \in [Pids -> PoolEntry]
    BY <1>4, TermedType DEF TypeOK
  <2>3. QED BY <1>1, <1>2, <1>3, <1>4, <2>1, <2>2 DEF TypeOK
<1>5. CASE /\ \E p \in standby :
                /\ Queue(t, o, p)
                /\ proc' = [Termed(proc, dropped) EXCEPT ![p].blank = FALSE,
                                                         ![p].thread = o.thread]
           /\ entries' = kept /\ dying' = dying \cup dropped
           /\ prewarm' = [pw EXCEPT !.failures = 0, !.due = TRUE]
           /\ disk' = PidWrite(disk)
  <2>1. PICK p \in standby :
          /\ Queue(t, o, p)
          /\ proc' = [Termed(proc, dropped) EXCEPT ![p].blank = FALSE,
                                                   ![p].thread = o.thread]
    BY <1>5
  <2>2. turn' \in [Turns -> TurnState] /\ chain' \in [Pids -> Seq(Turns)]
    BY <1>1, <2>1, QueueType
  <2>3. proc' \in [Pids -> PoolEntry]
    <3>1. Termed(proc, dropped) \in [Pids -> PoolEntry]
      BY TermedType DEF TypeOK
    <3> DEFINE pr == Termed(proc, dropped)
    <3>2. pr \in [Pids -> PoolEntry] /\ proc' = [pr EXCEPT ![p].blank = FALSE, ![p].thread = o.thread]
      BY <2>1, <3>1
    <3> HIDE DEF pr
    <3>3. p \in Pids /\ pr[p] \in PoolEntry
      BY <1>1, <3>2
    <3>4. [pr[p] EXCEPT !.blank = FALSE] \in PoolEntry
      BY <3>3 DEF PoolEntry
    <3>5. [[pr[p] EXCEPT !.blank = FALSE] EXCEPT !.thread = o.thread] \in PoolEntry
      BY <3>4 DEF PoolEntry, TurnState
    <3>6. proc' = [pr EXCEPT ![p] = [[pr[p] EXCEPT !.blank = FALSE] EXCEPT !.thread = o.thread]]
      BY <3>2, <3>3
    <3>7. QED BY <3>2, <3>5, <3>6
  <2>4. disk' \in PidList
    BY <1>5, PidWriteType DEF TypeOK
  <2>5. QED BY <1>1, <1>2, <1>3, <1>5, <2>2, <2>3, <2>4 DEF TypeOK
<1>6. CASE /\ \E victims \in SUBSET Victims(kept) :
              \E p \in Pids, restored \in SUBSET (Background \cap {"task"}) :
                /\ Queue(t, o, p)
                /\ proc' = [Termed(proc, dropped \cup victims) EXCEPT
                             ![p] = [NoProc EXCEPT
                               !.st = "up", !.thread = o.thread, !.sig = o.sig,
                               !.work = restored]]
                /\ entries' = (kept \ victims) \cup {p}
                /\ dying' = dying \cup dropped \cup victims
           /\ prewarm' = pw /\ disk' = PidWrite(disk)
  <2>1. PICK victims \in SUBSET Victims(kept),
             p \in Pids, restored \in SUBSET (Background \cap {"task"}) :
                /\ Queue(t, o, p)
                /\ proc' = [Termed(proc, dropped \cup victims) EXCEPT
                             ![p] = [NoProc EXCEPT
                               !.st = "up", !.thread = o.thread, !.sig = o.sig,
                               !.work = restored]]
                /\ entries' = (kept \ victims) \cup {p}
                /\ dying' = dying \cup dropped \cup victims
    BY <1>6
  <2>2. turn' \in [Turns -> TurnState] /\ chain' \in [Pids -> Seq(Turns)]
    BY <2>1, QueueType
  <2>3. victims \subseteq Pids
    BY <1>1 DEF Victims
  <2>4. proc' \in [Pids -> PoolEntry]
    <3>1. Termed(proc, dropped \cup victims) \in [Pids -> PoolEntry]
      BY TermedType DEF TypeOK
    <3>2. (o.kind = "resume") \in BOOLEAN /\ restored \in SUBSET {"task", "wake"}
      OBVIOUS
    <3>3. [NoProc EXCEPT !.st = "up", !.thread = o.thread, !.sig = o.sig,
                         !.work = restored] \in PoolEntry
      BY NoProcType, <3>2 DEF PoolEntry, TurnState
    <3> HIDE DEF dropped
    <3>4. QED BY <2>1, <3>1, <3>3
  <2>5. disk' \in PidList
    BY <1>6, PidWriteType DEF TypeOK
  <2>6. QED BY <1>1, <1>2, <1>3, <1>6, <2>1, <2>2, <2>3, <2>4, <2>5 DEF TypeOK
<1>7. CASE /\ FallBack(t, o, Termed(proc, dropped))
           /\ entries' = kept /\ dying' = dying \cup dropped
           /\ prewarm' = pw /\ UNCHANGED <<chain, disk>>
  <2>1. Termed(proc, dropped) \in [Pids -> PoolEntry]
    BY TermedType DEF TypeOK
  <2>2. turn' \in [Turns -> TurnState] /\ proc' \in [Pids -> PoolEntry]
    BY <1>7, <2>1, FallBackType
  <2>3. QED BY <1>1, <1>2, <1>3, <1>7, <2>2 DEF TypeOK
<1>8. QED BY <1>4, <1>5, <1>6, <1>7 DEF Place

LEMMA AdmitType ==
  ASSUME TypeOK, NEW t \in Turns, NEW o \in TurnState, Admit(t, o)
  PROVE  TypeOK'
<1>1. CASE turn' = [turn EXCEPT ![t] = Rejected] /\ UNCHANGED <<proc, entries, dying,
             interruptedExits, current, chain, prewarm, shutdown, disk>>
  BY <1>1, NoTurnType DEF TypeOK
<1>2. CASE turn' = [turn EXCEPT ![t] = [o EXCEPT !.phase = "waiting", !.then = "place"]]
           /\ UNCHANGED <<proc, entries, dying, interruptedExits, current, chain,
                          prewarm, shutdown, disk>>
  <2>1. [o EXCEPT !.phase = "waiting", !.then = "place"] \in TurnState
    BY DEF TurnState, Phases
  <2>2. QED BY <1>2, <2>1 DEF TypeOK
<1>3. CASE Place(t, o)
  BY <1>3, PlaceType
<1>4. QED BY <1>1, <1>2, <1>3 DEF Admit

LEMMA PlacementType ==
  ASSUME TypeOK, \/ \E t \in Turns : Run(t) \/ ResumeWaiter(t)
         \/ \E p \in Pids : RunLink(p) \/ PopLink(p)
  PROVE  TypeOK'
<1>1. ASSUME NEW t \in Turns, Run(t)
      PROVE  TypeOK'
  <2>1. PICK th \in Threads, sig \in Sigs, kind \in Kinds :
          Admit(t, [NoTurn EXCEPT !.thread = th, !.sig = sig, !.kind = kind])
    BY <1>1 DEF Run
  <2>2. [NoTurn EXCEPT !.thread = th, !.sig = sig, !.kind = kind] \in TurnState
    BY NoTurnType DEF TurnState
  <2>3. QED BY <2>1, <2>2, AdmitType
<1>2. ASSUME NEW t \in Turns, ResumeWaiter(t)
      PROVE  TypeOK'
  <2>1. turn[t] \in TurnState /\ proc \in [Pids -> PoolEntry]
    BY DEF TypeOK
  <2>2. CASE Admit(t, turn[t])
    BY <2>1, <2>2, AdmitType
  <2>3. CASE FallBack(t, turn[t], proc) /\ UNCHANGED <<entries, dying, interruptedExits,
               current, chain, prewarm, shutdown, disk>>
    <3>1. turn' \in [Turns -> TurnState] /\ proc' \in [Pids -> PoolEntry]
      BY <2>1, <2>3, FallBackType
    <3>2. QED BY <2>3, <3>1 DEF TypeOK
  <2>4. QED BY <1>2, <2>2, <2>3 DEF ResumeWaiter
<1>3. ASSUME NEW p \in Pids, RunLink(p)
      PROVE  TypeOK'
  <2> DEFINE t0 == Head(chain[p])
  <2>1. chain[p] \in Seq(Turns) /\ chain[p] # <<>> /\ t0 \in Turns
    BY <1>3 DEF RunLink, TypeOK
  <2>2. turn[t0] \in TurnState /\ proc[p] \in PoolEntry
    BY <2>1 DEF TypeOK
  <2>3. UNCHANGED <<entries, dying, interruptedExits, prewarm, shutdown, disk>>
        /\ chain' \in [Pids -> Seq(Turns)]
    <3>1. Tail(chain[p]) \in Seq(Turns)
      BY <2>1
    <3>2. UNCHANGED chain \/ chain' = [chain EXCEPT ![p] = Tail(chain[p])]
      BY <1>3 DEF RunLink
    <3> QED BY <1>3, <3>1, <3>2 DEF RunLink, TypeOK
  <2>4. CASE /\ current' = [current EXCEPT ![p] = t0]
             /\ turn' = [turn EXCEPT ![t0].phase = "running"]
             /\ proc' = [proc EXCEPT ![p].inbox = Append(@, t0)]
    <3> HIDE DEF t0
    <3>1. [turn[t0] EXCEPT !.phase = "running"] \in TurnState
      BY <2>2 DEF TurnState, Phases
    <3>2. Append(proc[p].inbox, t0) \in Seq(Turns)
      BY <2>1, <2>2 DEF PoolEntry
    <3>3. [proc[p] EXCEPT !.inbox = Append(proc[p].inbox, t0)] \in PoolEntry
      BY <2>2, <3>2 DEF PoolEntry
    <3>4. /\ turn' = [turn EXCEPT ![t0] = [turn[t0] EXCEPT !.phase = "running"]]
          /\ proc' = [proc EXCEPT ![p] = [proc[p] EXCEPT
                                              !.inbox = Append(proc[p].inbox, t0)]]
      BY <2>1, <2>4 DEF TypeOK
    <3>5. QED BY <2>1, <2>3, <2>4, <3>1, <3>3, <3>4 DEF TypeOK
  <2>5. CASE FallBack(t0, turn[t0], proc) /\ UNCHANGED current
    <3>1. turn' \in [Turns -> TurnState] /\ proc' \in [Pids -> PoolEntry]
      BY <2>1, <2>2, <2>5, FallBackType DEF TypeOK
    <3>2. QED BY <2>3, <2>5, <3>1 DEF TypeOK
  <2>6. QED BY <1>3, <2>4, <2>5 DEF RunLink
<1>4. ASSUME NEW p \in Pids, PopLink(p)
      PROVE  TypeOK'
  <2>1. chain[p] \in Seq(Turns) /\ chain[p] # <<>>
    BY <1>4 DEF PopLink, LinkDone, TypeOK
  <2>2. Tail(chain[p]) \in Seq(Turns)
    BY <2>1
  <2>3. QED BY <1>4, <2>2 DEF PopLink, TypeOK
<1>5. QED BY <1>1, <1>2, <1>3, <1>4

LEMMA StandbyType ==
  ASSUME TypeOK, Prewarm \/ Replenish \/ RespawnTimer \/ IdleSweep
  PROVE  TypeOK'
<1>1. ASSUME NEW pr \in [Pids -> PoolEntry], NEW E \in SUBSET Pids,
             NEW pw \in Standby, MaybeSpawnBlank(pr, E, pw, disk),
             UNCHANGED <<turn, interruptedExits, current, chain, shutdown>>,
             dying' \subseteq Pids
      PROVE  TypeOK'
  <2>1. disk \in PidList
    BY DEF TypeOK
  <2>2. /\ proc' \in [Pids -> PoolEntry] /\ entries' \subseteq Pids
        /\ prewarm' \in Standby /\ disk' \in PidList
    BY <1>1, <2>1, MaybeSpawnBlankType
  <2>3. QED BY <1>1, <2>2 DEF TypeOK
<1>2. proc \in [Pids -> PoolEntry] /\ entries \in SUBSET Pids /\ prewarm \in Standby
      /\ dying \subseteq Pids
  BY DEF TypeOK
<1>3. CASE Prewarm
  <2>1. PICK sig \in PrewarmSigs :
          MaybeSpawnBlank(proc, entries, [prewarm EXCEPT !.proto = sig], disk)
    BY <1>3 DEF Prewarm
  <2>2. [prewarm EXCEPT !.proto = sig] \in Standby
    BY <1>2, ClaudePoolAssumption DEF Standby
  <2>3. QED BY <1>1, <1>2, <1>3, <2>1, <2>2 DEF Prewarm
<1>4. CASE Replenish
  <2>1. [prewarm EXCEPT !.due = FALSE] \in Standby
    BY <1>2 DEF Standby
  <2>2. QED BY <1>1, <1>2, <1>4, <2>1 DEF Replenish
<1>5. CASE RespawnTimer
  <2>1. [prewarm EXCEPT !.timer = FALSE] \in Standby
    BY <1>2 DEF Standby
  <2>2. QED BY <1>1, <1>2, <1>5, <2>1 DEF RespawnTimer
<1>6. CASE IdleSweep
  <2>1. PICK R \in SUBSET entries :
          /\ dying' = dying \cup R
          /\ IF \E p \in R : proc[p].blank
             THEN MaybeSpawnBlank(Termed(proc, R), entries \ R, prewarm, disk)
             ELSE /\ proc' = Termed(proc, R) /\ entries' = entries \ R
                  /\ UNCHANGED <<prewarm, disk>>
          /\ UNCHANGED <<turn, interruptedExits, current, chain, shutdown>>
    BY <1>6 DEF IdleSweep
  <2>2. Termed(proc, R) \in [Pids -> PoolEntry] /\ entries \ R \in SUBSET Pids
        /\ dying' \subseteq Pids
    BY <1>2, <2>1, TermedType
  <2>3. CASE MaybeSpawnBlank(Termed(proc, R), entries \ R, prewarm, disk)
    BY <1>1, <1>2, <2>1, <2>2, <2>3
  <2>4. CASE proc' = Termed(proc, R) /\ entries' = entries \ R /\ UNCHANGED <<prewarm, disk>>
    BY <2>1, <2>2, <2>4 DEF TypeOK
  <2>5. QED BY <2>1, <2>3, <2>4
<1>7. QED BY <1>3, <1>4, <1>5, <1>6

LEMMA StopType ==
  ASSUME TypeOK, TurnInv, NEW t \in Turns, Interrupt(t) \/ Escalate(t) \/ Finalize(t)
  PROVE  TypeOK'
<1>1. turn[t] \in TurnState /\ turn \in [Turns -> TurnState] /\ proc \in [Pids -> PoolEntry]
  BY DEF TypeOK
<1>2. \A R : Termed(proc, R) \in [Pids -> PoolEntry]
  BY <1>1, TermedType
<1>3. [turn[t] EXCEPT !.kill = TRUE] \in TurnState
  BY <1>1 DEF TurnState
<1>4. [[turn[t] EXCEPT !.kill = TRUE] EXCEPT !.timer = "escalate"] \in TurnState
  BY <1>3 DEF TurnState, Timers
<1>5. SettleBackstop(turn[t]) \in TurnState
  BY <1>1 DEF SettleBackstop, TurnState, Timers
<1>6. CASE Interrupt(t)
  <2> DEFINE o == [turn[t] EXCEPT !.kill = TRUE]
             q == turn[t].entry
  <2>1. UNCHANGED <<interruptedExits, chain, prewarm, shutdown, disk>>
    BY <1>6 DEF Interrupt
  <2>2. CASE /\ turn' = [turn EXCEPT ![t] = o]
             /\ proc' = IF q = None THEN proc ELSE Termed(proc, {q})
             /\ UNCHANGED <<entries, dying, current>>
    BY <1>1, <1>2, <1>3, <2>1, <2>2 DEF TypeOK
  <2>3. CASE /\ turn' = [turn EXCEPT ![t] = Resolved]
             /\ UNCHANGED <<proc, entries, dying, current>>
    BY <1>1, NoTurnType, <2>1, <2>3 DEF TypeOK
  <2>4. CASE /\ o.phase = "running"
             /\ turn' = [turn EXCEPT ![t] = Resolved]
             /\ current' = [current EXCEPT ![q] = None]
             /\ proc' = [Termed(proc, {q}) EXCEPT ![q].cut = TRUE]
             /\ entries' = entries \ {q} /\ dying' = dying \cup {q}
    <3>1. q \in Pids
      BY <1>1, <2>4 DEF TurnInv, Shape, TurnState
    <3>2. [Termed(proc, {q})[q] EXCEPT !.cut = TRUE] \in PoolEntry
      <4>1. Termed(proc, {q})[q] \in PoolEntry
        BY <1>2, <3>1
      <4> QED BY <4>1, CutType
    <3>3. proc' = [Termed(proc, {q}) EXCEPT ![q] = [Termed(proc, {q})[q] EXCEPT !.cut = TRUE]]
      BY <2>4
    <3>4. proc' \in [Pids -> PoolEntry]
      BY <1>2, <3>2, <3>3
    <3>5. QED BY <1>1, NoTurnType, <2>1, <2>4, <3>1, <3>4 DEF TypeOK
  <2>5. CASE /\ turn' = [turn EXCEPT ![t] = [o EXCEPT !.timer = "escalate"]]
             /\ UNCHANGED <<proc, entries, dying, current>>
    BY <1>1, <1>4, <2>1, <2>5 DEF TypeOK
  <2>6. QED BY <1>6, <2>2, <2>3, <2>4, <2>5 DEF Interrupt
<1>7. CASE Escalate(t)
  <2>1. turn[t].entry \in Pids
    BY <1>7 DEF Escalate, TurnInv, Shape
  <2>2. QED BY <1>1, <1>2, <1>5, <1>7, <2>1 DEF Escalate, TypeOK
<1>8. CASE Finalize(t)
  BY <1>1, <1>8, NoTurnType DEF Finalize, TypeOK
<1>9. QED BY <1>6, <1>7, <1>8

LEMMA LineType ==
  ASSUME TypeOK, NEW p \in Pids,
         ContentLine(p) \/ TasksChanged(p) \/ WakeupScheduled(p) \/ KeepaliveExpires(p)
  PROVE  TypeOK'
<1>1. proc[p] \in PoolEntry /\ proc \in [Pids -> PoolEntry] /\ turn \in [Turns -> TurnState]
      /\ current[p] \in Turns \cup {None}
  BY DEF TypeOK
<1>2. CASE ContentLine(p)
  <2>1. current[p] \in Turns
    BY <1>1, <1>2 DEF ContentLine, Idle
  <2>2. turn[current[p]] \in TurnState
    BY <1>1, <2>1
  <2>3. [turn[current[p]] EXCEPT !.reached = TRUE] \in TurnState
    BY <2>2 DEF TurnState
  <2>4. QED BY <1>1, <1>2, <2>1, <2>3 DEF ContentLine, TypeOK
<1>3. CASE TasksChanged(p)
  <2>1. [proc[p] EXCEPT !.tasks = TRUE, !.work = @ \cup {"task"}] \in PoolEntry
    BY <1>1 DEF PoolEntry
  <2>2. ASSUME NEW b \in BOOLEAN
        PROVE  [proc[p] EXCEPT !.tasks = FALSE, !.aged = b] \in PoolEntry
    BY <1>1 DEF PoolEntry
  <2>3. [proc[p] EXCEPT !.tasks = FALSE, !.aged = (proc[p].aged /\ proc[p].wake)] \in PoolEntry
    BY <2>2
  <2>4. \/ proc' = [proc EXCEPT ![p] = [proc[p] EXCEPT !.tasks = TRUE, !.work = @ \cup {"task"}]]
        \/ proc' = [proc EXCEPT ![p] = [proc[p] EXCEPT !.tasks = FALSE,
                                           !.aged = (proc[p].aged /\ proc[p].wake)]]
    BY <1>1, <1>3 DEF TasksChanged
  <2>5. \E e \in PoolEntry : proc' = [proc EXCEPT ![p] = e]
    BY <2>1, <2>3, <2>4, Zenon
  <2>6. QED BY <1>1, <1>3, <2>5 DEF TasksChanged, TypeOK
<1>4. CASE WakeupScheduled(p)
  <2>1. [proc[p] EXCEPT !.wake = TRUE, !.work = @ \cup {"wake"}] \in PoolEntry
    BY <1>1 DEF PoolEntry
  <2>2. proc' = [proc EXCEPT ![p] = [proc[p] EXCEPT !.wake = TRUE, !.work = @ \cup {"wake"}]]
    BY <1>1, <1>4 DEF WakeupScheduled
  <2>3. QED BY <1>1, <1>4, <2>1, <2>2 DEF WakeupScheduled, TypeOK
<1>5. CASE KeepaliveExpires(p)
  <2>1. [proc[p] EXCEPT !.aged = TRUE] \in PoolEntry
    BY <1>1 DEF PoolEntry
  <2>2. QED BY <1>1, <1>5, <2>1 DEF KeepaliveExpires, TypeOK
<1>6. QED BY <1>2, <1>3, <1>4, <1>5

LEMMA TakeResultType ==
  ASSUME TypeOK, NEW p \in Pids, ~Idle(p), NEW pr \in [Pids -> PoolEntry],
         NEW ok \in BOOLEAN, NEW more \in BOOLEAN, TakeResult(p, pr, ok, more),
         UNCHANGED <<interruptedExits, chain, prewarm, shutdown, disk>>
  PROVE  TypeOK'
<1> DEFINE t == current[p]
<1>1. t \in Turns /\ turn[t] \in TurnState
  BY DEF TypeOK, Idle
<1>2. [turn[t] EXCEPT !.waitBg = TRUE, !.reached = TRUE] \in TurnState
  BY <1>1 DEF TurnState
<1>3. /\ \/ turn' = [turn EXCEPT ![t] = [turn[t] EXCEPT !.waitBg = TRUE, !.reached = TRUE]]
         \/ turn' = [turn EXCEPT ![t] = Resolved]
      /\ current' = current \/ current' = [current EXCEPT ![p] = None]
      /\ \E dead \in SUBSET {p} : /\ proc' = Termed(pr, dead)
                                  /\ entries' = entries \ dead /\ dying' = dying \cup dead
  BY <1>1 DEF TakeResult, TypeOK
<1>4. proc' \in [Pids -> PoolEntry] /\ entries' \subseteq Pids /\ dying' \subseteq Pids
  BY <1>3, TermedType DEF TypeOK
<1>5. turn' \in [Turns -> TurnState]
  BY <1>1, <1>2, <1>3, NoTurnType DEF TypeOK
<1>6. QED BY <1>3, <1>4, <1>5 DEF TypeOK

LEMMA ResultType ==
  ASSUME TypeOK, NEW p \in Pids, UserResult(p) \/ FollowUpResult(p) \/ WakeupResult(p)
  PROVE  TypeOK'
<1>1. proc[p] \in PoolEntry /\ proc \in [Pids -> PoolEntry]
  BY DEF TypeOK
<1>2. ASSUME NEW pr \in [Pids -> PoolEntry], IgnoreResult(pr),
             UNCHANGED <<interruptedExits, chain, prewarm, shutdown, disk>>
      PROVE  TypeOK'
  BY <1>2 DEF IgnoreResult, TypeOK
<1>3. ASSUME NEW x, x \in PoolEntry
      PROVE  [proc EXCEPT ![p] = x] \in [Pids -> PoolEntry]
  BY <1>1, <1>3
<1>4. CASE UserResult(p)
  <2> DEFINE pr == [proc EXCEPT ![p].inbox = Tail(@)]
  <2>1. Tail(proc[p].inbox) \in Seq(Turns)
    BY <1>1, <1>4 DEF UserResult, PoolEntry
  <2>2. [proc[p] EXCEPT !.inbox = Tail(proc[p].inbox)] \in PoolEntry
    BY <1>1, <2>1 DEF PoolEntry
  <2>3. pr = [proc EXCEPT ![p] = [proc[p] EXCEPT !.inbox = Tail(proc[p].inbox)]]
    BY <1>1
  <2>4. pr \in [Pids -> PoolEntry]
    BY <1>3, <2>2, <2>3
  <2>5. UNCHANGED <<interruptedExits, chain, prewarm, shutdown, disk>>
    BY <1>4 DEF UserResult
  <2>6. PICK ok \in BOOLEAN, more \in BOOLEAN :
          IF TakesUserResult(p) THEN TakeResult(p, pr, ok, more) ELSE IgnoreResult(pr)
    BY <1>4 DEF UserResult
  <2> HIDE DEF pr
  <2>7. CASE TakesUserResult(p)
    BY <2>4, <2>5, <2>6, <2>7, TakeResultType DEF TakesUserResult
  <2>8. CASE ~TakesUserResult(p)
    BY <1>2, <2>4, <2>5, <2>6, <2>8
  <2>9. QED BY <2>7, <2>8
<1>5. CASE FollowUpResult(p)
  <2> DEFINE pr == [proc EXCEPT ![p].work = @ \ {"task"}]
  <2>1. [proc[p] EXCEPT !.work = @ \ {"task"}] \in PoolEntry
    BY <1>1 DEF PoolEntry
  <2>2. pr = [proc EXCEPT ![p] = [proc[p] EXCEPT !.work = @ \ {"task"}]]
    BY <1>1
  <2>3. pr \in [Pids -> PoolEntry]
    BY <1>3, <2>1, <2>2
  <2>4. UNCHANGED <<interruptedExits, chain, prewarm, shutdown, disk>>
    BY <1>5 DEF FollowUpResult
  <2>5. PICK ok \in BOOLEAN :
          IF TakesFollowUp(p) THEN TakeResult(p, pr, ok, FALSE) ELSE IgnoreResult(pr)
    BY <1>5 DEF FollowUpResult
  <2> HIDE DEF pr
  <2>6. CASE TakesFollowUp(p)
    BY <2>3, <2>4, <2>5, <2>6, TakeResultType DEF TakesFollowUp
  <2>7. CASE ~TakesFollowUp(p)
    BY <1>2, <2>3, <2>4, <2>5, <2>7
  <2>8. QED BY <2>6, <2>7
<1>6. CASE WakeupResult(p)
  <2> DEFINE pr   == [proc EXCEPT ![p].work = @ \ {"wake"}]
             seen == [pr EXCEPT ![p].wake = FALSE, ![p].aged = @ /\ pr[p].tasks]
  <2>1. [proc[p] EXCEPT !.work = @ \ {"wake"}] \in PoolEntry
    BY <1>1 DEF PoolEntry
  <2>2. pr = [proc EXCEPT ![p] = [proc[p] EXCEPT !.work = @ \ {"wake"}]]
    BY <1>1
  <2>3. pr \in [Pids -> PoolEntry]
    BY <1>3, <2>1, <2>2
  <2>4. seen \in [Pids -> PoolEntry]
    <3> HIDE DEF pr
    <3>1. pr[p] \in PoolEntry
      BY <2>3
    <3>2. ASSUME NEW b \in BOOLEAN
          PROVE  [pr[p] EXCEPT !.wake = FALSE, !.aged = b] \in PoolEntry
      BY <3>1 DEF PoolEntry
    <3>3. [pr[p] EXCEPT !.wake = FALSE, !.aged = (pr[p].aged /\ pr[p].tasks)] \in PoolEntry
      BY <3>2
    <3>4. seen = [pr EXCEPT ![p] = [pr[p] EXCEPT !.wake = FALSE,
                                        !.aged = (pr[p].aged /\ pr[p].tasks)]]
      BY <2>3
    <3>5. \E e \in PoolEntry : seen = [pr EXCEPT ![p] = e]
      BY <3>3, <3>4, Zenon
    <3> HIDE DEF seen
    <3>6. QED BY <2>3, <3>5
  <2>5. UNCHANGED <<interruptedExits, chain, prewarm, shutdown, disk>>
    BY <1>6 DEF WakeupResult
  <2>6. PICK ok \in BOOLEAN :
          IF Idle(p) THEN IgnoreResult(pr)
          ELSE TakeResult(p, IF turn[current[p]].kill THEN pr ELSE seen, ok, FALSE)
    BY <1>6 DEF WakeupResult
  <2> HIDE DEF pr, seen
  <2>7. CASE Idle(p)
    BY <1>2, <2>3, <2>5, <2>6, <2>7
  <2>8. CASE ~Idle(p)
    BY <2>3, <2>4, <2>5, <2>6, <2>8, TakeResultType
  <2>9. QED BY <2>7, <2>8
<1>7. QED BY <1>4, <1>5, <1>6

LEMMA ExitType ==
  ASSUME TypeOK, BreakerInv, NEW p \in Pids, WarmExit(p) \/ ColdResult(p) \/ ColdExit(p)
  PROVE  TypeOK'
<1>1. /\ proc[p] \in PoolEntry /\ proc \in [Pids -> PoolEntry]
      /\ turn \in [Turns -> TurnState] /\ current \in [Pids -> Turns \cup {None}]
      /\ prewarm \in Standby /\ disk \in PidList
  BY DEF TypeOK
<1>2. CASE WarmExit(p)
  <2> DEFINE pr == [proc EXCEPT ![p] = NoProc]
             u  == current[p]
  <2>1. pr \in [Pids -> PoolEntry]
    BY <1>1, NoProcType
  <2>2. prewarm' \in Standby
    <3>1. PICK young \in BOOLEAN : prewarm' = AfterExit(p, young)
      BY <1>2 DEF WarmExit
    <3>2. prewarm.failures \in 0 .. MaxPrewarmFailures
      BY <1>1 DEF Standby
    <3>3. ~prewarm.disabled => prewarm.failures + 1 \in 0 .. MaxPrewarmFailures
      BY <3>2, ClaudePoolAssumption DEF BreakerInv
    <3>4. QED BY <1>1, <3>1, <3>3 DEF AfterExit, Standby
  <2>3. turn' \in [Turns -> TurnState] /\ proc' \in [Pids -> PoolEntry]
    <3>1. CASE Idle(p) /\ proc' = pr /\ UNCHANGED turn
      BY <1>1, <2>1, <3>1
    <3>2. CASE ~Idle(p) /\ turn' = [turn EXCEPT ![u] = Resolved] /\ proc' = pr
      BY <1>1, <2>1, <3>2, NoTurnType
    <3>3. CASE ~Idle(p) /\ turn' = [turn EXCEPT ![u] = Rejected] /\ proc' = pr
      BY <1>1, <2>1, <3>3, NoTurnType
    <3>4. CASE ~Idle(p) /\ FallBack(u, turn[u], pr)
      <4>1. u \in Turns /\ turn[u] \in TurnState
        BY <1>1, <3>4 DEF Idle
      <4> HIDE DEF pr, u
      <4>2. QED BY <2>1, <3>4, <4>1, FallBackType
    <3>5. QED BY <1>2, <3>1, <3>2, <3>3, <3>4 DEF WarmExit
  <2>4. disk' \in PidList
    BY <1>1, <1>2, PidWriteType DEF WarmExit
  <2>5. QED BY <1>1, <1>2, <2>2, <2>3, <2>4 DEF WarmExit, TypeOK
<1>3. CASE ColdResult(p)
  <2>1. <<>> \in Seq(Turns)
    OBVIOUS
  <2>2. ASSUME NEW s \in Seq(Turns)
        PROVE  [proc[p] EXCEPT !.inbox = s] \in PoolEntry
    BY <1>1 DEF PoolEntry
  <2>3. [proc[p] EXCEPT !.inbox = <<>>] \in PoolEntry
    BY <2>1, <2>2
  <2>4. QED BY <1>1, <1>3, <2>3 DEF ColdResult, TypeOK
<1>4. CASE ColdExit(p)
  <2>1. ASSUME NEW u \in Turns
        PROVE  [turn[u] EXCEPT !.entry = None] \in TurnState /\ turn[u] \in TurnState
    <3>1. turn[u] \in TurnState
      BY <1>1
    <3>2. QED BY <3>1 DEF TurnState
  <2>2. turn' \in [Turns -> TurnState]
    <3>1. turn' = [u \in Turns |-> IF turn[u].phase = "cold" /\ turn[u].entry = p
                                  THEN [turn[u] EXCEPT !.entry = None] ELSE turn[u]]
      BY <1>4 DEF ColdExit
    <3>2. QED BY <2>1, <3>1
  <2>3. QED BY <1>1, <1>4, <2>2, NoProcType DEF ColdExit, TypeOK
<1>5. QED BY <1>2, <1>3, <1>4

LEMMA ColdDoneType ==
  ASSUME TypeOK, NEW t \in Turns, ColdDone(t)
  PROVE  TypeOK'
BY NoTurnType DEF ColdDone, TypeOK

LEMMA ShutdownType ==
  ASSUME TypeOK, ShutdownBegin \/ ShutdownDestroy \/ BeginPidWrite \/ EndPidWrite
  PROVE  TypeOK'
<1>1. /\ proc \in [Pids -> PoolEntry] /\ turn \in [Turns -> TurnState]
      /\ prewarm \in Standby /\ disk \in PidList /\ entries \subseteq Pids
      /\ dying \subseteq Pids
  BY DEF TypeOK
<1>2. ASSUME NEW u \in Turns
      PROVE  turn[u] \in TurnState /\ [turn[u] EXCEPT !.kill = TRUE] \in TurnState
  <2>1. turn[u] \in TurnState
    BY <1>1
  <2>2. QED BY <2>1 DEF TurnState
<1>3. \A R : Termed(proc, R) \in [Pids -> PoolEntry]
  BY <1>1, TermedType
<1>4. CASE ShutdownBegin
  <2>1. turn' \in [Turns -> TurnState]
    BY <1>2, <1>4, NoTurnType DEF ShutdownBegin
  <2>2. [prewarm EXCEPT !.timer = FALSE] \in Standby
    BY <1>1 DEF Standby
  <2>3. QED BY <1>3, <1>4, <2>1, <2>2 DEF ShutdownBegin, TypeOK
<1>5. CASE ShutdownDestroy
  <2>1. turn' \in [Turns -> TurnState]
    BY <1>2, <1>5 DEF ShutdownDestroy
  <2>2. QED BY <1>1, <1>3, <1>5, <2>1 DEF ShutdownDestroy, DrainedEntries, TypeOK
<1>6. CASE BeginPidWrite
  <2>1. PidSnapshot \subseteq Pids
    BY <1>1 DEF PidSnapshot
  <2>2. disk' \in PidList
    BY <1>1, <1>6, <2>1 DEF BeginPidWrite, PidList
  <2>3. QED BY <1>6, <2>2 DEF BeginPidWrite, TypeOK
<1>7. CASE EndPidWrite
  <2>1. disk' \in PidList
    BY <1>1, <1>7 DEF EndPidWrite, PidList
  <2>2. QED BY <1>7, <2>1 DEF EndPidWrite, TypeOK
<1>8. QED BY <1>4, <1>5, <1>6, <1>7
-----------------------------------------------------------------------------

\* What one turn's handle may do in a step of the contract.
Legal(a, b) ==
  \/ b = a
  \/ /\ a.done = "unborn"
     /\ \/ b = Contract!Rejected
        \/ \E y \in {"pool", "oneShot"} :
             b = [Contract!Unborn EXCEPT !.done = "pending", !.by = y]
  \/ /\ a.done = "pending"
     /\ \/ b = Contract!Resolved
        \/ ~a.cancelled /\ b \in {[a EXCEPT !.cancelled = TRUE], Contract!Rejected}
        \/ b = [a EXCEPT !.output = TRUE]
        \/ ~a.cancelled /\ ~a.output /\ a.by = "pool"
           /\ b = [a EXCEPT !.by = "oneShot"]

By(r) == IF r.phase = "cold" THEN "oneShot" ELSE "pool"

LEMMA SameHandle ==
  ASSUME NEW a \in Contract!Handle, NEW b \in Contract!Handle,
         a.done = b.done, a.cancelled = b.cancelled, a.output = b.output, a.by = b.by
  PROVE  a = b
BY DEF Contract!Handle

LEMMA HandleType ==
  /\ \A r \in TurnState : HandleOf(r) \in Contract!Handle
  /\ HandleOf(NoTurn) = Contract!Unborn
  /\ HandleOf(Resolved) = Contract!Resolved
  /\ HandleOf(Rejected) = Contract!Rejected
<1>1. ASSUME NEW r \in TurnState
      PROVE  HandleOf(r) \in Contract!Handle
  <2>1. r.kill \in BOOLEAN /\ r.reached \in BOOLEAN /\ By(r) \in {"pool", "oneShot"}
    BY DEF TurnState, By
  <2>2. HandleOf(r).done \in {"unborn", "pending", "resolved", "rejected"}
    BY DEF HandleOf, TurnState, Phases
  <2>3. ASSUME NEW d \in {"unborn", "pending", "resolved", "rejected"},
               NEW k \in BOOLEAN, NEW o \in BOOLEAN, NEW c \in {"pool", "oneShot"}
        PROVE  [done |-> d, cancelled |-> k, output |-> o, by |-> c] \in Contract!Handle
    BY DEF Contract!Handle
  <2>4. HandleOf(r) = [done |-> HandleOf(r).done, cancelled |-> r.kill,
                       output |-> r.reached, by |-> By(r)]
    BY DEF HandleOf, By
  <2> HIDE DEF By
  <2>5. QED BY <2>1, <2>2, <2>3, <2>4
<1>2. HandleOf(NoTurn) = Contract!Unborn
  BY DEF HandleOf, NoTurn, Contract!Unborn
<1>3. /\ Resolved.phase = "resolved" /\ ~Resolved.kill /\ ~Resolved.reached
      /\ Rejected.phase = "rejected" /\ ~Rejected.kill /\ ~Rejected.reached
      /\ Resolved.kill = FALSE /\ Resolved.reached = FALSE
      /\ Rejected.kill = FALSE /\ Rejected.reached = FALSE
  BY DEF NoTurn, Resolved, Rejected
<1>4. /\ Contract!Resolved \in Contract!Handle /\ Contract!Rejected \in Contract!Handle
      /\ Contract!Resolved.done = "resolved" /\ Contract!Rejected.done = "rejected"
      /\ Contract!Resolved.cancelled = FALSE /\ Contract!Rejected.cancelled = FALSE
      /\ Contract!Resolved.output = FALSE /\ Contract!Rejected.output = FALSE
      /\ Contract!Resolved.by = "pool" /\ Contract!Rejected.by = "pool"
  BY DEF Contract!Handle, Contract!Unborn, Contract!Resolved, Contract!Rejected
<1>5. ASSUME NEW r \in TurnState
      PROVE  /\ HandleOf(r).cancelled = r.kill /\ HandleOf(r).output = r.reached
             /\ r.phase \in {"resolved", "rejected"} =>
                  HandleOf(r).done = r.phase /\ HandleOf(r).by = "pool"
  BY DEF HandleOf
<1>6. HandleOf(Resolved) = Contract!Resolved /\ HandleOf(Rejected) = Contract!Rejected
  BY <1>1, <1>3, <1>4, <1>5, NoTurnType, SameHandle
<1>7. QED BY <1>1, <1>2, <1>6

LEMMA PendingHandle ==
  ASSUME NEW r \in TurnState, r.phase \in {"waiting", "queued", "running", "cold"}
  PROVE  HandleOf(r) = [done |-> "pending", cancelled |-> r.kill, output |-> r.reached,
                        by |-> By(r)]
BY DEF HandleOf, By, TurnState

LEMMA LegalStep ==
  ASSUME turn \in [Turns -> TurnState], turn' \in [Turns -> TurnState],
         \A t \in Turns : Legal(HandleOf(turn[t]), HandleOf(turn'[t]))
  PROVE  Contract!Next
<1> DEFINE h == [t \in Turns |-> HandleOf(turn[t])]
           g == [t \in Turns |-> HandleOf(turn'[t])]
<1>1. g \in [Turns -> Contract!Handle]
  BY HandleType
<1>2. ASSUME NEW t \in Turns
      PROVE  Contract!Accept(t) \/ Contract!Refuse(t) \/ Contract!Cancel(t)
               \/ Contract!Output(t) \/ Contract!ExecuteAgain(t) \/ Contract!Resolve(t)
               \/ Contract!Reject(t) \/ g[t] = h[t]
  <2>1. Legal(h[t], g[t])
    OBVIOUS
  <2>2. QED BY <2>1 DEF Legal, Contract!Accept, Contract!Refuse, Contract!Cancel,
             Contract!Output, Contract!ExecuteAgain, Contract!Resolve, Contract!Reject
<1>3. QED BY <1>1, <1>2 DEF Contract!Next

LEMMA OneTurnStep ==
  ASSUME TypeOK, NEW t \in Turns, NEW x \in TurnState, turn' = [turn EXCEPT ![t] = x],
         Legal(HandleOf(turn[t]), HandleOf(x))
  PROVE  Contract!Next
<1>1. turn \in [Turns -> TurnState] /\ turn' \in [Turns -> TurnState]
  BY DEF TypeOK
<1>2. ASSUME NEW u \in Turns
      PROVE  Legal(HandleOf(turn[u]), HandleOf(turn'[u]))
  <2>1. CASE u = t
    BY <1>1, <2>1
  <2>2. CASE u # t
    BY <1>1, <2>2 DEF Legal
  <2>3. QED BY <2>1, <2>2
<1>3. QED BY <1>1, <1>2, LegalStep

\* A turn nobody cancelled and that showed no output moves within the pool,
\* goes cold or is refused.
LEMMA QuietMoveLegal ==
  ASSUME NEW r \in TurnState, NEW x \in TurnState,
         r = NoTurn \/ r.phase \in {"waiting", "queued", "running"},
         ~r.kill, ~r.reached, ~x.kill, ~x.reached,
         x = Rejected \/ x.phase \in {"waiting", "queued", "running", "cold"}
  PROVE  Legal(HandleOf(r), HandleOf(x))
<1>1. CASE r = NoTurn /\ x = Rejected
  BY <1>1, HandleType DEF Legal, Contract!Unborn
<1>2. CASE r = NoTurn /\ x # Rejected
  <2>1. HandleOf(x) = [done |-> "pending", cancelled |-> x.kill, output |-> x.reached,
                       by |-> By(x)]
    BY <1>2, PendingHandle
  <2>2. x.kill = FALSE /\ x.reached = FALSE /\ By(x) \in {"pool", "oneShot"}
    BY DEF TurnState, By
  <2> DEFINE y == [Contract!Unborn EXCEPT !.done = "pending", !.by = By(x)]
  <2>3. /\ y \in Contract!Handle /\ y.done = "pending" /\ y.by = By(x)
        /\ y.cancelled = FALSE /\ y.output = FALSE
    BY <2>2 DEF Contract!Handle, Contract!Unborn
  <2> HIDE DEF y
  <2>a. HandleOf(x) \in Contract!Handle
    BY HandleType
  <2>b. HandleOf(x) = y
    BY <2>1, <2>2, <2>3, <2>a, SameHandle
  <2>4. HandleOf(x) = [Contract!Unborn EXCEPT !.done = "pending", !.by = By(x)]
    BY <2>b DEF y
  <2>5. HandleOf(r).done = "unborn"
    BY <1>2, HandleType DEF Contract!Unborn
  <2>6. QED BY <2>2, <2>4, <2>5 DEF Legal
<1>3. CASE r # NoTurn /\ x = Rejected
  <2>1. HandleOf(r).done = "pending" /\ HandleOf(r).cancelled = r.kill
    BY <1>3, PendingHandle
  <2>2. QED BY <1>3, <2>1, HandleType DEF Legal
<1>4. CASE r # NoTurn /\ x # Rejected
  <2>1. HandleOf(r) = [done |-> "pending", cancelled |-> r.kill, output |-> r.reached,
                       by |-> By(r)]
    BY <1>4, PendingHandle
  <2>2. HandleOf(x) = [done |-> "pending", cancelled |-> x.kill, output |-> x.reached,
                       by |-> By(x)]
    BY <1>4, PendingHandle
  <2>3. /\ r.kill = FALSE /\ r.reached = FALSE /\ x.kill = FALSE /\ x.reached = FALSE
        /\ By(r) = "pool" /\ By(x) = IF x.phase = "cold" THEN "oneShot" ELSE "pool"
    BY <1>4 DEF TurnState, By
  <2>4. CASE x.phase = "cold"
    <3> DEFINE y == [HandleOf(r) EXCEPT !.by = "oneShot"]
    <3>1. HandleOf(r) \in Contract!Handle /\ HandleOf(x) \in Contract!Handle
      BY HandleType
    <3>2. y \in Contract!Handle /\ y.done = HandleOf(r).done /\ y.by = "oneShot"
          /\ y.cancelled = HandleOf(r).cancelled /\ y.output = HandleOf(r).output
      BY <3>1 DEF Contract!Handle
    <3> HIDE DEF y
    <3>a. /\ HandleOf(r).done = "pending" /\ HandleOf(x).done = "pending"
          /\ HandleOf(r).cancelled = FALSE /\ HandleOf(x).cancelled = FALSE
          /\ HandleOf(r).output = FALSE /\ HandleOf(x).output = FALSE
          /\ HandleOf(x).by = "oneShot"
      BY <2>1, <2>2, <2>3, <2>4
    <3>3. HandleOf(x) = y
      BY <3>1, <3>2, <3>a, SameHandle
    <3>4. QED BY <2>1, <2>3, <3>3 DEF Legal, y
  <2>5. CASE x.phase # "cold"
    BY <2>1, <2>2, <2>3, <2>5 DEF Legal
  <2>6. QED BY <2>4, <2>5
<1>5. QED BY <1>1, <1>2, <1>3, <1>4

LEMMA ResolveLegal ==
  ASSUME NEW r \in TurnState, r.phase \in {"waiting", "queued", "running", "cold"}
  PROVE  /\ Legal(HandleOf(r), HandleOf(Resolved))
         /\ ~r.kill => Legal(HandleOf(r), HandleOf(Rejected))
<1>1. HandleOf(r).done = "pending" /\ HandleOf(r).cancelled = r.kill
  BY PendingHandle
<1>2. QED BY <1>1, HandleType DEF Legal

-----------------------------------------------------------------------------
(* TurnInv is inductive.                                                   *)

OffChains(t) == \A p \in Pids : \A i \in DOMAIN chain[p] : chain[p][i] # t

\* A turn not yet placed, or waiting to be placed, is on no chain.
LEMMA UnplacedOffChains ==
  ASSUME TurnInv, NEW t \in Turns,
         turn[t].phase = "none" \/ (turn[t].phase = "waiting" /\ turn[t].then = "place")
  PROVE  OffChains(t)
BY DEF TurnInv, ChainInv, OffChains

\* One turn's record changes to x, no chain changes.
\* No chain gained a link.
Trimmed ==
  \A p \in Pids : \A i \in DOMAIN chain'[p] : \E j \in DOMAIN chain[p] : chain'[p][i] = chain[p][j]

LEMMA TailShift ==
  ASSUME NEW S, NEW c \in Seq(S), c # <<>>, NEW i \in DOMAIN Tail(c)
  PROVE  i + 1 \in DOMAIN c /\ Tail(c)[i] = c[i + 1]
OBVIOUS

LEMMA PopTrims ==
  ASSUME TypeOK, NEW p \in Pids, chain[p] # <<>>, chain' = [chain EXCEPT ![p] = Tail(chain[p])]
  PROVE  Trimmed
<1>1. ASSUME NEW q \in Pids, q # p
      PROVE  chain'[q] = chain[q]
  BY <1>1 DEF TypeOK
<1>2. chain[p] \in Seq(Turns) /\ chain'[p] = Tail(chain[p])
  BY DEF TypeOK
<1>3. ASSUME NEW i \in DOMAIN chain'[p]
      PROVE  i + 1 \in DOMAIN chain[p] /\ chain'[p][i] = chain[p][i + 1]
  BY <1>2, <1>3, TailShift
<1>4. QED BY <1>1, <1>3 DEF Trimmed

LEMMA MoveInv ==
  ASSUME TypeOK, TurnInv, NEW t \in Turns, NEW x \in TurnState,
         turn' = [turn EXCEPT ![t] = x], Trimmed,
         Shape(x), x.phase # "none",
         x.phase = "queued" => turn[t].phase = "queued" /\ x.entry = turn[t].entry,
         x.phase = "waiting" => x.then = "cold" \/ OffChains(t),
         \A p \in Pids : current'[p] # None =>
           \/ current'[p] = current[p] /\ current[p] \in Turns \ {t}
           \/ current'[p] = t /\ x.phase = "running" /\ x.entry = p
  PROVE  TurnInv'
<1>1. /\ turn \in [Turns -> TurnState] /\ chain \in [Pids -> Seq(Turns)]
      /\ turn'[t] = x /\ \A u \in Turns \ {t} : turn'[u] = turn[u]
  BY DEF TypeOK
<1>2. \A u \in Turns : Shape(turn'[u])
  BY <1>1 DEF TurnInv
<1>3. ChainInv'
  <2>1. SUFFICES ASSUME NEW p \in Pids, NEW i \in DOMAIN chain[p]
                 PROVE  LET r == turn'[chain[p][i]] IN
                        /\ r.phase # "none"
                        /\ r.phase = "queued" => r.entry = p
                        /\ r.phase = "waiting" => r.then = "cold"
    BY DEF ChainInv, Trimmed
  <2>2. chain[p][i] \in Turns
    BY <1>1
  <2>3. LET r == turn[chain[p][i]] IN
          /\ r.phase # "none" /\ (r.phase = "queued" => r.entry = p)
          /\ r.phase = "waiting" => r.then = "cold"
    BY DEF TurnInv, ChainInv
  <2>4. CASE chain[p][i] = t
    BY <1>1, <2>3, <2>4 DEF OffChains
  <2>5. CASE chain[p][i] # t
    BY <1>1, <2>2, <2>3, <2>5
  <2>6. QED BY <2>4, <2>5
<1>4. CurrentInv'
  BY <1>1 DEF TurnInv, CurrentInv, Idle
<1>5. QED BY <1>2, <1>3, <1>4 DEF TurnInv

\* A turn that is on no chain is queued on child p.
LEMMA QueueInv ==
  ASSUME TypeOK, TurnInv, NEW t \in Turns, NEW o \in TurnState, NEW p \in Pids,
         Queue(t, o, p), ~o.kill, ~o.reached, OffChains(t), current' = current,
         turn[t].phase # "running"
  PROVE  TurnInv'
<1> DEFINE x == [o EXCEPT !.phase = "queued", !.entry = p]
<1>1. /\ turn \in [Turns -> TurnState] /\ chain \in [Pids -> Seq(Turns)]
      /\ turn'[t] = x /\ \A u \in Turns \ {t} : turn'[u] = turn[u]
      /\ chain'[p] = Append(chain[p], t) /\ \A q \in Pids \ {p} : chain'[q] = chain[q]
  BY DEF TypeOK, Queue
<1>2. x.phase = "queued" /\ x.entry = p /\ Shape(x)
  BY DEF TurnState, Shape
<1> HIDE DEF x
<1>3. \A u \in Turns : Shape(turn'[u])
  BY <1>1, <1>2 DEF TurnInv
<1>4. ChainInv'
  <2>1. SUFFICES ASSUME NEW q \in Pids, NEW i \in DOMAIN chain'[q]
                 PROVE  LET r == turn'[chain'[q][i]] IN
                        /\ r.phase # "none"
                        /\ r.phase = "queued" => r.entry = q
                        /\ r.phase = "waiting" => r.then = "cold"
    BY DEF ChainInv
  <2>2. CASE i \in DOMAIN chain[q] /\ chain'[q][i] = chain[q][i]
    <3>1. chain[q][i] \in Turns \ {t}
      BY <1>1, <2>2 DEF OffChains
    <3>2. QED BY <1>1, <2>2, <3>1 DEF TurnInv, ChainInv
  <2>3. CASE q = p /\ chain'[q][i] = t
    BY <1>1, <1>2, <2>3
  <2>4. QED
    <3>1. CASE q = p
      <4>1. chain[p] \in Seq(Turns) /\ i \in 1 .. Len(chain[p]) + 1
        BY <1>1, <3>1
      <4>2. QED BY <1>1, <2>2, <2>3, <3>1, <4>1
    <3>2. CASE q # p
      BY <1>1, <2>2, <3>2
    <3>3. QED BY <3>1, <3>2
<1>5. CurrentInv'
  BY <1>1 DEF TurnInv, CurrentInv, Idle, TypeOK
<1>6. QED BY <1>3, <1>4, <1>5 DEF TurnInv

\* No turn and no chain changes; a child may lose its turn in flight.
LEMMA KeepInv ==
  ASSUME TypeOK, TurnInv, turn' = turn, chain' = chain,
         \A p \in Pids : current'[p] \in {None, current[p]}
  PROVE  TurnInv'
BY DEF TurnInv, ChainInv, CurrentInv, Idle

-----------------------------------------------------------------------------
(* Every step keeps TurnInv and is a step of the contract.                 *)

LEMMA StillStep ==
  ASSUME TypeOK, turn' = turn
  PROVE  Contract!Next
BY LegalStep DEF TypeOK, Legal

LEMMA NotInFlight ==
  ASSUME TurnInv, NEW t \in Turns, turn[t].phase # "running"
  PROVE  \A q \in Pids : current[q] # t
<1>1. t # None
  BY ClaudePoolAssumption
<1>2. QED BY <1>1 DEF TurnInv, CurrentInv, Idle

LEMMA FallBackStep ==
  ASSUME TypeOK, TurnInv, NEW t \in Turns, NEW o \in TurnState, ~o.kill, ~o.reached,
         NEW pr, FallBack(t, o, pr), Trimmed,
         turn[t].phase \in {"none", "waiting", "queued", "running"},
         ~turn[t].kill, ~turn[t].reached,
         \A p \in Pids : current'[p] \in {None, current[p]} /\ current'[p] # t
  PROVE  TurnInv' /\ Contract!Next
<1>1. PICK x \in TurnState :
        /\ turn' = [turn EXCEPT ![t] = x]
        /\ ~x.kill /\ ~x.reached
        /\ \/ x = Rejected
           \/ x.phase = "waiting" /\ x.then = "cold"
           \/ x.phase = "cold"
  <2>1. CASE turn' = [turn EXCEPT ![t] = Rejected]
    <3>1. Rejected \in TurnState /\ ~Rejected.kill /\ ~Rejected.reached
      BY NoTurnType DEF Rejected, NoTurn
    <3>2. QED BY <2>1, <3>1
  <2>2. CASE turn' = [turn EXCEPT ![t] = [o EXCEPT !.phase = "waiting",
                                              !.then = "cold", !.entry = None]]
    <3> DEFINE x == [o EXCEPT !.phase = "waiting", !.then = "cold", !.entry = None]
    <3>1. x \in TurnState /\ x.phase = "waiting" /\ x.then = "cold" /\ ~x.kill /\ ~x.reached
      BY DEF TurnState, Phases
    <3>2. QED BY <2>2, <3>1
  <2>3. CASE \E c \in Pids :
               turn' = [turn EXCEPT ![t] = [o EXCEPT !.phase = "cold", !.entry = c]]
    <3>1. PICK c \in Pids :
               turn' = [turn EXCEPT ![t] = [o EXCEPT !.phase = "cold", !.entry = c]]
      BY <2>3
    <3> DEFINE x == [o EXCEPT !.phase = "cold", !.entry = c]
    <3>2. x \in TurnState /\ x.phase = "cold" /\ ~x.kill /\ ~x.reached
      BY DEF TurnState, Phases
    <3>3. QED BY <3>1, <3>2
  <2>4. QED BY <2>1, <2>2, <2>3 DEF FallBack
<1>2. Rejected.phase = "rejected"
  BY DEF Rejected, NoTurn
<1>3. Shape(x) /\ x.phase \notin {"none", "queued", "running"}
  BY <1>1, <1>2 DEF Shape
<1>4. turn[t] \in TurnState /\ Shape(turn[t])
  BY DEF TypeOK, TurnInv
<1>5. TurnInv'
  <2>1. \A p \in Pids : current'[p] # None => current'[p] = current[p] /\ current[p] \in Turns \ {t}
    BY DEF TypeOK
  <2>2. QED BY <1>1, <1>2, <1>3, <2>1, MoveInv
<1>6. Contract!Next
  <2>1. turn[t] = NoTurn \/ turn[t].phase \in {"waiting", "queued", "running"}
    BY <1>4 DEF Shape
  <2>2. Legal(HandleOf(turn[t]), HandleOf(x))
    BY <1>1, <1>4, <2>1, QuietMoveLegal
  <2>3. QED BY <1>1, <2>2, OneTurnStep
<1>7. QED BY <1>5, <1>6

LEMMA QueueStep ==
  ASSUME TypeOK, TurnInv, NEW t \in Turns, NEW o \in TurnState, ~o.kill, ~o.reached,
         NEW p \in Pids, Queue(t, o, p), OffChains(t), current' = current,
         turn[t].phase \in {"none", "waiting"}
  PROVE  TurnInv' /\ Contract!Next
<1> DEFINE x == [o EXCEPT !.phase = "queued", !.entry = p]
<1>1. x \in TurnState /\ x.phase = "queued" /\ ~x.kill /\ ~x.reached
  BY DEF TurnState, Phases
<1>2. turn' = [turn EXCEPT ![t] = x]
  BY DEF Queue
<1> HIDE DEF x
<1>3. turn[t] \in TurnState /\ (turn[t] = NoTurn \/ turn[t].phase = "waiting")
      /\ ~turn[t].kill /\ ~turn[t].reached
  BY DEF TypeOK, TurnInv, Shape, NoTurn
<1>4. Legal(HandleOf(turn[t]), HandleOf(x))
  BY <1>1, <1>3, QuietMoveLegal
<1>5. QED BY <1>1, <1>2, <1>4, OneTurnStep, QueueInv

LEMMA PlaceStep ==
  ASSUME TypeOK, TurnInv, NEW t \in Turns, NEW o \in TurnState, ~o.kill, ~o.reached,
         OffChains(t), turn[t].phase \in {"none", "waiting"}, Place(t, o)
  PROVE  TurnInv' /\ Contract!Next
<1>1. current' = current
  BY DEF Place
<1>2. ASSUME NEW p \in Pids, Queue(t, o, p)
      PROVE  TurnInv' /\ Contract!Next
  BY <1>1, <1>2, QueueStep
<1>3. ASSUME NEW pr, FallBack(t, o, pr), chain' = chain
      PROVE  TurnInv' /\ Contract!Next
  <2>1. ~turn[t].kill /\ ~turn[t].reached
    BY DEF TurnInv, Shape, NoTurn
  <2>2. \A p \in Pids : current[p] # t
    BY NotInFlight
  <2>3. QED BY <1>1, <1>3, <2>1, <2>2, FallBackStep DEF Trimmed
<1>4. (\E p \in Pids : Queue(t, o, p)) \/ (\E R : FallBack(t, o, Termed(proc, R)) /\ chain' = chain)
  BY DEF Place, TypeOK
<1>5. QED BY <1>2, <1>3, <1>4

LEMMA AdmitStep ==
  ASSUME TypeOK, TurnInv, NEW t \in Turns, NEW o \in TurnState, ~o.kill, ~o.reached,
         turn[t].phase = "none" \/ (turn[t].phase = "waiting" /\ turn[t].then = "place"),
         Admit(t, o)
  PROVE  TurnInv' /\ Contract!Next
<1>1. /\ turn[t] \in TurnState /\ ~turn[t].kill /\ ~turn[t].reached
      /\ turn[t] = NoTurn \/ turn[t].phase = "waiting"
      /\ OffChains(t)
  BY UnplacedOffChains DEF TypeOK, TurnInv, Shape, NoTurn
<1>2. \A p \in Pids : current[p] # None => current[p] \in Turns \ {t}
  BY DEF TypeOK, TurnInv, CurrentInv, Idle
<1>3. ASSUME NEW x \in TurnState, turn' = [turn EXCEPT ![t] = x], UNCHANGED <<current, chain>>,
             x = Rejected \/ x.phase = "waiting", ~x.kill, ~x.reached
      PROVE  TurnInv' /\ Contract!Next
  <2>1. x.phase \in {"rejected", "waiting"} /\ Shape(x)
    BY <1>3 DEF Rejected, NoTurn, Shape
  <2>2. TurnInv'
    BY <1>1, <1>2, <1>3, <2>1, MoveInv DEF Trimmed
  <2>3. Legal(HandleOf(turn[t]), HandleOf(x))
    BY <1>1, <1>3, QuietMoveLegal
  <2>4. QED BY <1>3, <2>2, <2>3, OneTurnStep
<1>4. CASE turn' = [turn EXCEPT ![t] = Rejected] /\ UNCHANGED <<current, chain>>
  <2>1. Rejected \in TurnState /\ ~Rejected.kill /\ ~Rejected.reached
    BY NoTurnType DEF Rejected, NoTurn
  <2>2. QED BY <1>3, <1>4, <2>1
<1>5. CASE turn' = [turn EXCEPT ![t] = [o EXCEPT !.phase = "waiting", !.then = "place"]]
           /\ UNCHANGED <<current, chain>>
  <2> DEFINE x == [o EXCEPT !.phase = "waiting", !.then = "place"]
  <2>1. x \in TurnState /\ x.phase = "waiting" /\ ~x.kill /\ ~x.reached
    BY DEF TurnState, Phases
  <2>2. QED BY <1>3, <1>5, <2>1
<1>6. CASE Place(t, o)
  BY <1>1, <1>6, PlaceStep DEF NoTurn
<1>7. QED BY <1>4, <1>5, <1>6 DEF Admit

LEMMA PlacementStep ==
  ASSUME TypeOK, TurnInv, \/ \E t \in Turns : Run(t) \/ ResumeWaiter(t)
         \/ \E p \in Pids : RunLink(p) \/ PopLink(p)
  PROVE  TurnInv' /\ Contract!Next
<1>1. ASSUME NEW t \in Turns, Run(t)
      PROVE  TurnInv' /\ Contract!Next
  <2>1. PICK th \in Threads, sig \in Sigs, kind \in Kinds :
          Admit(t, [NoTurn EXCEPT !.thread = th, !.sig = sig, !.kind = kind])
    BY <1>1 DEF Run
  <2> DEFINE o == [NoTurn EXCEPT !.thread = th, !.sig = sig, !.kind = kind]
  <2>2. o \in TurnState /\ ~o.kill /\ ~o.reached
    BY NoTurnType DEF TurnState, NoTurn
  <2>3. Admit(t, o) /\ turn[t].phase = "none"
    BY <1>1, <2>1 DEF Run
  <2> HIDE DEF o
  <2>4. QED BY <2>2, <2>3, AdmitStep
<1>2. ASSUME NEW t \in Turns, ResumeWaiter(t)
      PROVE  TurnInv' /\ Contract!Next
  <2>1. turn[t] \in TurnState /\ turn[t].phase = "waiting" /\ ~turn[t].kill /\ ~turn[t].reached
    BY <1>2 DEF TypeOK, TurnInv, Shape, ResumeWaiter
  <2>2. \A q \in Pids : current[q] # t
    BY <2>1, NotInFlight
  <2>3. CASE turn[t].then = "place" /\ Admit(t, turn[t])
    BY <2>1, <2>3, AdmitStep
  <2>4. CASE FallBack(t, turn[t], proc) /\ UNCHANGED <<current, chain>>
    BY <2>1, <2>2, <2>4, FallBackStep DEF Trimmed
  <2>5. QED BY <1>2, <2>3, <2>4 DEF ResumeWaiter
<1>3. ASSUME NEW p \in Pids, RunLink(p)
      PROVE  TurnInv' /\ Contract!Next
  <2> DEFINE u == Head(chain[p])
  <2>1. chain[p] \in Seq(Turns) /\ chain[p] # <<>> /\ u \in Turns /\ 1 \in DOMAIN chain[p]
        /\ u = chain[p][1]
    BY <1>3 DEF RunLink, TypeOK
  <2>2. turn[u].phase = "queued"
    BY <1>3 DEF RunLink
  <2> HIDE DEF u
  <2>3. turn[u] \in TurnState /\ ~turn[u].kill /\ ~turn[u].reached /\ turn[u].entry = p
    BY <2>1, <2>2 DEF TypeOK, TurnInv, Shape, ChainInv
  <2>4. \A q \in Pids : current[q] # u
    BY <2>1, <2>2, NotInFlight
  <2>5. CASE /\ current' = [current EXCEPT ![p] = u] /\ turn' = [turn EXCEPT ![u].phase = "running"]
             /\ chain' = chain
    <3> DEFINE x == [turn[u] EXCEPT !.phase = "running"]
    <3>1. /\ x \in TurnState /\ x.phase = "running" /\ ~x.kill /\ ~x.reached /\ x.entry = p
          /\ Shape(x)
      BY <2>3 DEF TurnState, Phases, Shape
    <3>2. turn' = [turn EXCEPT ![u] = x]
      BY <2>1, <2>5 DEF TypeOK
    <3> HIDE DEF x
    <3>3. \A q \in Pids : current'[q] # None =>
             \/ current'[q] = current[q] /\ current[q] \in Turns \ {u}
             \/ current'[q] = u /\ x.phase = "running" /\ x.entry = q
      BY <2>4, <2>5, <3>1 DEF TypeOK
    <3>4. TurnInv'
      BY <2>1, <2>5, <3>1, <3>2, <3>3, MoveInv DEF Trimmed
    <3>5. Legal(HandleOf(turn[u]), HandleOf(x))
      BY <2>2, <2>3, <3>1, QuietMoveLegal
    <3>6. QED BY <2>1, <3>1, <3>2, <3>4, <3>5, OneTurnStep
  <2>6. CASE /\ FallBack(u, turn[u], proc) /\ UNCHANGED current
             /\ chain' = [chain EXCEPT ![p] = Tail(chain[p])]
    <3>1. Trimmed
      BY <2>1, <2>6, PopTrims
    <3> QED BY <2>1, <2>2, <2>3, <2>4, <2>6, <3>1, FallBackStep
  <2>7. QED BY <1>3, <2>5, <2>6 DEF RunLink, u
<1>4. ASSUME NEW p \in Pids, PopLink(p)
      PROVE  TurnInv' /\ Contract!Next
  <2>1. /\ chain \in [Pids -> Seq(Turns)] /\ chain[p] # <<>>
        /\ chain' = [chain EXCEPT ![p] = Tail(chain[p])]
        /\ turn' = turn /\ current' = current
    BY <1>4 DEF PopLink, LinkDone, TypeOK
  <2>2. Trimmed
    BY <2>1, PopTrims
  <2>3. ChainInv'
    BY <2>1, <2>2 DEF TurnInv, ChainInv, Trimmed
  <2>4. QED BY <2>1, <2>3, StillStep DEF TurnInv, CurrentInv, Idle
<1>5. QED BY <1>1, <1>2, <1>3, <1>4

\* Actions that touch no turn and no chain.
LEMMA QuietStep ==
  ASSUME TypeOK, TurnInv, NEW p,
         \/ Prewarm \/ Replenish \/ RespawnTimer \/ IdleSweep
         \/ BeginPidWrite \/ EndPidWrite
         \/ TasksChanged(p) \/ WakeupScheduled(p) \/ KeepaliveExpires(p) \/ ColdResult(p)
  PROVE  TurnInv' /\ Contract!Next
<1>1. turn' = turn /\ chain' = chain /\ current' = current
  BY DEF Prewarm, Replenish, RespawnTimer, IdleSweep, BeginPidWrite, EndPidWrite,
         TasksChanged, WakeupScheduled, KeepaliveExpires, ColdResult
<1>2. QED BY <1>1, KeepInv, StillStep

LEMMA ResolveStep ==
  ASSUME TypeOK, TurnInv, NEW t \in Turns, turn' = [turn EXCEPT ![t] = Resolved],
         turn[t].phase \in {"waiting", "queued", "running", "cold"}, chain' = chain,
         \A p \in Pids : current'[p] \in {None, current[p]} /\ current'[p] # t
  PROVE  TurnInv' /\ Contract!Next
<1>1. turn[t] \in TurnState /\ Resolved \in TurnState /\ Resolved.phase = "resolved"
  BY NoTurnType DEF TypeOK, Resolved, NoTurn
<1>2. Shape(Resolved)
  BY DEF Shape, Resolved, NoTurn
<1>3. \A p \in Pids : current'[p] # None => current'[p] = current[p] /\ current[p] \in Turns \ {t}
  BY DEF TypeOK
<1>4. TurnInv'
  BY <1>1, <1>2, <1>3, MoveInv DEF Trimmed
<1>5. Legal(HandleOf(turn[t]), HandleOf(Resolved))
  BY <1>1, ResolveLegal
<1>6. QED BY <1>1, <1>4, <1>5, OneTurnStep

LEMMA RejectStep ==
  ASSUME TypeOK, TurnInv, NEW t \in Turns, turn' = [turn EXCEPT ![t] = Rejected],
         turn[t].phase \in {"waiting", "queued", "running", "cold"}, chain' = chain,
         ~turn[t].kill,
         \A p \in Pids : current'[p] \in {None, current[p]} /\ current'[p] # t
  PROVE  TurnInv' /\ Contract!Next
<1>1. turn[t] \in TurnState /\ Rejected \in TurnState /\ Rejected.phase = "rejected"
  BY NoTurnType DEF TypeOK, Rejected, NoTurn
<1>2. Shape(Rejected)
  BY DEF Shape, Rejected, NoTurn
<1>3. \A p \in Pids : current'[p] # None => current'[p] = current[p] /\ current[p] \in Turns \ {t}
  BY DEF TypeOK
<1>4. TurnInv'
  BY <1>1, <1>2, <1>3, MoveInv DEF Trimmed
<1>5. Legal(HandleOf(turn[t]), HandleOf(Rejected))
  BY <1>1, ResolveLegal
<1>6. QED BY <1>1, <1>4, <1>5, OneTurnStep

\* A turn at work keeps its place while it is cancelled, yields or streams.
LEMMA WorkingStep ==
  ASSUME TypeOK, TurnInv, NEW t \in Turns, NEW x \in TurnState,
         turn' = [turn EXCEPT ![t] = x], turn[t].phase \in {"running", "cold"},
         x.phase = turn[t].phase, x.entry = turn[t].entry,
         \/ x.reached = turn[t].reached /\ (x.kill = turn[t].kill \/ x.kill = TRUE)
         \/ turn[t].phase = "running" /\ x.kill = turn[t].kill /\ x.reached = TRUE,
         chain' = chain, current' = current
  PROVE  TurnInv' /\ Contract!Next
<1>1. turn[t] \in TurnState /\ Shape(turn[t]) /\ Shape(x)
  BY DEF TypeOK, TurnInv, Shape
<1>2. \A p \in Pids : current'[p] # None =>
         \/ current'[p] = current[p] /\ current[p] \in Turns \ {t}
         \/ current'[p] = t /\ x.phase = "running" /\ x.entry = p
  BY DEF TypeOK, TurnInv, CurrentInv, Idle
<1>3. TurnInv'
  BY <1>1, <1>2, MoveInv DEF Trimmed
<1>4. Legal(HandleOf(turn[t]), HandleOf(x))
  <2> DEFINE a == HandleOf(turn[t])
             b == HandleOf(x)
  <2>1. /\ a = [done |-> "pending", cancelled |-> turn[t].kill, output |-> turn[t].reached,
                by |-> By(turn[t])]
        /\ b = [done |-> "pending", cancelled |-> x.kill, output |-> x.reached,
                by |-> By(turn[t])]
        /\ a \in Contract!Handle /\ b \in Contract!Handle
    BY <1>1, PendingHandle, HandleType DEF By
  <2>2. /\ turn[t].kill \in BOOLEAN /\ turn[t].reached \in BOOLEAN
        /\ x.kill \in BOOLEAN /\ x.reached \in BOOLEAN
    BY <1>1 DEF TurnState
  <2> HIDE DEF a, b
  <2>3. /\ a.done = "pending" /\ a.cancelled = turn[t].kill /\ a.output = turn[t].reached
        /\ b.done = "pending" /\ b.cancelled = x.kill /\ b.output = x.reached
        /\ a.by = b.by
    BY <2>1
  <2>4. CASE b.cancelled = a.cancelled /\ b.output = a.output
    <3>1. b = a
      BY <2>1, <2>3, <2>4, SameHandle
    <3>2. QED BY <3>1 DEF Legal, a, b
  <2>5. CASE b.output = a.output /\ b.cancelled = TRUE /\ a.cancelled = FALSE
    <3> DEFINE y == [a EXCEPT !.cancelled = TRUE]
    <3>1. y \in Contract!Handle /\ y.done = a.done /\ y.cancelled = TRUE
          /\ y.output = a.output /\ y.by = a.by
      BY <2>1 DEF Contract!Handle
    <3> HIDE DEF y
    <3>2. b = y
      BY <2>1, <2>3, <2>5, <3>1, SameHandle
    <3>3. QED BY <2>3, <2>5, <3>2 DEF Legal, a, b, y
  <2>6. CASE b.cancelled = a.cancelled /\ b.output = TRUE
    <3> DEFINE y == [a EXCEPT !.output = TRUE]
    <3>1. y \in Contract!Handle /\ y.done = a.done /\ y.cancelled = a.cancelled
          /\ y.output = TRUE /\ y.by = a.by
      BY <2>1 DEF Contract!Handle
    <3> HIDE DEF y
    <3>2. b = y
      BY <2>1, <2>3, <2>6, <3>1, SameHandle
    <3>3. QED BY <2>3, <2>6, <3>2 DEF Legal, a, b, y
  <2>7. QED BY <2>2, <2>3, <2>4, <2>5, <2>6
<1>5. QED BY <1>3, <1>4, OneTurnStep

LEMMA StopStep ==
  ASSUME TypeOK, TurnInv, NEW t \in Turns, Interrupt(t) \/ Escalate(t) \/ Finalize(t)
  PROVE  TurnInv' /\ Contract!Next
<1>1. turn[t] \in TurnState /\ Shape(turn[t]) /\ chain' = chain
  BY DEF TypeOK, TurnInv, Interrupt, Escalate, Finalize
<1>2. \A q \in Pids : current[q] = t => turn[t].entry = q /\ turn[t].phase = "running"
  <2>1. t # None
    BY ClaudePoolAssumption
  <2>2. QED BY <2>1 DEF TurnInv, CurrentInv, Idle
<1>3. t # None
  BY ClaudePoolAssumption
<1>4. ASSUME turn[t].phase = "running", turn' = [turn EXCEPT ![t] = Resolved],
             current' = [current EXCEPT ![turn[t].entry] = None]
      PROVE  TurnInv' /\ Contract!Next
  <2>1. \A q \in Pids : current'[q] \in {None, current[q]} /\ current'[q] # t
    BY <1>2, <1>3, <1>4 DEF TypeOK
  <2>2. QED BY <1>1, <1>4, <2>1, ResolveStep
<1>5. CASE Interrupt(t)
  <2> DEFINE o == [turn[t] EXCEPT !.kill = TRUE]
  <2>1. /\ o \in TurnState /\ o.phase = turn[t].phase /\ o.entry = turn[t].entry
        /\ o.kill = TRUE /\ o.reached = turn[t].reached /\ o.waitBg = turn[t].waitBg
    BY <1>1 DEF TurnState
  <2>2. CASE o.phase = "cold" /\ turn' = [turn EXCEPT ![t] = o] /\ current' = current
    <3> HIDE DEF o
    <3>1. QED BY <1>1, <2>1, <2>2, WorkingStep
  <2>3. CASE /\ o.phase \in {"waiting", "queued"} /\ turn' = [turn EXCEPT ![t] = Resolved]
             /\ current' = current
    <3>1. \A q \in Pids : current[q] # t
      BY <2>1, <2>3, NotInFlight
    <3>2. QED BY <1>1, <2>1, <2>3, <3>1, ResolveStep
  <2>4. CASE /\ o.phase = "running" /\ turn' = [turn EXCEPT ![t] = Resolved]
             /\ current' = [current EXCEPT ![turn[t].entry] = None]
    BY <1>4, <2>1, <2>4
  <2>5. CASE /\ o.phase = "running" /\ current' = current
             /\ turn' = [turn EXCEPT ![t] = [o EXCEPT !.timer = "escalate"]]
    <3> HIDE DEF o
    <3> DEFINE x == [o EXCEPT !.timer = "escalate"]
    <3>1. /\ x \in TurnState /\ x.phase = turn[t].phase /\ x.entry = turn[t].entry
          /\ x.kill = TRUE /\ x.reached = turn[t].reached
      BY <2>1, <2>5 DEF TurnState, Timers
    <3>2. turn' = [turn EXCEPT ![t] = x]
      BY <2>5
    <3>3. turn[t].phase \in {"running", "cold"} /\ current' = current
      BY <2>1, <2>5
    <3> HIDE DEF x
    <3>4. QED BY <1>1, <3>1, <3>2, <3>3, WorkingStep
  <2>6. QED BY <1>5, <2>2, <2>3, <2>4, <2>5 DEF Interrupt
<1>6. CASE Escalate(t)
  <2> DEFINE x == SettleBackstop(turn[t])
  <2>1. /\ x \in TurnState /\ x.phase = turn[t].phase /\ x.entry = turn[t].entry
        /\ x.kill = turn[t].kill /\ x.reached = turn[t].reached
    BY <1>1 DEF SettleBackstop, TurnState, Timers
  <2>2. turn' = [turn EXCEPT ![t] = x] /\ current' = current /\ turn[t].phase = "running"
    BY <1>6 DEF Escalate, TypeOK
  <2> HIDE DEF x
  <2>3. QED BY <1>1, <2>1, <2>2, WorkingStep
<1>7. CASE Finalize(t)
  BY <1>4, <1>7 DEF Finalize
<1>8. QED BY <1>5, <1>6, <1>7

LEMMA TakeResultStep ==
  ASSUME TypeOK, TurnInv, NEW p \in Pids, ~Idle(p), NEW pr, NEW ok \in BOOLEAN,
         NEW more \in BOOLEAN, TakeResult(p, pr, ok, more), chain' = chain
  PROVE  TurnInv' /\ Contract!Next
<1> DEFINE t == current[p]
<1>1. /\ t \in Turns /\ turn[t] \in TurnState /\ turn[t].phase = "running"
      /\ turn[t].entry = p /\ t # None
  BY DEF TypeOK, TurnInv, CurrentInv, Idle
<1>2. \A q \in Pids : current[q] = t => q = p
  BY <1>1 DEF TurnInv, CurrentInv, Idle
<1>3. CASE /\ turn' = [turn EXCEPT ![t] = [turn[t] EXCEPT !.waitBg = TRUE, !.reached = TRUE]]
           /\ current' = current
  <2> DEFINE x == [turn[t] EXCEPT !.waitBg = TRUE, !.reached = TRUE]
  <2>1. /\ x \in TurnState /\ x.phase = "running" /\ x.entry = p /\ x.kill = turn[t].kill
        /\ x.reached = TRUE
    BY <1>1 DEF TurnState
  <2>2. turn' = [turn EXCEPT ![t] = x]
    BY <1>3
  <2> HIDE DEF x, t
  <2>3. QED BY <1>1, <1>3, <2>1, <2>2, WorkingStep
<1>4. CASE turn' = [turn EXCEPT ![t] = Resolved] /\ current' = [current EXCEPT ![p] = None]
  <2>1. \A q \in Pids : current'[q] \in {None, current[q]} /\ current'[q] # t
    BY <1>1, <1>2, <1>4 DEF TypeOK
  <2> HIDE DEF t
  <2>2. QED BY <1>1, <1>4, <2>1, ResolveStep
<1>5. \/ /\ turn' = [turn EXCEPT ![t] = [turn[t] EXCEPT !.waitBg = TRUE, !.reached = TRUE]]
         /\ current' = current
      \/ turn' = [turn EXCEPT ![t] = Resolved] /\ current' = [current EXCEPT ![p] = None]
  BY <1>1 DEF TakeResult, TypeOK
<1>6. QED BY <1>3, <1>4, <1>5

LEMMA ResultStep ==
  ASSUME TypeOK, TurnInv, NEW p \in Pids,
         ContentLine(p) \/ UserResult(p) \/ FollowUpResult(p) \/ WakeupResult(p)
  PROVE  TurnInv' /\ Contract!Next
<1>1. chain' = chain
  BY DEF ContentLine, UserResult, FollowUpResult, WakeupResult
<1>2. CASE ContentLine(p)
  <2> DEFINE t == current[p]
             x == [turn[t] EXCEPT !.reached = TRUE]
  <2>1. t \in Turns /\ turn[t] \in TurnState /\ turn[t].phase = "running"
    BY <1>2 DEF ContentLine, TypeOK, TurnInv, CurrentInv, Idle
  <2>2. /\ x \in TurnState /\ x.phase = turn[t].phase /\ x.entry = turn[t].entry
        /\ x.kill = turn[t].kill /\ x.reached = TRUE
    BY <2>1 DEF TurnState
  <2>3. turn' = [turn EXCEPT ![t] = x] /\ current' = current
    BY <1>2, <2>1 DEF ContentLine, TypeOK
  <2> HIDE DEF x, t
  <2>4. turn[t].phase \in {"running", "cold"}
    BY <2>1
  <2>5. QED BY <1>1, <2>1, <2>2, <2>3, <2>4, WorkingStep
<1>3. ASSUME NEW pr, IgnoreResult(pr)
      PROVE  TurnInv' /\ Contract!Next
  BY <1>1, <1>3, KeepInv, StillStep DEF IgnoreResult
<1>4. ASSUME ~Idle(p), NEW pr, NEW ok \in BOOLEAN, NEW more \in BOOLEAN,
             TakeResult(p, pr, ok, more)
      PROVE  TurnInv' /\ Contract!Next
  BY <1>1, <1>4, TakeResultStep
<1>5. CASE UserResult(p)
  BY <1>3, <1>4, <1>5 DEF UserResult, TakesUserResult
<1>6. CASE FollowUpResult(p)
  BY <1>3, <1>4, <1>6 DEF FollowUpResult, TakesFollowUp
<1>7. CASE WakeupResult(p)
  BY <1>3, <1>4, <1>7 DEF WakeupResult
<1>8. QED BY <1>2, <1>5, <1>6, <1>7

LEMMA ExitStep ==
  ASSUME TypeOK, TurnInv, (\E p \in Pids : WarmExit(p)) \/ (\E t \in Turns : ColdDone(t))
  PROVE  TurnInv' /\ Contract!Next
<1>1. ASSUME NEW p \in Pids, WarmExit(p)
      PROVE  TurnInv' /\ Contract!Next
  <2> DEFINE u == current[p]
  <2>1. chain' = chain /\ current' = [current EXCEPT ![p] = None]
    BY <1>1 DEF WarmExit
  <2>2. ASSUME ~Idle(p)
        PROVE  /\ u \in Turns /\ turn[u] \in TurnState /\ turn[u].phase = "running"
               /\ \A q \in Pids : current'[q] \in {None, current[q]} /\ current'[q] # u
    <3>1. u \in Turns /\ turn[u] \in TurnState /\ u # None
      BY <2>2 DEF TypeOK, Idle
    <3>2. turn[u].phase = "running" /\ \A q \in Pids : current[q] = u => q = p
      BY <2>2, <3>1 DEF TurnInv, CurrentInv, Idle
    <3>3. QED BY <2>1, <3>1, <3>2 DEF TypeOK
  <2>3. CASE turn' = turn
    BY <2>1, <2>3, KeepInv, StillStep DEF TypeOK
  <2>4. CASE ~Idle(p) /\ turn' = [turn EXCEPT ![u] = Resolved]
    <3> HIDE DEF u
    <3>1. QED BY <2>1, <2>2, <2>4, ResolveStep
  <2>5. CASE ~Idle(p) /\ ~turn[u].kill /\ turn' = [turn EXCEPT ![u] = Rejected]
    <3> HIDE DEF u
    <3>1. QED BY <2>1, <2>2, <2>5, RejectStep
  <2>6. CASE /\ ~Idle(p) /\ RetriedCold(u)
             /\ FallBack(u, turn[u], [proc EXCEPT ![p] = NoProc])
    <3> HIDE DEF u
    <3>1. ~turn[u].kill /\ ~turn[u].reached
      BY <2>6 DEF RetriedCold
    <3>2. QED BY <2>1, <2>2, <2>6, <3>1, FallBackStep DEF Trimmed
  <2>7. QED BY <1>1, <2>3, <2>4, <2>5, <2>6 DEF WarmExit
<1>2. ASSUME NEW t \in Turns, ColdDone(t)
      PROVE  TurnInv' /\ Contract!Next
  <2>1. turn[t].phase = "cold" /\ chain' = chain /\ current' = current
    BY <1>2 DEF ColdDone
  <2>2. \A q \in Pids : current[q] # t
    BY <2>1, NotInFlight
  <2>3. CASE turn' = [turn EXCEPT ![t] = Resolved]
    BY <2>1, <2>2, <2>3, ResolveStep
  <2>4. CASE ~turn[t].kill /\ turn' = [turn EXCEPT ![t] = Rejected]
    BY <2>1, <2>2, <2>4, RejectStep
  <2>5. QED BY <1>2, <2>3, <2>4 DEF ColdDone
<1>3. QED BY <1>1, <1>2

\* Several records change at once, none of them its place on a chain.
LEMMA ManyInv ==
  ASSUME TypeOK, TurnInv, TypeOK', chain' = chain, current' = current,
         \A t \in Turns :
           \/ turn'[t] = turn[t]
           \/ turn[t].phase # "none" /\ turn'[t] \in {Resolved, Rejected}
              /\ turn[t].phase # "running"
           \/ /\ turn'[t].phase = turn[t].phase /\ turn'[t].phase \in {"running", "cold"}
              /\ Shape(turn'[t])
              /\ turn'[t].phase = "running" => turn'[t].entry = turn[t].entry
  PROVE  TurnInv'
<1>1. \A t \in Turns : Shape(turn'[t])
  BY DEF TurnInv, Shape, Resolved, Rejected, NoTurn
<1>2. ChainInv'
  <2>1. SUFFICES ASSUME NEW p \in Pids, NEW i \in DOMAIN chain[p]
                 PROVE  LET r == turn'[chain[p][i]] IN
                        /\ r.phase # "none"
                        /\ r.phase = "queued" => r.entry = p
                        /\ r.phase = "waiting" => r.then = "cold"
    BY DEF ChainInv
  <2>2. chain[p][i] \in Turns
    BY DEF TypeOK
  <2>3. LET r == turn[chain[p][i]] IN
          /\ r.phase # "none" /\ (r.phase = "queued" => r.entry = p)
          /\ r.phase = "waiting" => r.then = "cold"
    BY DEF TurnInv, ChainInv
  <2>4. Resolved.phase = "resolved" /\ Rejected.phase = "rejected"
    BY DEF Resolved, Rejected, NoTurn
  <2>5. QED BY <2>2, <2>3, <2>4
<1>3. CurrentInv'
  BY DEF TypeOK, TurnInv, CurrentInv, Idle
<1>4. QED BY <1>1, <1>2, <1>3 DEF TurnInv

\* Cancelling a turn at work is a step of the contract.
LEMMA CancelLegal ==
  ASSUME NEW r \in TurnState, r.phase \in {"running", "cold"}
  PROVE  /\ Legal(HandleOf(r), HandleOf([r EXCEPT !.kill = TRUE]))
         /\ Shape(r) => Shape([r EXCEPT !.kill = TRUE])
         /\ [r EXCEPT !.kill = TRUE].phase = r.phase
         /\ [r EXCEPT !.kill = TRUE].entry = r.entry
<1> DEFINE x == [r EXCEPT !.kill = TRUE]
           a == HandleOf(r)
           b == HandleOf(x)
           y == [a EXCEPT !.cancelled = TRUE]
<1>1. /\ x \in TurnState /\ x.phase = r.phase /\ x.kill = TRUE /\ x.reached = r.reached
      /\ x.entry = r.entry /\ r.kill \in BOOLEAN
  BY DEF TurnState
<1>2. Shape(r) => Shape(x)
  BY <1>1 DEF Shape
<1> HIDE DEF x
<1>3. /\ a = [done |-> "pending", cancelled |-> r.kill, output |-> r.reached, by |-> By(r)]
      /\ b = [done |-> "pending", cancelled |-> x.kill, output |-> x.reached, by |-> By(r)]
      /\ a \in Contract!Handle /\ b \in Contract!Handle
  BY <1>1, PendingHandle, HandleType DEF By
<1>4. /\ y \in Contract!Handle /\ y.done = a.done /\ y.cancelled = TRUE
      /\ y.output = a.output /\ y.by = a.by
  BY <1>3 DEF Contract!Handle
<1> HIDE DEF y, a, b
<1>5. b = y
  <2>0. /\ a.done = "pending" /\ b.done = "pending" /\ a.by = b.by
        /\ a.output = r.reached /\ b.output = x.reached /\ b.cancelled = x.kill
    BY <1>3
  <2>1. b.done = y.done /\ b.cancelled = y.cancelled /\ b.output = y.output /\ b.by = y.by
    BY <1>1, <1>4, <2>0
  <2>2. QED BY <1>3, <1>4, <2>1, SameHandle
<1>6. Legal(a, b)
  <2>1. a.done = "pending" /\ a.cancelled = r.kill
    BY <1>3
  <2>2. CASE r.kill
    <3>1. x = r
      BY <1>1, <2>2 DEF x, TurnState
    <3>2. QED BY <3>1 DEF Legal, a, b
  <2>3. CASE ~r.kill
    BY <1>5, <2>1, <2>3 DEF Legal, y
  <2>4. QED BY <2>2, <2>3
<1>7. QED BY <1>1, <1>2, <1>6 DEF x, a, b

LEMMA ManyStep ==
  ASSUME TypeOK, TypeOK', TurnInv, NEW p,
         ColdExit(p) \/ ShutdownBegin \/ ShutdownDestroy
  PROVE  TurnInv' /\ Contract!Next
<1>1. chain' = chain /\ current' = current
  BY DEF ColdExit, ShutdownBegin, ShutdownDestroy
<1>2. turn \in [Turns -> TurnState] /\ turn' \in [Turns -> TurnState]
  BY DEF TypeOK
<1>3. ASSUME \A t \in Turns :
               /\ Legal(HandleOf(turn[t]), HandleOf(turn'[t]))
               /\ \/ turn'[t] = turn[t]
                  \/ turn[t].phase # "none" /\ turn'[t] \in {Resolved, Rejected}
                     /\ turn[t].phase # "running"
                  \/ /\ turn'[t].phase = turn[t].phase /\ turn'[t].phase \in {"running", "cold"}
                     /\ Shape(turn'[t])
                     /\ turn'[t].phase = "running" => turn'[t].entry = turn[t].entry
      PROVE  TurnInv' /\ Contract!Next
  BY <1>1, <1>2, <1>3, ManyInv, LegalStep
<1>4. \A r \in TurnState : Legal(HandleOf(r), HandleOf(r))
  BY DEF Legal
<1>5. CASE ColdExit(p)
  <2>1. ASSUME NEW t \in Turns
        PROVE  \/ turn'[t] = turn[t]
               \/ turn[t].phase = "cold" /\ turn'[t] = [turn[t] EXCEPT !.entry = None]
    BY <1>5 DEF ColdExit
  <2>2. ASSUME NEW r \in TurnState, r.phase = "cold", Shape(r)
        PROVE  LET x == [r EXCEPT !.entry = None] IN
               x.phase = "cold" /\ HandleOf(x) = HandleOf(r) /\ Shape(x)
    BY <2>2 DEF TurnState, HandleOf, Shape
  <2>3. ASSUME NEW t \in Turns, turn'[t] # turn[t]
        PROVE  /\ Legal(HandleOf(turn[t]), HandleOf(turn'[t]))
               /\ turn'[t].phase = turn[t].phase /\ turn'[t].phase = "cold" /\ Shape(turn'[t])
    <3>1. turn[t] \in TurnState /\ Shape(turn[t]) /\ turn[t].phase = "cold"
          /\ turn'[t] = [turn[t] EXCEPT !.entry = None]
      BY <1>2, <2>1, <2>3 DEF TurnInv
    <3>2. turn'[t].phase = "cold" /\ HandleOf(turn'[t]) = HandleOf(turn[t]) /\ Shape(turn'[t])
      BY <2>2, <3>1
    <3>3. QED BY <1>4, <3>1, <3>2
  <2>4. QED BY <1>2, <1>3, <1>4, <2>3
<1>6. ASSUME NEW t \in Turns, turn[t].phase \in {"running", "cold"},
             turn'[t] = [turn[t] EXCEPT !.kill = TRUE]
      PROVE  /\ Legal(HandleOf(turn[t]), HandleOf(turn'[t]))
             /\ turn'[t].phase = turn[t].phase /\ Shape(turn'[t])
             /\ turn'[t].entry = turn[t].entry
  <2>1. turn[t] \in TurnState /\ Shape(turn[t])
    BY <1>2 DEF TurnInv
  <2>2. QED BY <1>6, <2>1, CancelLegal
<1>7. CASE ShutdownBegin
  <2>1. ASSUME NEW t \in Turns
        PROVE  \/ turn[t].phase = "waiting" /\ turn'[t] = Rejected
               \/ turn[t].phase = "cold" /\ turn'[t] = [turn[t] EXCEPT !.kill = TRUE]
               \/ turn'[t] = turn[t]
    BY <1>7 DEF ShutdownBegin
  <2>2. ASSUME NEW t \in Turns, turn[t].phase = "waiting", turn'[t] = Rejected
        PROVE  Legal(HandleOf(turn[t]), HandleOf(turn'[t]))
    <3>1. turn[t] \in TurnState /\ ~turn[t].kill
      BY <1>2, <2>2 DEF TurnInv, Shape
    <3>2. QED BY <2>2, <3>1, ResolveLegal
  <2>3. QED BY <1>2, <1>3, <1>4, <1>6, <2>1, <2>2
<1>8. CASE ShutdownDestroy
  <2>1. ASSUME NEW t \in Turns, turn'[t] # turn[t]
        PROVE  turn[t].phase = "running" /\ turn'[t] = [turn[t] EXCEPT !.kill = TRUE]
    <3>1. t # None
      BY ClaudePoolAssumption
    <3>2. turn'[t] = [turn[t] EXCEPT !.kill = TRUE] /\ \E q \in entries : current[q] = t
      BY <1>8, <2>1 DEF ShutdownDestroy, DrainedEntries
    <3>3. QED BY <3>1, <3>2 DEF TypeOK, TurnInv, CurrentInv, Idle
  <2>2. QED BY <1>2, <1>3, <1>4, <1>6, <2>1
<1>9. QED BY <1>5, <1>7, <1>8

LEMMA BreakerStep ==
  ASSUME TypeOK, BreakerInv, [Next]_vars
  PROVE  BreakerInv'
<1>1. ASSUME prewarm'.failures = prewarm.failures \/ prewarm'.failures = 0,
             prewarm'.disabled = prewarm.disabled
      PROVE  BreakerInv'
  BY <1>1, ClaudePoolAssumption DEF BreakerInv
<1>2. prewarm \in Standby
  BY DEF TypeOK
<1>3. ASSUME NEW t \in Turns, NEW o, Admit(t, o)
      PROVE  BreakerInv'
  <2>1. CASE prewarm' = prewarm
    BY <1>1, <2>1
  <2>2. CASE Place(t, o)
    <3> DEFINE pw == IF RefreshStandby(o)
                     THEN [prewarm EXCEPT !.proto = o.sig, !.due = TRUE] ELSE prewarm
    <3>1. /\ pw.failures = prewarm.failures /\ pw.disabled = prewarm.disabled
          /\ [pw EXCEPT !.failures = 0, !.due = TRUE].failures = 0
          /\ [pw EXCEPT !.failures = 0, !.due = TRUE].disabled = prewarm.disabled
      BY <1>2 DEF Standby
    <3>2. prewarm' = pw \/ prewarm' = [pw EXCEPT !.failures = 0, !.due = TRUE]
      BY <2>2 DEF Place
    <3> HIDE DEF pw
    <3>3. QED BY <1>1, <3>1, <3>2
  <2>3. QED BY <1>3, <2>1, <2>2 DEF Admit
<1>4. ASSUME NEW t \in Turns, Run(t) \/ ResumeWaiter(t)
      PROVE  BreakerInv'
  <2>1. CASE Run(t)
    BY <1>3, <2>1 DEF Run
  <2>2. CASE ResumeWaiter(t)
    BY <1>1, <1>3, <2>2 DEF ResumeWaiter
  <2>3. QED BY <1>4, <2>1, <2>2
<1>5. CASE Prewarm \/ Replenish \/ RespawnTimer \/ IdleSweep \/ ShutdownBegin
  BY <1>1, <1>2, <1>5 DEF Prewarm, Replenish, RespawnTimer, IdleSweep, ShutdownBegin,
                         MaybeSpawnBlank, Standby
<1>6. ASSUME NEW p \in Pids, WarmExit(p)
      PROVE  BreakerInv'
  <2>1. PICK young \in BOOLEAN : prewarm' = AfterExit(p, young)
    BY <1>6 DEF WarmExit
  <2>2. prewarm.failures \in Nat /\ MaxPrewarmFailures \in Nat
    BY <1>2, ClaudePoolAssumption DEF Standby
  <2>3. CASE prewarm' = prewarm \/ prewarm' = [prewarm EXCEPT !.due = TRUE]
    BY <1>1, <1>2, <2>3 DEF Standby
  <2>4. CASE prewarm' = [prewarm EXCEPT !.failures = prewarm.failures + 1, !.disabled = TRUE]
    BY <1>2, <2>4 DEF Standby, BreakerInv
  <2>5. CASE /\ ~(prewarm.failures + 1 >= MaxPrewarmFailures)
             /\ prewarm' = [prewarm EXCEPT !.failures = prewarm.failures + 1, !.timer = TRUE]
    BY <1>2, <2>2, <2>5 DEF Standby, BreakerInv
  <2>6. QED BY <2>1, <2>3, <2>4, <2>5 DEF AfterExit
<1>7. ASSUME NEW t \in Turns,
             Interrupt(t) \/ Escalate(t) \/ Finalize(t) \/ ColdDone(t)
      PROVE  prewarm' = prewarm
  BY <1>7 DEF Interrupt, Escalate, Finalize, ColdDone
<1>8. ASSUME NEW p \in Pids,
             \/ RunLink(p) \/ PopLink(p) \/ ContentLine(p) \/ TasksChanged(p)
             \/ WakeupScheduled(p) \/ KeepaliveExpires(p) \/ UserResult(p)
             \/ FollowUpResult(p) \/ WakeupResult(p) \/ ColdResult(p) \/ ColdExit(p)
      PROVE  prewarm' = prewarm
  BY <1>8 DEF RunLink, PopLink, ContentLine, TasksChanged, WakeupScheduled,
              KeepaliveExpires, UserResult, FollowUpResult, WakeupResult, ColdResult, ColdExit
<1>9. CASE ShutdownDestroy \/ BeginPidWrite \/ EndPidWrite \/ UNCHANGED vars
  BY <1>1, <1>9 DEF ShutdownDestroy, BeginPidWrite, EndPidWrite, vars
<1>10. QED BY <1>1, <1>4, <1>5, <1>6, <1>7, <1>8, <1>9 DEF Next

IInv == TypeOK /\ TurnInv /\ BreakerInv

LEMMA InitInv == Init => IInv /\ Contract!Init
<1> SUFFICES ASSUME Init PROVE IInv /\ Contract!Init
  OBVIOUS
<1>1. TypeOK
  <2>1. 0 \in 0 .. MaxPrewarmFailures /\ <<>> \in Seq(Turns)
    BY ClaudePoolAssumption
  <2>2. QED BY <2>1, NoTurnType, NoProcType DEF Init, TypeOK, Standby, PidList
<1>2. TurnInv
  <2>1. Shape(NoTurn)
    BY DEF Shape, NoTurn
  <2>2. QED BY <2>1 DEF Init, TurnInv, ChainInv, CurrentInv, Idle
<1>3. BreakerInv
  BY ClaudePoolAssumption DEF Init, BreakerInv
<1>4. Contract!Init
  BY HandleType DEF Init, Contract!Init
<1>5. QED BY <1>1, <1>2, <1>3, <1>4 DEF IInv

LEMMA NextInv == IInv /\ [Next]_vars => IInv' /\ (Contract!Next \/ turn' = turn)
<1> SUFFICES ASSUME IInv, [Next]_vars
             PROVE  IInv' /\ (Contract!Next \/ turn' = turn)
  OBVIOUS
<1>1. TypeOK /\ TurnInv /\ BreakerInv
  BY DEF IInv
<1>2. BreakerInv'
  BY <1>1, BreakerStep
<1>3. CASE \/ Prewarm \/ Replenish \/ RespawnTimer \/ IdleSweep
           \/ BeginPidWrite \/ EndPidWrite
  BY <1>1, <1>2, <1>3, StandbyType, ShutdownType, QuietStep DEF IInv
<1>4. CASE ShutdownBegin \/ ShutdownDestroy
  BY <1>1, <1>2, <1>4, ShutdownType, ManyStep DEF IInv
<1>5. ASSUME NEW t \in Turns, Run(t) \/ ResumeWaiter(t)
      PROVE  IInv' /\ Contract!Next
  BY <1>1, <1>2, <1>5, PlacementType, PlacementStep DEF IInv
<1>6. ASSUME NEW t \in Turns, Interrupt(t) \/ Escalate(t) \/ Finalize(t)
      PROVE  IInv' /\ Contract!Next
  BY <1>1, <1>2, <1>6, StopType, StopStep DEF IInv
<1>7. ASSUME NEW t \in Turns, ColdDone(t)
      PROVE  IInv' /\ Contract!Next
  BY <1>1, <1>2, <1>7, ColdDoneType, ExitStep DEF IInv
<1>8. ASSUME NEW p \in Pids, RunLink(p) \/ PopLink(p)
      PROVE  IInv' /\ Contract!Next
  BY <1>1, <1>2, <1>8, PlacementType, PlacementStep DEF IInv
<1>9. ASSUME NEW p \in Pids, TasksChanged(p) \/ WakeupScheduled(p) \/ KeepaliveExpires(p)
      PROVE  IInv' /\ Contract!Next
  BY <1>1, <1>2, <1>9, LineType, QuietStep DEF IInv
<1>10. ASSUME NEW p \in Pids,
              ContentLine(p) \/ UserResult(p) \/ FollowUpResult(p) \/ WakeupResult(p)
       PROVE  IInv' /\ Contract!Next
  BY <1>1, <1>2, <1>10, LineType, ResultType, ResultStep DEF IInv
<1>11. ASSUME NEW p \in Pids, WarmExit(p)
       PROVE  IInv' /\ Contract!Next
  BY <1>1, <1>2, <1>11, ExitType, ExitStep DEF IInv
<1>12. ASSUME NEW p \in Pids, ColdResult(p)
       PROVE  IInv' /\ Contract!Next
  BY <1>1, <1>2, <1>12, ExitType, QuietStep DEF IInv
<1>13. ASSUME NEW p \in Pids, ColdExit(p)
       PROVE  IInv' /\ Contract!Next
  BY <1>1, <1>2, <1>13, ExitType, ManyStep DEF IInv
<1>14. CASE UNCHANGED vars
  BY <1>1, <1>2, <1>14, KeepInv DEF IInv, vars, TypeOK
<1>15. QED
  BY <1>3, <1>4, <1>5, <1>6, <1>7, <1>8, <1>9, <1>10, <1>11, <1>12, <1>13, <1>14 DEF Next

LEMMA Invariant == Spec => []IInv
<1>1. QED BY InitInv, NextInv, PTL DEF Spec

\* The pool's state keeps its types: in particular a turn placed on a child
\* names a child, and the count of failed standbys stops at its limit.
THEOREM TypeCorrect == Spec => []TypeOK
<1>1. IInv => TypeOK
  BY DEF IInv
<1>2. QED BY <1>1, Invariant, PTL

\* A chain holds only turns queued on its own child, and a child's turn in
\* flight runs there: the bookkeeping that keeps two turns off one wire.
THEOREM TurnsKeepPlaces == Spec => []TurnInv
<1>1. IInv => TurnInv
  BY DEF IInv
<1>2. QED BY <1>1, Invariant, PTL

\* The pool implements the runner contract, whatever the turns, threads and
\* children: done settles once, a cancelled turn never rejects, and only a
\* turn neither cancelled nor seen is executed again as a one-shot.
THEOREM KeepsRunnerContract == Spec => KeepsContract
<1>1. turn' = turn => UNCHANGED [t \in Turns |-> HandleOf(turn[t])]
  OBVIOUS
<1>2. IInv /\ [Next]_vars => [Contract!Next]_[t \in Turns |-> HandleOf(turn[t])]
  BY <1>1, NextInv
<1>3. QED BY <1>2, InitInv, Invariant, PTL DEF Spec, KeepsContract, Contract!Spec

-----------------------------------------------------------------------------
(* One writer on a thread, one turn on a wire.  The invariant is stated of *)
(* any turns tn, children pr, entries E, dying D, interrupted exits X,     *)
(* turns in flight cur and chains ch, since placing a turn retires some    *)
(* children, spawns another and queues on it in one step.                  *)

IsOpen(r) == r.phase \notin {"none", "resolved", "rejected"}
Lives(c)  == c.st # "free"

Typed(tn, pr, E, D, X, cur, ch) ==
  /\ tn \in [Turns -> TurnState] /\ pr \in [Pids -> PoolEntry]
  /\ E \subseteq Pids /\ D \subseteq Pids /\ X \subseteq Pids
  /\ cur \in [Pids -> Turns \cup {None}] /\ ch \in [Pids -> Seq(Turns)]

\* The turn in flight on child p.
WireOf(p, tn, pr, cur, ch) ==
  cur[p] # None =>
    /\ cur[p] \in Turns /\ tn[cur[p]].phase = "running" /\ tn[cur[p]].entry = p
    /\ ch[p] # <<>> /\ Head(ch[p]) = cur[p] /\ Lives(pr[p]) /\ pr[p].role = "warm"

Wires(tn, pr, cur, ch) ==
  /\ \A p \in Pids : WireOf(p, tn, pr, cur, ch)
  /\ \A t \in Turns : tn[t].phase = "running" => tn[t].entry \in Pids /\ cur[tn[t].entry] = t

\* #entries and #dying are the warm children that have not exited; a one-shot
\* is some thread's.
CensusOf(p, c, E, D, X) ==
  /\ p \in E \cup D <=> Lives(c) /\ c.role = "warm"
  /\ ~(p \in E /\ p \in D) /\ (p \in X => p \in D)
  /\ Lives(c) /\ c.role = "cold" => c.thread # None
Census(pr, E, D, X) == \A p \in Pids : CensusOf(p, pr[p], E, D, X)

\* The standby has nothing to do, and nobody waits for it.
BlankOf(c, links) ==
  c.blank => c.thread = None /\ c.inbox = <<>> /\ ~c.tasks /\ ~c.wake /\ links = <<>>
Blanks(pr, ch) == \A p \in Pids : BlankOf(pr[p], ch[p])

OnChain(t, links) == \E i \in DOMAIN links : links[i] = t

\* A turn and its child are of one thread.
SeatOf(t, r, pr, ch) ==
  /\ IsOpen(r) => r.thread \in Threads
  /\ r.timer # "none" => r.kill
  /\ r.phase = "queued" => r.entry \in Pids /\ OnChain(t, ch[r.entry])
  /\ r.phase \in {"queued", "running"} /\ Lives(pr[r.entry]) =>
       pr[r.entry].role = "warm" /\ pr[r.entry].thread = r.thread
  /\ r.phase = "cold" /\ r.entry # None =>
       /\ r.entry \in Pids /\ Lives(pr[r.entry]) /\ pr[r.entry].role = "cold"
       /\ pr[r.entry].thread = r.thread
Seats(tn, pr, ch) == \A t \in Turns : SeatOf(t, tn[t], pr, ch)

\* The children that answer for their thread: its entry or its one-shot.
Answers(pr, E, p) == p \in E \/ (Lives(pr[p]) /\ pr[p].role = "cold")

OneTurn(tn) ==
  \A t, u \in Turns : IsOpen(tn[t]) /\ IsOpen(tn[u]) /\ tn[t].thread = tn[u].thread => t = u

\* Only its own child answers for the thread of an open turn, and only it may
\* have been interrupted there; nothing answers where a turn waits.
Claims(tn, pr, E, X) == \A t \in Turns, p \in Pids :
  IsOpen(tn[t]) /\ pr[p].thread = tn[t].thread =>
    /\ Answers(pr, E, p) => tn[t].phase # "waiting" /\ tn[t].entry = p
    /\ p \in X /\ tn[t].phase # "waiting" => tn[t].entry = p

\* A thread has one child that answers for it, and none before its
\* interrupted one has exited.
Apart(pr, E, X) == \A p, q \in Pids :
  Answers(pr, E, p) /\ pr[p].thread = pr[q].thread /\ pr[p].thread # None =>
    (Answers(pr, E, q) => p = q) /\ q \notin X

Posts(tn, pr, E, D, X, cur, ch) ==
  /\ Typed(tn, pr, E, D, X, cur, ch)
  /\ Wires(tn, pr, cur, ch) /\ Census(pr, E, D, X) /\ Blanks(pr, ch) /\ Seats(tn, pr, ch)
  /\ SerialThreads => OneTurn(tn) /\ Claims(tn, pr, E, X) /\ Apart(pr, E, X)

\* The list being written, or the one on disk when its write did not fail, is up
\* to date unless a later write is queued.
PidBook ==
  PidListFile /\ ~disk.queued =>
    IF disk.writing THEN disk.snap = entries \cup dying
    ELSE disk.lost \/ disk.list = entries \cup dying

-----------------------------------------------------------------------------
(* Children end and turns move on; no child is born.                       *)

\* Child p was c and is d; a child that is gone is nobody's.
Ages(p, c, d, E, Eb, links) ==
  /\ Lives(d) => Lives(c) /\ d.role = c.role /\ d.thread = c.thread
  /\ d.blank => c.blank /\ d.thread = c.thread /\ d.inbox = <<>> /\ ~d.tasks /\ ~d.wake
                /\ links = <<>>
  /\ p \in Eb => p \in E /\ Lives(d)

\* Turn t was r and is x.
MovesOn(t, r, x, pb, Eb, curb, chb) ==
  /\ IsOpen(x) => IsOpen(r) /\ x.thread = r.thread
  /\ x.timer # "none" => x.kill
  /\ x.phase = "queued" => r.phase = "queued" /\ x.entry = r.entry /\ OnChain(t, chb[x.entry])
  /\ x.phase = "running" =>
       r.phase \in {"queued", "running"} /\ x.entry = r.entry /\ curb[x.entry] = t
  /\ x.phase = "cold" =>
       /\ r.phase = "cold" /\ x.entry \in {r.entry, None}
       /\ r.entry # None => (x.entry = None <=> ~Lives(pb[r.entry]))
  /\ x.phase = "waiting" =>
       \/ r.phase = "waiting"
       \/ SerialThreads => \A p \in Pids : Answers(pb, Eb, p) => pb[p].thread # x.thread

\* Child p is interrupted on behalf of a running turn.
Retires(p, tn, un, pr) ==
  /\ Lives(pr[p]) /\ pr[p].role = "warm"
  /\ \E t \in Turns : tn[t].phase = "running" /\ tn[t].entry = p /\ un[t].phase = "running"

LEMMA PhaseNames ==
  ASSUME NEW r \in TurnState
  PROVE  IsOpen(r) <=> r.phase \in {"waiting", "queued", "running", "cold"}
BY DEF IsOpen, TurnState, Phases

LEMMA PostsAge ==
  ASSUME NEW tn, NEW pr, NEW E, NEW D, NEW X, NEW cur, NEW ch,
         Posts(tn, pr, E, D, X, cur, ch),
         NEW un, NEW pb, NEW Eb, NEW Db, NEW Xb, NEW curb, NEW chb,
         Typed(un, pb, Eb, Db, Xb, curb, chb),
         \A p \in Pids : /\ Ages(p, pr[p], pb[p], E, Eb, chb[p])
                         /\ CensusOf(p, pb[p], Eb, Db, Xb)
                         /\ WireOf(p, un, pb, curb, chb)
                         /\ p \in Xb => p \in X \/ Retires(p, tn, un, pr),
         \A t \in Turns : MovesOn(t, tn[t], un[t], pb, Eb, curb, chb)
  PROVE  Posts(un, pb, Eb, Db, Xb, curb, chb)
<1>1. /\ \A t \in Turns : tn[t] \in TurnState /\ un[t] \in TurnState
      /\ \A p \in Pids : pr[p] \in PoolEntry /\ pb[p] \in PoolEntry
      /\ \A t \in Turns : tn[t].entry \in Pids \cup {None} /\ un[t].entry \in Pids \cup {None}
  BY DEF Posts, Typed, TurnState
<1>2. None \notin Threads /\ None \notin Turns /\ None \notin Pids
  BY ClaudePoolAssumption
<1>3. ASSUME NEW t \in Turns
      PROVE  /\ MovesOn(t, tn[t], un[t], pb, Eb, curb, chb) /\ SeatOf(t, tn[t], pr, ch)
             /\ un[t].phase \in {"queued", "running"} =>
                  tn[t].phase \in {"queued", "running"} /\ un[t].entry = tn[t].entry
                  /\ un[t].entry \in Pids /\ un[t].thread = tn[t].thread
  <2>1. MovesOn(t, tn[t], un[t], pb, Eb, curb, chb) /\ SeatOf(t, tn[t], pr, ch)
    BY DEF Posts, Seats
  <2>2. tn[t].phase = "running" => tn[t].entry \in Pids
    BY DEF Posts, Wires
  <2> QED BY <1>1, <2>1, <2>2 DEF MovesOn, SeatOf, IsOpen
<1>4. Wires(un, pb, curb, chb)
  <2>1. ASSUME NEW t \in Turns, un[t].phase = "running"
        PROVE  un[t].entry \in Pids /\ curb[un[t].entry] = t
    BY <1>3, <2>1 DEF MovesOn
  <2> QED BY <2>1 DEF Wires
<1>5. Census(pb, Eb, Db, Xb) /\ Blanks(pb, chb)
  BY DEF Posts, Blanks, BlankOf, Census, Ages
<1>6. Seats(un, pb, chb)
  <2> SUFFICES ASSUME NEW t \in Turns PROVE SeatOf(t, un[t], pb, chb)
    BY DEF Seats
  <2> DEFINE r == tn[t]
             x == un[t]
  <2>1. MovesOn(t, r, x, pb, Eb, curb, chb) /\ SeatOf(t, r, pr, ch)
    BY <1>3
  <2>2. IsOpen(x) => x.thread \in Threads
    BY <2>1 DEF MovesOn, SeatOf
  <2>3. x.phase = "queued" => x.entry \in Pids /\ OnChain(t, chb[x.entry])
    BY <2>1 DEF MovesOn, SeatOf
  <2>4. ASSUME x.phase \in {"queued", "running"}, Lives(pb[x.entry])
        PROVE  pb[x.entry].role = "warm" /\ pb[x.entry].thread = x.thread
    <3>1. /\ r.phase \in {"queued", "running"} /\ x.entry = r.entry /\ x.entry \in Pids
          /\ x.thread = r.thread
      BY <1>3, <2>4
    <3>2. Ages(r.entry, pr[r.entry], pb[r.entry], E, Eb, chb[r.entry])
      BY <3>1
    <3> QED BY <2>1, <2>4, <3>1, <3>2 DEF Ages, SeatOf
  <2>5. ASSUME x.phase = "cold", x.entry # None
        PROVE  /\ x.entry \in Pids /\ Lives(pb[x.entry]) /\ pb[x.entry].role = "cold"
               /\ pb[x.entry].thread = x.thread
    <3>1. r.phase = "cold" /\ x.entry = r.entry /\ r.entry # None /\ Lives(pb[r.entry])
          /\ IsOpen(x)
      BY <2>1, <2>5 DEF MovesOn, IsOpen
    <3>2. x.thread = r.thread /\ r.entry \in Pids
      BY <2>1, <3>1 DEF MovesOn, SeatOf
    <3>3. Ages(r.entry, pr[r.entry], pb[r.entry], E, Eb, chb[r.entry])
      BY <3>2
    <3> QED BY <2>1, <3>1, <3>2, <3>3 DEF Ages, SeatOf
  <2>6. x.timer # "none" => x.kill
    BY <2>1 DEF MovesOn
  <2> HIDE DEF r, x
  <2>7. SeatOf(t, x, pb, chb)
    BY <2>2, <2>3, <2>4, <2>5, <2>6 DEF SeatOf
  <2> QED BY <2>7 DEF x
<1>7. ASSUME SerialThreads PROVE OneTurn(un) /\ Claims(un, pb, Eb, Xb) /\ Apart(pb, Eb, Xb)
  <2>1. OneTurn(tn) /\ Claims(tn, pr, E, X) /\ Apart(pr, E, X)
    BY <1>7 DEF Posts
  <2>2. OneTurn(un)
    BY <1>3, <2>1 DEF OneTurn, MovesOn
  <2>3. ASSUME NEW p \in Pids, Answers(pb, Eb, p)
        PROVE  Answers(pr, E, p) /\ Lives(pb[p]) /\ pb[p].thread = pr[p].thread
    BY <2>3 DEF Answers, Ages
  <2>4. ASSUME NEW p \in Pids, p \in Xb
        PROVE  /\ Lives(pb[p]) /\ pb[p].role = "warm" /\ p \notin Eb
               /\ pb[p].thread = pr[p].thread /\ (p \in X \/ Retires(p, tn, un, pr))
    BY <2>4 DEF CensusOf, Ages
  <2>5. ASSUME NEW t \in Turns, NEW p \in Pids, IsOpen(un[t]), pb[p].thread = un[t].thread
        PROVE  /\ Answers(pb, Eb, p) => un[t].phase # "waiting" /\ un[t].entry = p
               /\ p \in Xb /\ un[t].phase # "waiting" => un[t].entry = p
    <3>1. IsOpen(tn[t]) /\ un[t].thread = tn[t].thread
      BY <1>3, <2>5 DEF MovesOn
    <3>2. ASSUME un[t].phase # "waiting", tn[t].entry = p, Lives(pb[p]) PROVE un[t].entry = p
      <4>1. un[t].phase \in {"queued", "running", "cold"}
        BY <1>1, <2>5, <3>2, PhaseNames
      <4> QED BY <1>2, <1>3, <3>2, <4>1 DEF MovesOn
    <3>3. ASSUME Answers(pb, Eb, p) PROVE un[t].phase # "waiting" /\ un[t].entry = p
      <4>1. tn[t].phase # "waiting" /\ tn[t].entry = p /\ Lives(pb[p])
        BY <2>1, <2>3, <2>5, <3>1, <3>3 DEF Claims
      <4>2. un[t].phase # "waiting"
        BY <1>3, <1>7, <2>5, <3>3, <4>1 DEF MovesOn
      <4> QED BY <3>2, <4>1, <4>2
    <3>4. ASSUME p \in Xb, un[t].phase # "waiting" PROVE un[t].entry = p
      <4>1. Lives(pb[p]) /\ pb[p].thread = pr[p].thread /\ (p \in X \/ Retires(p, tn, un, pr))
        BY <2>4, <3>4
      <4>2. CASE p \in X
        <5>1. tn[t].phase # "waiting"
          <6>1. un[t].phase \in {"queued", "running", "cold"}
            BY <1>1, <2>5, <3>4, PhaseNames
          <6> QED BY <1>3, <6>1 DEF MovesOn
        <5>2. tn[t].entry = p
          BY <2>1, <2>5, <3>1, <4>1, <4>2, <5>1 DEF Claims
        <5> QED BY <3>2, <3>4, <4>1, <5>2
      <4>3. CASE Retires(p, tn, un, pr)
        <5>1. PICK u \in Turns : tn[u].phase = "running" /\ tn[u].entry = p /\ un[u].phase = "running"
          BY <4>3 DEF Retires
        <5>2. pr[p].thread = tn[u].thread /\ IsOpen(tn[u])
          BY <1>3, <4>3, <5>1 DEF Retires, SeatOf, IsOpen
        <5>3. u = t
          BY <2>1, <2>5, <3>1, <4>1, <5>2 DEF OneTurn
        <5> QED BY <1>3, <5>1, <5>3
      <4> QED BY <4>1, <4>2, <4>3
    <3> QED BY <3>3, <3>4
  <2>6. ASSUME NEW p \in Pids, NEW q \in Pids, Answers(pb, Eb, p), pb[p].thread = pb[q].thread,
               pb[p].thread # None
        PROVE  (Answers(pb, Eb, q) => p = q) /\ q \notin Xb
    <3>1. Answers(pr, E, p) /\ pb[p].thread = pr[p].thread
      BY <2>3, <2>6
    <3>2. Answers(pb, Eb, q) => p = q
      BY <2>1, <2>3, <2>6, <3>1 DEF Apart
    <3>3. ASSUME q \in Xb PROVE FALSE
      <4>1. /\ pb[q].thread = pr[q].thread /\ pb[q].role = "warm" /\ q \notin Eb
            /\ (q \in X \/ Retires(q, tn, un, pr))
        BY <2>4, <3>3
      <4>2. Retires(q, tn, un, pr)
        BY <2>1, <2>6, <3>1, <4>1 DEF Apart
      <4>3. PICK u \in Turns : tn[u].phase = "running" /\ tn[u].entry = q
        BY <4>2 DEF Retires
      <4>4. pr[q].thread = tn[u].thread /\ IsOpen(tn[u])
        BY <1>3, <4>2, <4>3 DEF Retires, SeatOf, IsOpen
      <4>5. tn[u].entry = p
        BY <2>1, <2>6, <3>1, <4>1, <4>4 DEF Claims
      <4> QED BY <2>6, <4>1, <4>3, <4>5 DEF Answers
    <3> QED BY <3>2, <3>3
  <2> QED BY <2>2, <2>5, <2>6 DEF Claims, Apart
<1> QED BY <1>4, <1>5, <1>6, <1>7 DEF Posts

-----------------------------------------------------------------------------
(* Turns begin, and children are born.                                     *)

\* Turn t has thread th to itself, and nothing answers for it.
Alone(t, th, tn) ==
  SerialThreads => \A u \in Turns : u # t /\ IsOpen(tn[u]) => tn[u].thread # th
Unanswered(th, pr, E) ==
  SerialThreads => \A p \in Pids : Answers(pr, E, p) => pr[p].thread # th
Unretired(th, pr, X) == SerialThreads => \A p \in X : pr[p].thread # th

LEMMA PostsType ==
  ASSUME NEW tn, NEW pr, NEW E, NEW D, NEW X, NEW cur, NEW ch,
         Posts(tn, pr, E, D, X, cur, ch)
  PROVE  /\ tn \in [Turns -> TurnState] /\ pr \in [Pids -> PoolEntry]
         /\ E \subseteq Pids /\ D \subseteq Pids /\ X \subseteq Pids
         /\ cur \in [Pids -> Turns \cup {None}] /\ ch \in [Pids -> Seq(Turns)]
         /\ \A t \in Turns : tn[t] \in TurnState /\ SeatOf(t, tn[t], pr, ch)
                             /\ (IsOpen(tn[t]) => tn[t].thread \in Threads)
         /\ \A p \in Pids : /\ pr[p] \in PoolEntry /\ WireOf(p, tn, pr, cur, ch)
                            /\ CensusOf(p, pr[p], E, D, X) /\ BlankOf(pr[p], ch[p])
         /\ \A t \in Turns : tn[t].phase = "running" => tn[t].entry \in Pids /\ cur[tn[t].entry] = t
BY DEF Posts, Typed, Seats, SeatOf, Wires, Census, Blanks

\* A turn that was not accepted or waited is refused, settled or waits.
LEMMA PostsBegin ==
  ASSUME NEW tn, NEW pr, NEW E, NEW D, NEW X, NEW cur, NEW ch,
         Posts(tn, pr, E, D, X, cur, ch), NEW t \in Turns, NEW x \in TurnState,
         tn[t].phase \in {"none", "waiting"}, x.timer = "none",
         \/ ~IsOpen(x)
         \/ /\ x.phase = "waiting" /\ x.thread \in Threads
            /\ Alone(t, x.thread, tn) /\ Unanswered(x.thread, pr, E)
  PROVE  Posts([tn EXCEPT ![t] = x], pr, E, D, X, cur, ch)
<1> DEFINE un == [tn EXCEPT ![t] = x]
<1>1. /\ un[t] = x /\ \A u \in Turns : u # t => un[u] = tn[u]
      /\ x.phase \notin {"queued", "running", "cold"} /\ None \notin Turns
  BY PostsType, ClaudePoolAssumption DEF IsOpen
<1>2. Typed(un, pr, E, D, X, cur, ch)
  BY DEF Posts, Typed
<1> HIDE DEF un
<1>3. Wires(un, pr, cur, ch)
  <2>1. ASSUME NEW p \in Pids PROVE WireOf(p, un, pr, cur, ch)
    <3>1. cur[p] # None => cur[p] # t /\ cur[p] \in Turns
      BY PostsType DEF WireOf
    <3> QED BY <1>1, <3>1, PostsType DEF WireOf
  <2>2. ASSUME NEW u \in Turns, un[u].phase = "running"
        PROVE  un[u].entry \in Pids /\ cur[un[u].entry] = u
    BY <1>1, <2>2, PostsType
  <2> QED BY <2>1, <2>2 DEF Wires
<1>4. Census(pr, E, D, X) /\ Blanks(pr, ch)
  BY DEF Posts
<1>5. Seats(un, pr, ch)
  <2>1. SeatOf(t, x, pr, ch)
    BY <1>1 DEF SeatOf
  <2>2. \A u \in Turns : u # t => SeatOf(u, tn[u], pr, ch)
    BY PostsType
  <2> QED BY <1>1, <2>1, <2>2 DEF Seats
<1>6. ASSUME SerialThreads PROVE OneTurn(un) /\ Claims(un, pr, E, X) /\ Apart(pr, E, X)
  <2>1. OneTurn(un)
    BY <1>1, <1>6 DEF Posts, OneTurn, Alone
  <2>2. Claims(un, pr, E, X)
    BY <1>1, <1>6 DEF Posts, Claims, Unanswered
  <2> QED BY <1>6, <2>1, <2>2 DEF Posts
<1>7. Posts(un, pr, E, D, X, cur, ch)
  BY <1>2, <1>3, <1>4, <1>5, <1>6 DEF Posts
<1> QED BY <1>7 DEF un

\* A child without a thread is spawned: the standby, or one to be given away.
LEMMA PostsSpawn ==
  ASSUME NEW tn, NEW pr, NEW E, NEW D, NEW X, NEW cur, NEW ch,
         Posts(tn, pr, E, D, X, cur, ch), NEW p \in Pids, NEW c \in PoolEntry,
         pr[p].st = "free", ch[p] = <<>>, Lives(c), c.role = "warm", BlankOf(c, <<>>),
         c.thread = None
  PROVE  Posts(tn, [pr EXCEPT ![p] = c], E \cup {p}, D, X, cur, ch)
<1> DEFINE pb == [pr EXCEPT ![p] = c]
           Eb == E \cup {p}
<1>1. /\ pb[p] = c /\ (\A q \in Pids : q # p => pb[q] = pr[q]) /\ ~Lives(pr[p])
      /\ None \notin Threads
  BY PostsType, ClaudePoolAssumption DEF Lives
<1>2. Typed(tn, pb, Eb, D, X, cur, ch)
  BY DEF Posts, Typed
<1>3. \A q \in Pids : q \in Eb <=> q = p \/ q \in E
  OBVIOUS
<1> HIDE DEF pb, Eb
<1>4. Wires(tn, pb, cur, ch)
  <2>1. ASSUME NEW q \in Pids PROVE WireOf(q, tn, pb, cur, ch)
    <3>1. WireOf(q, tn, pr, cur, ch)
      BY PostsType
    <3>2. CASE q # p
      BY <1>1, <3>1, <3>2 DEF WireOf
    <3>3. CASE q = p
      BY <1>1, <3>1, <3>3 DEF WireOf
    <3> QED BY <3>2, <3>3
  <2> QED BY <2>1, PostsType DEF Wires
<1>5. Census(pb, Eb, D, X)
  <2>1. ASSUME NEW q \in Pids PROVE CensusOf(q, pb[q], Eb, D, X)
    BY <1>1, <1>3, PostsType DEF CensusOf
  <2> QED BY <2>1 DEF Census
<1>6. Blanks(pb, ch)
  <2>1. ASSUME NEW q \in Pids PROVE BlankOf(pb[q], ch[q])
    BY <1>1, PostsType
  <2> QED BY <2>1 DEF Blanks
<1>7. Seats(tn, pb, ch)
  <2> SUFFICES ASSUME NEW u \in Turns PROVE SeatOf(u, tn[u], pb, ch)
    BY DEF Seats
  <2>1. SeatOf(u, tn[u], pr, ch)
    BY PostsType
  <2>2. CASE tn[u].entry # p
    <3>1. tn[u].entry \in Pids => pb[tn[u].entry] = pr[tn[u].entry]
      BY <1>1, <2>2
    <3>2. tn[u].phase \in {"queued", "running", "cold"} => 
             \/ tn[u].entry \in Pids
             \/ tn[u].phase = "cold" /\ tn[u].entry = None
      BY <2>1, PostsType DEF SeatOf
    <3> QED BY <2>1, <3>1, <3>2 DEF SeatOf
  <2>3. CASE tn[u].entry = p
    <3>1. tn[u].phase # "queued"
      BY <2>1, <2>3 DEF SeatOf, OnChain
    <3>2. tn[u].phase # "running"
      <4>1. WireOf(p, tn, pr, cur, ch)
        BY PostsType
      <4>2. cur[p] = None
        BY <1>1, <4>1 DEF WireOf
      <4>3. tn[u].phase = "running" => cur[tn[u].entry] = u
        BY PostsType
      <4> QED BY <2>3, <4>2, <4>3, ClaudePoolAssumption
    <3>3. tn[u].phase # "cold"
      <4>1. p # None
        BY ClaudePoolAssumption
      <4> QED BY <1>1, <2>1, <2>3, <4>1 DEF SeatOf
    <3> QED BY <2>1, <3>1, <3>2, <3>3 DEF SeatOf
  <2> QED BY <2>2, <2>3
<1>8. ASSUME SerialThreads PROVE OneTurn(tn) /\ Claims(tn, pb, Eb, X) /\ Apart(pb, Eb, X)
  <2>1. OneTurn(tn) /\ Claims(tn, pr, E, X) /\ Apart(pr, E, X)
    BY <1>8 DEF Posts
  <2>2. p \notin X
    BY <1>1, PostsType DEF CensusOf
  <2>3. ASSUME NEW q \in Pids PROVE q # p => (Answers(pb, Eb, q) <=> Answers(pr, E, q))
    BY <1>1, <1>3 DEF Answers
  <2>4. Claims(tn, pb, Eb, X)
    <3> SUFFICES ASSUME NEW t \in Turns, NEW q \in Pids, IsOpen(tn[t]), pb[q].thread = tn[t].thread
                 PROVE  /\ Answers(pb, Eb, q) => tn[t].phase # "waiting" /\ tn[t].entry = q
                        /\ q \in X /\ tn[t].phase # "waiting" => tn[t].entry = q
      BY DEF Claims
    <3>1. q # p
      BY <1>1, PostsType
    <3> QED BY <1>1, <2>1, <2>3, <3>1 DEF Claims
  <2>5. Apart(pb, Eb, X)
    <3> SUFFICES ASSUME NEW q \in Pids, NEW s \in Pids, Answers(pb, Eb, q),
                        pb[q].thread = pb[s].thread, pb[q].thread # None
                 PROVE  (Answers(pb, Eb, s) => q = s) /\ s \notin X
      BY DEF Apart
    <3>1. q # p /\ s # p
      BY <1>1
    <3> QED BY <1>1, <2>1, <2>3, <3>1 DEF Apart
  <2> QED BY <2>1, <2>4, <2>5
<1>9. Posts(tn, pb, Eb, D, X, cur, ch)
  BY <1>2, <1>4, <1>5, <1>6, <1>7, <1>8 DEF Posts
<1> QED BY <1>9 DEF pb, Eb

\* A turn is queued on child p, which is of its thread from then on.
LEMMA PostsPut ==
  ASSUME NEW tn, NEW pr, NEW E, NEW D, NEW X, NEW cur, NEW ch,
         Posts(tn, pr, E, D, X, cur, ch), NEW t \in Turns, NEW x \in TurnState,
         NEW p \in E, NEW d \in PoolEntry,
         tn[t].phase \in {"none", "waiting"}, x.phase = "queued", x.entry = p,
         x.timer = "none", x.thread \in Threads,
         Lives(d), d.role = "warm", d.thread = x.thread, ~d.blank,
         pr[p].thread \in {None, x.thread},
         Alone(t, x.thread, tn), Unretired(x.thread, pr, X),
         SerialThreads => \A q \in Pids : Answers(pr, E, q) /\ q # p => pr[q].thread # x.thread
  PROVE  Posts([tn EXCEPT ![t] = x], [pr EXCEPT ![p] = d], E, D, X, cur,
               [ch EXCEPT ![p] = Append(@, t)])
<1> DEFINE un == [tn EXCEPT ![t] = x]
           pb == [pr EXCEPT ![p] = d]
           cb == [ch EXCEPT ![p] = Append(@, t)]
<1>1. /\ p \in Pids /\ un[t] = x /\ (\A u \in Turns : u # t => un[u] = tn[u])
      /\ pb[p] = d /\ (\A q \in Pids : q # p => pb[q] = pr[q])
      /\ cb[p] = Append(ch[p], t) /\ (\A q \in Pids : q # p => cb[q] = ch[q])
      /\ ch[p] \in Seq(Turns) /\ None \notin Turns /\ None \notin Threads /\ None \notin Pids
  BY PostsType, ClaudePoolAssumption
<1>2. Lives(pr[p]) /\ pr[p].role = "warm" /\ p \notin D /\ p \notin X
  BY <1>1, PostsType DEF CensusOf
<1>3. Typed(un, pb, E, D, X, cur, cb)
  <2>1. Append(ch[p], t) \in Seq(Turns)
    BY <1>1
  <2> QED BY <2>1, PostsType DEF Typed
<1> HIDE DEF un, pb, cb
<1>4. Wires(un, pb, cur, cb)
  <2>1. ASSUME NEW q \in Pids, cur[q] # None PROVE WireOf(q, un, pb, cur, cb)
    <3>1. /\ cur[q] \in Turns /\ tn[cur[q]].phase = "running" /\ tn[cur[q]].entry = q
          /\ ch[q] # <<>> /\ Head(ch[q]) = cur[q] /\ Lives(pr[q]) /\ pr[q].role = "warm"
      BY <2>1, PostsType DEF WireOf
    <3>2. un[cur[q]] = tn[cur[q]]
      BY <1>1, <3>1
    <3>3. cb[q] # <<>> /\ Head(cb[q]) = Head(ch[q])
      BY <1>1, <3>1
    <3>4. Lives(pb[q]) /\ pb[q].role = "warm"
      BY <1>1, <3>1
    <3> QED BY <3>1, <3>2, <3>3, <3>4 DEF WireOf
  <2>2. ASSUME NEW u \in Turns, un[u].phase = "running"
        PROVE  un[u].entry \in Pids /\ cur[un[u].entry] = u
    <3>1. un[u] = tn[u]
      BY <1>1, <2>2
    <3> QED BY <2>2, <3>1, PostsType
  <2> QED BY <2>1, <2>2 DEF Wires, WireOf
<1>5. Census(pb, E, D, X)
  <2>1. ASSUME NEW q \in Pids PROVE CensusOf(q, pb[q], E, D, X)
    <3>1. CensusOf(q, pr[q], E, D, X)
      BY PostsType
    <3> QED BY <1>1, <1>2, <3>1 DEF CensusOf
  <2> QED BY <2>1 DEF Census
<1>6. Blanks(pb, cb)
  <2>1. ASSUME NEW q \in Pids PROVE BlankOf(pb[q], cb[q])
    <3>1. CASE q = p
      BY <1>1, <3>1 DEF BlankOf
    <3>2. CASE q # p
      BY <1>1, <3>2, PostsType
    <3> QED BY <3>1, <3>2
  <2> QED BY <2>1 DEF Blanks
<1>7. Seats(un, pb, cb)
  <2>1. SeatOf(t, x, pb, cb)
    <3>1. OnChain(t, cb[p])
      <4>1. Len(ch[p]) + 1 \in DOMAIN cb[p] /\ cb[p][Len(ch[p]) + 1] = t
        BY <1>1
      <4> QED BY <4>1 DEF OnChain
    <3> QED BY <1>1, <3>1 DEF SeatOf
  <2>2. ASSUME NEW u \in Turns, u # t PROVE SeatOf(u, tn[u], pb, cb)
    <3>1. SeatOf(u, tn[u], pr, ch) /\ (IsOpen(tn[u]) => tn[u].thread \in Threads)
      BY PostsType
    <3>2. CASE tn[u].entry # p
      <4>1. tn[u].entry \in Pids => pb[tn[u].entry] = pr[tn[u].entry] /\ cb[tn[u].entry] = ch[tn[u].entry]
        BY <1>1, <3>2
      <4>2. tn[u].phase \in {"queued", "running", "cold"} =>
               \/ tn[u].entry \in Pids
               \/ tn[u].phase = "cold" /\ tn[u].entry = None
        BY <3>1, PostsType DEF SeatOf
      <4> QED BY <3>1, <4>1, <4>2 DEF SeatOf
    <3>3. CASE tn[u].entry = p
      <4>1. tn[u].phase # "cold"
        BY <1>1, <1>2, <3>1, <3>3 DEF SeatOf
      <4>2. tn[u].phase = "queued" => OnChain(u, cb[p])
        <5>1. ASSUME OnChain(u, ch[p]) PROVE OnChain(u, cb[p])
          <6>1. PICK i \in DOMAIN ch[p] : ch[p][i] = u
            BY <5>1 DEF OnChain
          <6>2. i \in DOMAIN cb[p] /\ cb[p][i] = u
            BY <1>1, <6>1
          <6> QED BY <6>2 DEF OnChain
        <5> QED BY <3>1, <3>3, <5>1 DEF SeatOf
      <4>3. tn[u].phase \in {"queued", "running"} => d.thread = tn[u].thread
        <5>1. tn[u].phase \in {"queued", "running"} =>
                 pr[p].thread = tn[u].thread /\ tn[u].thread \in Threads
          BY <1>2, <3>1, <3>3 DEF SeatOf, IsOpen
        <5> QED BY <1>1, <5>1
      <4> QED BY <1>1, <3>1, <3>3, <4>1, <4>2, <4>3 DEF SeatOf
    <3> QED BY <3>2, <3>3
  <2> QED BY <1>1, <2>1, <2>2 DEF Seats
<1>8. ASSUME SerialThreads PROVE OneTurn(un) /\ Claims(un, pb, E, X) /\ Apart(pb, E, X)
  <2>1. OneTurn(tn) /\ Claims(tn, pr, E, X) /\ Apart(pr, E, X)
    BY <1>8 DEF Posts
  <2>2. OneTurn(un)
    BY <1>1, <1>8, <2>1 DEF OneTurn, Alone
  <2>3. \A q \in Pids : Answers(pb, E, q) <=> Answers(pr, E, q)
    BY <1>1 DEF Answers
  <2>4. \A q \in Pids : Answers(pb, E, q) /\ pb[q].thread = x.thread => q = p
    BY <1>1, <1>8, <2>3
  <2>5. \A q \in Pids : q \in X => q # p /\ pb[q].thread # x.thread
    BY <1>1, <1>2, <1>8 DEF Unretired
  <2>6. Claims(un, pb, E, X)
    <3> SUFFICES ASSUME NEW u \in Turns, NEW q \in Pids, IsOpen(un[u]), pb[q].thread = un[u].thread
                 PROVE  /\ Answers(pb, E, q) => un[u].phase # "waiting" /\ un[u].entry = q
                        /\ q \in X /\ un[u].phase # "waiting" => un[u].entry = q
      BY DEF Claims
    <3>1. CASE u = t
      BY <1>1, <2>4, <2>5, <3>1
    <3>2. CASE u # t
      <4>1. q # p
        BY <1>1, <1>8, <3>2 DEF Alone
      <4> QED BY <1>1, <2>1, <2>3, <3>2, <4>1 DEF Claims
    <3> QED BY <3>1, <3>2
  <2>7. Apart(pb, E, X)
    <3> SUFFICES ASSUME NEW q \in Pids, NEW s \in Pids, Answers(pb, E, q),
                        pb[q].thread = pb[s].thread, pb[q].thread # None
                 PROVE  (Answers(pb, E, s) => q = s) /\ s \notin X
      BY DEF Apart
    <3>1. CASE pb[q].thread = x.thread
      BY <2>4, <2>5, <3>1
    <3>2. CASE pb[q].thread # x.thread
      <4>1. q # p /\ s # p
        BY <1>1, <3>2
      <4> QED BY <1>1, <2>1, <2>3, <4>1 DEF Apart
    <3> QED BY <3>1, <3>2
  <2> QED BY <2>2, <2>6, <2>7
<1>9. Posts(un, pb, E, D, X, cur, cb)
  BY <1>3, <1>4, <1>5, <1>6, <1>7, <1>8 DEF Posts
<1> QED BY <1>9 DEF un, pb, cb

\* A turn runs as a one-shot child of its own.
LEMMA PostsCold ==
  ASSUME NEW tn, NEW pr, NEW E, NEW D, NEW X, NEW cur, NEW ch,
         Posts(tn, pr, E, D, X, cur, ch), NEW t \in Turns, NEW x \in TurnState,
         NEW p \in Pids, NEW d \in PoolEntry,
         tn[t].phase \in {"none", "waiting"}, x.phase = "cold", x.entry = p,
         x.timer = "none", x.thread \in Threads,
         pr[p].st = "free", ch[p] = <<>>,
         Lives(d), d.role = "cold", d.thread = x.thread, ~d.blank,
         Alone(t, x.thread, tn), Unanswered(x.thread, pr, E), Unretired(x.thread, pr, X)
  PROVE  Posts([tn EXCEPT ![t] = x], [pr EXCEPT ![p] = d], E, D, X, cur, ch)
<1> DEFINE un == [tn EXCEPT ![t] = x]
           pb == [pr EXCEPT ![p] = d]
<1>1. /\ un[t] = x /\ (\A u \in Turns : u # t => un[u] = tn[u])
      /\ pb[p] = d /\ (\A q \in Pids : q # p => pb[q] = pr[q])
      /\ None \notin Turns /\ None \notin Threads /\ None \notin Pids
  BY PostsType, ClaudePoolAssumption
<1>2. /\ ~Lives(pr[p]) /\ p \notin E /\ p \notin D /\ p \notin X /\ cur[p] = None
  BY PostsType DEF CensusOf, WireOf, Lives
<1>3. Typed(un, pb, E, D, X, cur, ch)
  BY PostsType DEF Typed
<1> HIDE DEF un, pb
<1>4. Wires(un, pb, cur, ch)
  <2>1. ASSUME NEW q \in Pids, cur[q] # None PROVE WireOf(q, un, pb, cur, ch)
    <3>1. WireOf(q, tn, pr, cur, ch) /\ q # p
      BY <1>2, <2>1, PostsType
    <3>2. un[cur[q]] = tn[cur[q]]
      BY <1>1, <2>1, <3>1 DEF WireOf
    <3> QED BY <1>1, <3>1, <3>2 DEF WireOf
  <2>2. ASSUME NEW u \in Turns, un[u].phase = "running"
        PROVE  un[u].entry \in Pids /\ cur[un[u].entry] = u
    <3>1. un[u] = tn[u]
      BY <1>1, <2>2
    <3> QED BY <2>2, <3>1, PostsType
  <2> QED BY <2>1, <2>2 DEF Wires, WireOf
<1>5. Census(pb, E, D, X)
  <2>1. ASSUME NEW q \in Pids PROVE CensusOf(q, pb[q], E, D, X)
    <3>1. CensusOf(q, pr[q], E, D, X)
      BY PostsType
    <3> QED BY <1>1, <1>2, <3>1 DEF CensusOf
  <2> QED BY <2>1 DEF Census
<1>6. Blanks(pb, ch)
  <2>1. ASSUME NEW q \in Pids PROVE BlankOf(pb[q], ch[q])
    <3>1. BlankOf(pr[q], ch[q])
      BY PostsType
    <3> QED BY <1>1, <3>1 DEF BlankOf
  <2> QED BY <2>1 DEF Blanks
<1>7. Seats(un, pb, ch)
  <2>1. SeatOf(t, x, pb, ch)
    BY <1>1 DEF SeatOf
  <2>2. ASSUME NEW u \in Turns, u # t PROVE SeatOf(u, tn[u], pb, ch)
    <3>1. SeatOf(u, tn[u], pr, ch)
      BY PostsType
    <3>2. CASE tn[u].entry # p
      <4>1. tn[u].entry \in Pids => pb[tn[u].entry] = pr[tn[u].entry]
        BY <1>1, <3>2
      <4>2. tn[u].phase \in {"queued", "running", "cold"} =>
               \/ tn[u].entry \in Pids
               \/ tn[u].phase = "cold" /\ tn[u].entry = None
        BY <3>1, PostsType DEF SeatOf
      <4> QED BY <3>1, <4>1, <4>2 DEF SeatOf
    <3>3. CASE tn[u].entry = p
      <4>1. tn[u].phase # "cold" /\ tn[u].phase # "queued"
        BY <1>1, <1>2, <3>1, <3>3 DEF SeatOf, OnChain
      <4>2. tn[u].phase # "running"
        <5>1. tn[u].phase = "running" => cur[tn[u].entry] = u
          BY PostsType
        <5> QED BY <1>1, <1>2, <3>3, <5>1
      <4> QED BY <3>1, <4>1, <4>2 DEF SeatOf
    <3> QED BY <3>2, <3>3
  <2> QED BY <1>1, <2>1, <2>2 DEF Seats
<1>8. ASSUME SerialThreads PROVE OneTurn(un) /\ Claims(un, pb, E, X) /\ Apart(pb, E, X)
  <2>1. OneTurn(tn) /\ Claims(tn, pr, E, X) /\ Apart(pr, E, X)
    BY <1>8 DEF Posts
  <2>2. OneTurn(un)
    BY <1>1, <1>8, <2>1 DEF OneTurn, Alone
  <2>3. \A q \in Pids : q # p => (Answers(pb, E, q) <=> Answers(pr, E, q))
    BY <1>1 DEF Answers
  <2>4. \A q \in Pids : Answers(pb, E, q) /\ pb[q].thread = x.thread => q = p
    BY <1>1, <1>8, <2>3 DEF Unanswered
  <2>5. \A q \in Pids : q \in X => q # p /\ pb[q].thread # x.thread
    BY <1>1, <1>2, <1>8 DEF Unretired
  <2>6. Claims(un, pb, E, X)
    <3> SUFFICES ASSUME NEW u \in Turns, NEW q \in Pids, IsOpen(un[u]), pb[q].thread = un[u].thread
                 PROVE  /\ Answers(pb, E, q) => un[u].phase # "waiting" /\ un[u].entry = q
                        /\ q \in X /\ un[u].phase # "waiting" => un[u].entry = q
      BY DEF Claims
    <3>1. CASE u = t
      BY <1>1, <2>4, <2>5, <3>1
    <3>2. CASE u # t
      <4>1. q # p
        BY <1>1, <1>8, <3>2 DEF Alone
      <4> QED BY <1>1, <2>1, <2>3, <3>2, <4>1 DEF Claims
    <3> QED BY <3>1, <3>2
  <2>7. Apart(pb, E, X)
    <3> SUFFICES ASSUME NEW q \in Pids, NEW s \in Pids, Answers(pb, E, q),
                        pb[q].thread = pb[s].thread, pb[q].thread # None
                 PROVE  (Answers(pb, E, s) => q = s) /\ s \notin X
      BY DEF Apart
    <3>1. CASE pb[q].thread = x.thread
      BY <2>4, <2>5, <3>1
    <3>2. CASE pb[q].thread # x.thread
      <4>1. q # p /\ s # p
        BY <1>1, <3>2
      <4> QED BY <1>1, <2>1, <2>3, <4>1 DEF Apart
    <3> QED BY <3>1, <3>2
  <2> QED BY <2>2, <2>6, <2>7
<1>9. Posts(un, pb, E, D, X, cur, ch)
  BY <1>3, <1>4, <1>5, <1>6, <1>7, <1>8 DEF Posts
<1> QED BY <1>9 DEF un, pb

-----------------------------------------------------------------------------
(* What the actions are built from.                                        *)

\* SIGTERM: a child goes from #entries to #dying.
LEMMA PostsRetire ==
  ASSUME NEW tn, NEW pr, NEW E, NEW D, NEW X, NEW cur, NEW ch,
         Posts(tn, pr, E, D, X, cur, ch), NEW R,
         \A p \in Pids : p \in R => Lives(pr[p])
  PROVE  Posts(tn, Termed(pr, R), E \ R, D \cup (E \cap R), X, cur, ch)
<1> DEFINE pb == Termed(pr, R)
           Eb == E \ R
           Db == D \cup (E \cap R)
<1>1. Typed(tn, pb, Eb, Db, X, cur, ch)
  <2>1. pb \in [Pids -> PoolEntry]
    BY PostsType, TermedType
  <2>2. Eb \subseteq Pids /\ Db \subseteq Pids
    BY PostsType
  <2> QED BY <2>1, <2>2, PostsType DEF Typed
<1>2. ASSUME NEW p \in Pids
      PROVE  /\ Lives(pb[p]) <=> Lives(pr[p])
             /\ pb[p].role = pr[p].role /\ pb[p].thread = pr[p].thread
             /\ pb[p].blank = pr[p].blank /\ pb[p].inbox = pr[p].inbox
             /\ pb[p].tasks = pr[p].tasks /\ pb[p].wake = pr[p].wake
             /\ p \in Eb <=> p \in E /\ p \notin R
             /\ p \in Db <=> p \in D \/ (p \in E /\ p \in R)
  <2>1. /\ pb[p] = IF p \in R THEN [pr[p] EXCEPT !.st = "term"] ELSE pr[p]
        /\ pr[p] \in PoolEntry /\ (p \in R => Lives(pr[p]))
    BY PostsType DEF Termed
  <2> HIDE DEF pb
  <2> QED BY <2>1 DEF Lives, PoolEntry
<1> HIDE DEF pb, Eb, Db
<1>3. ASSUME NEW p \in Pids
      PROVE  /\ Ages(p, pr[p], pb[p], E, Eb, ch[p]) /\ CensusOf(p, pb[p], Eb, Db, X)
             /\ WireOf(p, tn, pb, cur, ch)
             /\ p \in X => p \in X \/ Retires(p, tn, tn, pr)
  <2>1. CensusOf(p, pr[p], E, D, X) /\ BlankOf(pr[p], ch[p]) /\ WireOf(p, tn, pr, cur, ch)
    BY PostsType
  <2>2. Ages(p, pr[p], pb[p], E, Eb, ch[p])
    BY <1>2, <2>1 DEF Ages, BlankOf, CensusOf
  <2>3. CensusOf(p, pb[p], Eb, Db, X)
    BY <1>2, <2>1 DEF CensusOf
  <2>4. WireOf(p, tn, pb, cur, ch)
    BY <1>2, <2>1 DEF WireOf
  <2> QED BY <2>2, <2>3, <2>4
<1>4. ASSUME NEW t \in Turns PROVE MovesOn(t, tn[t], tn[t], pb, Eb, cur, ch)
  <2>1. SeatOf(t, tn[t], pr, ch) /\ (tn[t].phase = "running" => cur[tn[t].entry] = t)
    BY PostsType
  <2>2. tn[t].phase = "cold" /\ tn[t].entry # None => Lives(pb[tn[t].entry])
    BY <1>2, <2>1 DEF SeatOf
  <2> QED BY <2>1, <2>2 DEF MovesOn, SeatOf
<1>5. Posts(tn, pb, Eb, Db, X, cur, ch)
  BY <1>1, <1>3, <1>4, PostsAge
<1> QED BY <1>5 DEF pb, Eb, Db

\* A turn's record changes where it is, or a turn that was not running ends.
Notes(r, x) ==
  \/ x.phase = r.phase /\ x.entry = r.entry /\ x.thread = r.thread /\ (x.timer # "none" => x.kill)
  \/ ~IsOpen(x) /\ r.phase # "running" /\ x.timer = "none"

LEMMA PostsNote ==
  ASSUME NEW tn, NEW pr, NEW E, NEW D, NEW X, NEW cur, NEW ch,
         Posts(tn, pr, E, D, X, cur, ch), NEW un \in [Turns -> TurnState],
         \A t \in Turns : Notes(tn[t], un[t])
  PROVE  Posts(un, pr, E, D, X, cur, ch)
<1>1. Typed(un, pr, E, D, X, cur, ch)
  BY PostsType DEF Typed
<1>2. ASSUME NEW p \in Pids
      PROVE  /\ Ages(p, pr[p], pr[p], E, E, ch[p]) /\ CensusOf(p, pr[p], E, D, X)
             /\ WireOf(p, un, pr, cur, ch)
             /\ p \in X => p \in X \/ Retires(p, tn, un, pr)
  <2>1. CensusOf(p, pr[p], E, D, X) /\ BlankOf(pr[p], ch[p]) /\ WireOf(p, tn, pr, cur, ch)
    BY PostsType
  <2>2. Ages(p, pr[p], pr[p], E, E, ch[p])
    BY <2>1 DEF Ages, BlankOf, CensusOf
  <2>3. WireOf(p, un, pr, cur, ch)
    <3>1. CASE cur[p] = None
      BY <3>1 DEF WireOf
    <3>2. CASE cur[p] # None
      <4>1. cur[p] \in Turns /\ tn[cur[p]].phase = "running"
        BY <2>1, <3>2 DEF WireOf
      <4>2. un[cur[p]].phase = "running" /\ un[cur[p]].entry = tn[cur[p]].entry
        BY <4>1 DEF Notes
      <4> QED BY <2>1, <4>1, <4>2 DEF WireOf
    <3> QED BY <3>1, <3>2
  <2> QED BY <2>1, <2>2, <2>3
<1>3. ASSUME NEW t \in Turns PROVE MovesOn(t, tn[t], un[t], pr, E, cur, ch)
  <2>1. /\ SeatOf(t, tn[t], pr, ch) /\ (tn[t].phase = "running" => cur[tn[t].entry] = t)
        /\ Notes(tn[t], un[t])
    BY PostsType
  <2>2. tn[t].phase = "cold" /\ tn[t].entry # None => Lives(pr[tn[t].entry])
    BY <2>1 DEF SeatOf
  <2> QED BY <2>1, <2>2 DEF MovesOn, SeatOf, Notes, IsOpen
<1> QED BY <1>1, <1>2, <1>3, PostsAge

\* The turn in flight on child p ends.
LEMMA PostsSettle ==
  ASSUME NEW tn, NEW pr, NEW E, NEW D, NEW X, NEW cur, NEW ch,
         Posts(tn, pr, E, D, X, cur, ch), NEW t \in Turns, NEW x \in TurnState, NEW p,
         tn[t].phase = "running", tn[t].entry = p, ~IsOpen(x), x.timer = "none"
  PROVE  /\ p \in Pids /\ cur[p] = t
         /\ Posts([tn EXCEPT ![t] = x], pr, E, D, X, [cur EXCEPT ![p] = None], ch)
<1> DEFINE un == [tn EXCEPT ![t] = x]
           cb == [cur EXCEPT ![p] = None]
<1>1. /\ p \in Pids /\ cur[p] = t /\ un[t] = x /\ (\A u \in Turns : u # t => un[u] = tn[u])
      /\ cb[p] = None /\ (\A q \in Pids : q # p => cb[q] = cur[q])
  BY PostsType
<1>2. Typed(un, pr, E, D, X, cb, ch)
  BY PostsType DEF Typed
<1> HIDE DEF un, cb
<1>3. ASSUME NEW q \in Pids
      PROVE  /\ Ages(q, pr[q], pr[q], E, E, ch[q]) /\ CensusOf(q, pr[q], E, D, X)
             /\ WireOf(q, un, pr, cb, ch)
             /\ q \in X => q \in X \/ Retires(q, tn, un, pr)
  <2>1. CensusOf(q, pr[q], E, D, X) /\ BlankOf(pr[q], ch[q]) /\ WireOf(q, tn, pr, cur, ch)
    BY PostsType
  <2>2. Ages(q, pr[q], pr[q], E, E, ch[q])
    BY <2>1 DEF Ages, BlankOf, CensusOf
  <2>3. WireOf(q, un, pr, cb, ch)
    <3>1. CASE cb[q] = None
      BY <3>1 DEF WireOf
    <3>2. CASE cb[q] # None
      <4>1. q # p /\ cb[q] = cur[q] /\ cur[q] \in Turns /\ tn[cur[q]].entry = q
        BY <1>1, <2>1, <3>2 DEF WireOf
      <4>2. un[cur[q]] = tn[cur[q]]
        BY <1>1, <4>1
      <4> QED BY <2>1, <3>2, <4>1, <4>2 DEF WireOf
    <3> QED BY <3>1, <3>2
  <2> QED BY <2>1, <2>2, <2>3
<1>4. ASSUME NEW u \in Turns PROVE MovesOn(u, tn[u], un[u], pr, E, cb, ch)
  <2>1. CASE u = t
    BY <1>1, <2>1 DEF MovesOn, IsOpen
  <2>2. CASE u # t
    <3>1. /\ SeatOf(u, tn[u], pr, ch) /\ un[u] = tn[u]
          /\ (tn[u].phase = "running" => cur[tn[u].entry] = u /\ tn[u].entry \in Pids)
      BY <1>1, <2>2, PostsType
    <3>2. tn[u].phase = "cold" /\ tn[u].entry # None => Lives(pr[tn[u].entry])
      BY <3>1 DEF SeatOf
    <3>3. tn[u].phase = "running" => cb[tn[u].entry] = u
      BY <1>1, <2>2, <3>1
    <3> QED BY <3>1, <3>2, <3>3 DEF MovesOn, SeatOf
  <2> QED BY <2>1, <2>2
<1>5. Posts(un, pr, E, D, X, cb, ch)
  BY <1>2, <1>3, <1>4, PostsAge
<1> QED BY <1>1, <1>5 DEF un, cb

\* A line of child p's output, and what the pool notes of it.
LEMMA PostsLine ==
  ASSUME NEW tn, NEW pr, NEW E, NEW D, NEW X, NEW cur, NEW ch,
         Posts(tn, pr, E, D, X, cur, ch), NEW p \in Pids, NEW d \in PoolEntry,
         Lives(pr[p]), Lives(d), d.role = pr[p].role, d.thread = pr[p].thread,
         d.blank => pr[p].blank /\ d.inbox = <<>> /\ ~d.tasks /\ ~d.wake
  PROVE  Posts(tn, [pr EXCEPT ![p] = d], E, D, X, cur, ch)
<1> DEFINE pb == [pr EXCEPT ![p] = d]
<1>1. pb[p] = d /\ (\A q \in Pids : q # p => pb[q] = pr[q])
  BY PostsType
<1>2. Typed(tn, pb, E, D, X, cur, ch)
  BY PostsType DEF Typed
<1> HIDE DEF pb
<1>3. ASSUME NEW q \in Pids
      PROVE  /\ Ages(q, pr[q], pb[q], E, E, ch[q]) /\ CensusOf(q, pb[q], E, D, X)
             /\ WireOf(q, tn, pb, cur, ch) /\ (Lives(pb[q]) <=> Lives(pr[q]))
             /\ q \in X => q \in X \/ Retires(q, tn, tn, pr)
  <2>1. CensusOf(q, pr[q], E, D, X) /\ BlankOf(pr[q], ch[q]) /\ WireOf(q, tn, pr, cur, ch)
    BY PostsType
  <2>2. CASE q = p
    BY <1>1, <2>1, <2>2 DEF Ages, BlankOf, CensusOf, WireOf
  <2>3. CASE q # p
    BY <1>1, <2>1, <2>3 DEF Ages, BlankOf, CensusOf, WireOf
  <2> QED BY <2>2, <2>3
<1>4. ASSUME NEW u \in Turns PROVE MovesOn(u, tn[u], tn[u], pb, E, cur, ch)
  <2>1. SeatOf(u, tn[u], pr, ch) /\ (tn[u].phase = "running" => cur[tn[u].entry] = u)
    BY PostsType
  <2>2. tn[u].phase = "cold" /\ tn[u].entry # None => Lives(pb[tn[u].entry])
    BY <1>3, <2>1 DEF SeatOf
  <2> QED BY <2>1, <2>2 DEF MovesOn, SeatOf
<1>5. Posts(tn, pb, E, D, X, cur, ch)
  BY <1>2, <1>3, <1>4, PostsAge
<1> QED BY <1>5 DEF pb

\* The turn at the head of the chain gets the wire.
LEMMA PostsStart ==
  ASSUME NEW tn, NEW pr, NEW E, NEW D, NEW X, NEW cur, NEW ch,
         Posts(tn, pr, E, D, X, cur, ch), NEW t \in Turns, NEW x \in TurnState, NEW p \in E,
         ch[p] # <<>>, Head(ch[p]) = t, tn[t].phase = "queued", tn[t].entry = p,
         x.phase = "running", x.entry = p, x.thread = tn[t].thread, x.timer = "none"
  PROVE  Posts([tn EXCEPT ![t] = x], pr, E, D, X, [cur EXCEPT ![p] = t], ch)
<1> DEFINE un == [tn EXCEPT ![t] = x]
           cb == [cur EXCEPT ![p] = t]
<1>1. /\ p \in Pids /\ un[t] = x /\ (\A u \in Turns : u # t => un[u] = tn[u])
      /\ cb[p] = t /\ (\A q \in Pids : q # p => cb[q] = cur[q])
  BY PostsType
<1>2. Typed(un, pr, E, D, X, cb, ch)
  BY PostsType DEF Typed
<1> HIDE DEF un, cb
<1>3. cur[p] = None /\ Lives(pr[p]) /\ pr[p].role = "warm"
  <2>1. WireOf(p, tn, pr, cur, ch) /\ CensusOf(p, pr[p], E, D, X)
    BY <1>1, PostsType
  <2> QED BY <2>1 DEF WireOf, CensusOf
<1>4. ASSUME NEW q \in Pids
      PROVE  /\ Ages(q, pr[q], pr[q], E, E, ch[q]) /\ CensusOf(q, pr[q], E, D, X)
             /\ WireOf(q, un, pr, cb, ch)
             /\ q \in X => q \in X \/ Retires(q, tn, un, pr)
  <2>1. CensusOf(q, pr[q], E, D, X) /\ BlankOf(pr[q], ch[q]) /\ WireOf(q, tn, pr, cur, ch)
    BY PostsType
  <2>2. Ages(q, pr[q], pr[q], E, E, ch[q])
    BY <2>1 DEF Ages, BlankOf, CensusOf
  <2>3. WireOf(q, un, pr, cb, ch)
    <3>1. CASE q = p
      BY <1>1, <1>3, <3>1 DEF WireOf
    <3>2. CASE q # p
      <4>1. cur[q] # None => cur[q] # t
        BY <2>1, <3>2 DEF WireOf
      <4> QED BY <1>1, <2>1, <3>2, <4>1 DEF WireOf
    <3> QED BY <3>1, <3>2
  <2> QED BY <2>1, <2>2, <2>3
<1>5. ASSUME NEW u \in Turns PROVE MovesOn(u, tn[u], un[u], pr, E, cb, ch)
  <2>1. CASE u = t
    BY <1>1, <2>1 DEF MovesOn, IsOpen
  <2>2. CASE u # t
    <3>1. /\ SeatOf(u, tn[u], pr, ch) /\ un[u] = tn[u]
          /\ (tn[u].phase = "running" => cur[tn[u].entry] = u /\ tn[u].entry \in Pids)
      BY <1>1, <2>2, PostsType
    <3>2. tn[u].phase = "cold" /\ tn[u].entry # None => Lives(pr[tn[u].entry])
      BY <3>1 DEF SeatOf
    <3>3. tn[u].phase = "running" => cb[tn[u].entry] = u
      BY <1>1, <1>3, <3>1, ClaudePoolAssumption
    <3> QED BY <3>1, <3>2, <3>3 DEF MovesOn, SeatOf
  <2> QED BY <2>1, <2>2
<1>6. Posts(un, pr, E, D, X, cb, ch)
  BY <1>2, <1>4, <1>5, PostsAge
<1> QED BY <1>6 DEF un, cb

LEMMA TailKeeps ==
  ASSUME NEW links \in Seq(Turns), links # <<>>, NEW t, OnChain(t, links), Head(links) # t
  PROVE  OnChain(t, Tail(links))
<1>1. PICK i \in DOMAIN links : links[i] = t
  BY DEF OnChain
<1>2. i \in 1 .. Len(links) /\ i # 1
  BY <1>1
<1>3. i - 1 \in 1 .. Len(Tail(links)) /\ Tail(links)[i - 1] = t
  BY <1>1, <1>2
<1> QED BY <1>3 DEF OnChain

\* The head link's turn is done.
LEMMA PostsPop ==
  ASSUME NEW tn, NEW pr, NEW E, NEW D, NEW X, NEW cur, NEW ch,
         Posts(tn, pr, E, D, X, cur, ch), NEW p \in Pids,
         ch[p] # <<>>, tn[Head(ch[p])].phase \notin {"queued", "running"}
  PROVE  Posts(tn, pr, E, D, X, cur, [ch EXCEPT ![p] = Tail(@)])
<1> DEFINE cb == [ch EXCEPT ![p] = Tail(@)]
<1>1. /\ ch[p] \in Seq(Turns) /\ Tail(ch[p]) \in Seq(Turns) /\ cb[p] = Tail(ch[p])
      /\ (\A q \in Pids : q # p => cb[q] = ch[q])
  BY PostsType
<1>2. Typed(tn, pr, E, D, X, cur, cb)
  BY <1>1, PostsType DEF Typed
<1> HIDE DEF cb
<1>3. cur[p] = None
  <2>1. WireOf(p, tn, pr, cur, ch)
    BY PostsType
  <2> QED BY <2>1 DEF WireOf
<1>4. ASSUME NEW q \in Pids
      PROVE  /\ Ages(q, pr[q], pr[q], E, E, cb[q]) /\ CensusOf(q, pr[q], E, D, X)
             /\ WireOf(q, tn, pr, cur, cb)
             /\ q \in X => q \in X \/ Retires(q, tn, tn, pr)
  <2>1. CensusOf(q, pr[q], E, D, X) /\ BlankOf(pr[q], ch[q]) /\ WireOf(q, tn, pr, cur, ch)
    BY PostsType
  <2>2. CASE q = p
    BY <1>3, <2>1, <2>2 DEF Ages, BlankOf, CensusOf, WireOf
  <2>3. CASE q # p
    BY <1>1, <2>1, <2>3 DEF Ages, BlankOf, CensusOf, WireOf
  <2> QED BY <2>2, <2>3
<1>5. ASSUME NEW u \in Turns PROVE MovesOn(u, tn[u], tn[u], pr, E, cur, cb)
  <2>1. SeatOf(u, tn[u], pr, ch) /\ (tn[u].phase = "running" => cur[tn[u].entry] = u)
    BY PostsType
  <2>2. tn[u].phase = "cold" /\ tn[u].entry # None => Lives(pr[tn[u].entry])
    BY <2>1 DEF SeatOf
  <2>3. tn[u].phase = "queued" => OnChain(u, cb[tn[u].entry])
    <3>1. CASE tn[u].entry = p
      <4>1. ASSUME tn[u].phase = "queued" PROVE OnChain(u, Tail(ch[p]))
        <5>1. OnChain(u, ch[p]) /\ Head(ch[p]) # u
          BY <2>1, <3>1, <4>1 DEF SeatOf
        <5> QED BY <1>1, <5>1, TailKeeps
      <4> QED BY <1>1, <3>1, <4>1
    <3>2. CASE tn[u].entry # p
      BY <1>1, <2>1, <3>2 DEF SeatOf
    <3> QED BY <3>1, <3>2
  <2> QED BY <2>1, <2>2, <2>3 DEF MovesOn, SeatOf
<1>6. Posts(tn, pr, E, D, X, cur, cb)
  BY <1>2, <1>4, <1>5, PostsAge
<1> QED BY <1>6 DEF cb

\* A child exits, after the turn it had in flight has left it.
LEMMA PostsGone ==
  ASSUME NEW tn, NEW pr, NEW E, NEW D, NEW X, NEW cur, NEW ch,
         Posts(tn, pr, E, D, X, cur, ch), NEW p \in Pids, cur[p] = None,
         NEW un \in [Turns -> TurnState],
         \A t \in Turns :
           IF tn[t].phase = "cold" /\ tn[t].entry = p
           THEN un[t] = [tn[t] EXCEPT !.entry = None] ELSE un[t] = tn[t]
  PROVE  Posts(un, [pr EXCEPT ![p] = NoProc], E \ {p}, D \ {p}, X \ {p}, cur, ch)
<1> DEFINE pb == [pr EXCEPT ![p] = NoProc]
           Eb == E \ {p}
           Db == D \ {p}
           Xb == X \ {p}
<1>1. /\ pb[p] = NoProc /\ (\A q \in Pids : q # p => pb[q] = pr[q])
      /\ (\A q \in Pids : (q \in Eb <=> q \in E /\ q # p) /\ (q \in Db <=> q \in D /\ q # p)
                           /\ (q \in Xb <=> q \in X /\ q # p))
      /\ ~Lives(NoProc) /\ ~NoProc.blank /\ None \notin Pids
  BY PostsType, ClaudePoolAssumption DEF NoProc, Lives
<1>2. Typed(un, pb, Eb, Db, Xb, cur, ch)
  BY PostsType, NoProcType DEF Typed
<1> HIDE DEF pb, Eb, Db, Xb
<1>3. ASSUME NEW u \in Turns
      PROVE  /\ un[u].phase = tn[u].phase /\ un[u].thread = tn[u].thread
             /\ un[u].timer = tn[u].timer /\ un[u].kill = tn[u].kill
             /\ un[u].entry = IF tn[u].phase = "cold" /\ tn[u].entry = p THEN None ELSE tn[u].entry
  <2>1. tn[u] \in TurnState
    BY PostsType
  <2> QED BY <2>1 DEF TurnState
<1>4. ASSUME NEW q \in Pids
      PROVE  /\ Ages(q, pr[q], pb[q], E, Eb, ch[q]) /\ CensusOf(q, pb[q], Eb, Db, Xb)
             /\ WireOf(q, un, pb, cur, ch)
             /\ q \in Xb => q \in X \/ Retires(q, tn, un, pr)
  <2>1. CensusOf(q, pr[q], E, D, X) /\ BlankOf(pr[q], ch[q]) /\ WireOf(q, tn, pr, cur, ch)
    BY PostsType
  <2>2. CASE q = p
    BY <1>1, <2>1, <2>2 DEF Ages, BlankOf, CensusOf, WireOf
  <2>3. CASE q # p
    <3>1. WireOf(q, un, pb, cur, ch)
      <4>1. cur[q] # None => cur[q] \in Turns /\ tn[cur[q]].phase = "running"
        BY <2>1 DEF WireOf
      <4>2. cur[q] # None => un[cur[q]].phase = "running" /\ un[cur[q]].entry = tn[cur[q]].entry
        BY <1>3, <4>1
      <4> QED BY <1>1, <2>1, <2>3, <4>1, <4>2 DEF WireOf
    <3> QED BY <1>1, <2>1, <2>3, <3>1 DEF Ages, BlankOf, CensusOf
  <2> QED BY <2>2, <2>3
<1>5. ASSUME NEW u \in Turns PROVE MovesOn(u, tn[u], un[u], pb, Eb, cur, ch)
  <2>1. SeatOf(u, tn[u], pr, ch) /\ (tn[u].phase = "running" => cur[tn[u].entry] = u)
    BY PostsType
  <2>2. CASE tn[u].phase = "cold"
    <3>1. tn[u].entry # None => (tn[u].entry = p <=> ~Lives(pb[tn[u].entry]))
      BY <1>1, <2>1, <2>2 DEF SeatOf
    <3> QED BY <1>1, <1>3, <2>1, <2>2, <3>1 DEF MovesOn, SeatOf, IsOpen
  <2>3. CASE tn[u].phase # "cold"
    BY <1>3, <2>1, <2>3 DEF MovesOn, SeatOf, IsOpen
  <2> QED BY <2>2, <2>3
<1>6. Posts(un, pb, Eb, Db, Xb, cur, ch)
  BY <1>2, <1>4, <1>5, PostsAge
<1> QED BY <1>6 DEF pb, Eb, Db, Xb

-----------------------------------------------------------------------------
(* Placing a turn.                                                         *)

InPlace == Posts(turn, proc, entries, dying, interruptedExits, current, chain)

LEMMA FreshFree ==
  ASSUME NEW c \in Pids, FreshPid(c)
  PROVE  proc[c].st = "free" /\ chain[c] = <<>>
BY DEF FreshPid

\* Every child free in proc is free in pr.
FreeIn(pr) == \A c \in Pids : proc[c].st = "free" => pr[c].st = "free"

\* A turn that is not placed falls back; E are the entries at that point, and
\* X the interrupted exits.
LEMMA FallBackPosts ==
  ASSUME TypeOK, NEW t \in Turns, NEW o \in TurnState, NEW w \in TurnState,
         NEW pr, NEW E, NEW D, NEW X, NEW cur,
         Posts([turn EXCEPT ![t] = w], pr, E, D, X, cur, chain),
         w.phase \in {"none", "waiting"}, o.timer = "none", o.thread \in Threads,
         Alone(t, o.thread, turn), FreeIn(pr),
         SerialThreads => \A p \in E : pr[p].thread # o.thread,
         \A p \in X : p \in interruptedExits /\ pr[p].thread = proc[p].thread,
         FallBack(t, o, pr)
  PROVE  Posts(turn', proc', E, D, X, cur, chain)
<1> DEFINE tn == [turn EXCEPT ![t] = w]
<1>1. /\ turn \in [Turns -> TurnState] /\ tn[t] = w /\ \A u \in Turns : u # t => tn[u] = turn[u]
      /\ \A x : [turn EXCEPT ![t] = x] = [tn EXCEPT ![t] = x]
  BY DEF TypeOK
<1>2. Posts(tn, pr, E, D, X, cur, chain)
  OBVIOUS
<1> HIDE DEF tn
<1>3. Alone(t, o.thread, tn) /\ tn[t].phase \in {"none", "waiting"}
  BY <1>1 DEF Alone
<1>4. ASSUME NEW x \in TurnState, ~IsOpen(x), x.timer = "none"
      PROVE  Posts([turn EXCEPT ![t] = x], pr, E, D, X, cur, chain)
  <2>1. Posts([tn EXCEPT ![t] = x], pr, E, D, X, cur, chain)
    BY <1>2, <1>3, <1>4, PostsBegin
  <2> QED BY <1>1, <2>1
<1>5. ASSUME ColdWritersOf(pr, o.thread) = {} PROVE Unanswered(o.thread, pr, E)
  BY <1>5 DEF ColdWritersOf, Unanswered, Answers, Lives
<1>6. CASE proc' = pr /\ (turn' = [turn EXCEPT ![t] = Resolved] \/ turn' = [turn EXCEPT ![t] = Rejected])
  <2>1. /\ Resolved \in TurnState /\ ~IsOpen(Resolved) /\ Resolved.timer = "none"
        /\ Rejected \in TurnState /\ ~IsOpen(Rejected) /\ Rejected.timer = "none"
    BY NoTurnType DEF Resolved, Rejected, NoTurn, IsOpen
  <2> QED BY <1>4, <1>6, <2>1
<1>7. CASE /\ ColdWritersOf(pr, o.thread) = {}
           /\ turn' = [turn EXCEPT ![t] = [o EXCEPT !.phase = "waiting", !.then = "cold", !.entry = None]]
           /\ proc' = pr
  <2> DEFINE x == [o EXCEPT !.phase = "waiting", !.then = "cold", !.entry = None]
  <2>1. x \in TurnState /\ x.phase = "waiting" /\ x.thread = o.thread /\ x.timer = "none"
    BY DEF TurnState, Phases
  <2> HIDE DEF x
  <2>2. Posts([tn EXCEPT ![t] = x], pr, E, D, X, cur, chain)
    BY <1>2, <1>3, <1>5, <1>7, <2>1, PostsBegin
  <2> QED BY <1>1, <1>7, <2>2 DEF x
<1>8. CASE /\ ColdWritersOf(pr, o.thread) = {} /\ ExitsPending(o.thread) = {}
           /\ \E c \in Pids :
                /\ FreshPid(c)
                /\ turn' = [turn EXCEPT ![t] = [o EXCEPT !.phase = "cold", !.entry = c]]
                /\ proc' = [pr EXCEPT ![c] = [NoProc EXCEPT
                              !.st = "up", !.role = "cold", !.thread = o.thread,
                              !.inbox = <<t>>]]
  <2>1. PICK c \in Pids :
                /\ FreshPid(c)
                /\ turn' = [turn EXCEPT ![t] = [o EXCEPT !.phase = "cold", !.entry = c]]
                /\ proc' = [pr EXCEPT ![c] = [NoProc EXCEPT
                              !.st = "up", !.role = "cold", !.thread = o.thread,
                              !.inbox = <<t>>]]
    BY <1>8
  <2> DEFINE x == [o EXCEPT !.phase = "cold", !.entry = c]
             d == [NoProc EXCEPT !.st = "up", !.role = "cold", !.thread = o.thread, !.inbox = <<t>>]
  <2>2. /\ x \in TurnState /\ x.phase = "cold" /\ x.entry = c /\ x.thread = o.thread
        /\ x.timer = "none"
    BY DEF TurnState, Phases
  <2>3. d \in PoolEntry /\ Lives(d) /\ d.role = "cold" /\ d.thread = o.thread /\ ~d.blank
    <3>1. <<t>> \in Seq(Turns)
      OBVIOUS
    <3> QED BY NoProcType, <3>1 DEF PoolEntry, TurnState, Lives, NoProc
  <2>4. pr[c].st = "free" /\ chain[c] = <<>>
    BY <2>1, FreshFree DEF FreeIn
  <2>5. Unretired(o.thread, pr, X)
    BY <1>8 DEF ExitsPending, Unretired
  <2>6. turn' = [turn EXCEPT ![t] = x] /\ proc' = [pr EXCEPT ![c] = d]
    BY <2>1
  <2> HIDE DEF x, d
  <2>7. Posts([tn EXCEPT ![t] = x], [pr EXCEPT ![c] = d], E, D, X, cur, chain)
    BY <1>2, <1>3, <1>5, <1>8, <2>2, <2>3, <2>4, <2>5, PostsCold
  <2> QED BY <1>1, <2>6, <2>7
<1> QED BY <1>6, <1>7, <1>8 DEF FallBack

\* The standby is spawned, or not.
LEMMA MaybeSpawnBlankPosts ==
  ASSUME NEW pr, NEW E, NEW D, NEW X, NEW cur, NEW tn, NEW pw \in Standby, NEW d,
         Posts(tn, pr, E, D, X, cur, chain), FreeIn(pr), MaybeSpawnBlank(pr, E, pw, d)
  PROVE  Posts(tn, proc', entries', D, X, cur, chain)
<1>1. CASE ~StandbyWanted(E, pw)
  BY <1>1 DEF MaybeSpawnBlank
<1>2. CASE StandbyWanted(E, pw)
  <2>1. PICK p \in Pids :
          /\ FreshPid(p)
          /\ proc' = [pr EXCEPT ![p] = [NoProc EXCEPT
                        !.st = "up", !.sig = pw.proto, !.blank = TRUE]]
          /\ entries' = E \cup {p}
    BY <1>2 DEF MaybeSpawnBlank
  <2> DEFINE c == [NoProc EXCEPT !.st = "up", !.sig = pw.proto, !.blank = TRUE]
  <2>2. /\ c \in PoolEntry /\ Lives(c) /\ c.role = "warm" /\ c.thread = None /\ BlankOf(c, <<>>)
    BY NoProcType DEF PoolEntry, Standby, NoProc, Lives, BlankOf
  <2>3. pr[p].st = "free" /\ chain[p] = <<>>
    BY <2>1, FreshFree DEF FreeIn
  <2>4. proc' = [pr EXCEPT ![p] = c] /\ entries' = E \cup {p}
    BY <2>1
  <2> HIDE DEF c
  <2>5. Posts(tn, [pr EXCEPT ![p] = c], E \cup {p}, D, X, cur, chain)
    BY <2>2, <2>3, PostsSpawn
  <2> QED BY <2>4, <2>5
<1> QED BY <1>1, <1>2

LEMMA TermedSame ==
  ASSUME NEW pr \in [Pids -> PoolEntry], NEW R, NEW p \in Pids
  PROVE  LET d == Termed(pr, R)[p]
         IN  /\ d.role = pr[p].role /\ d.thread = pr[p].thread /\ d.sig = pr[p].sig
             /\ d.blank = pr[p].blank /\ d.inbox = pr[p].inbox
             /\ d.tasks = pr[p].tasks /\ d.wake = pr[p].wake
             /\ p \notin R => d = pr[p]
             /\ p \in R => d.st = "term"
<1> DEFINE d == Termed(pr, R)[p]
<1>1. d = (IF p \in R THEN [pr[p] EXCEPT !.st = "term"] ELSE pr[p]) /\ pr[p] \in PoolEntry
  BY DEF Termed
<1> HIDE DEF d
<1>2. /\ d.role = pr[p].role /\ d.thread = pr[p].thread /\ d.sig = pr[p].sig
      /\ d.blank = pr[p].blank /\ d.inbox = pr[p].inbox
      /\ d.tasks = pr[p].tasks /\ d.wake = pr[p].wake
      /\ p \notin R => d = pr[p]
      /\ p \in R => d.st = "term"
  BY <1>1 DEF PoolEntry
<1> QED BY <1>2 DEF d

LEMMA QueuedRecord ==
  ASSUME NEW o \in TurnState, NEW p \in Pids
  PROVE  LET x == [o EXCEPT !.phase = "queued", !.entry = p]
         IN  /\ x \in TurnState /\ x.phase = "queued" /\ x.entry = p
             /\ x.thread = o.thread /\ x.timer = o.timer
BY DEF TurnState, Phases

\* A turn that neither runs nor is queued is placed; R are the children that
\* go, E the entries left, none of them but p for the turn's thread.
LEMMA QueuePosts ==
  ASSUME TypeOK, NEW t \in Turns, NEW o \in TurnState, NEW pr, NEW E, NEW D,
         Posts(turn, pr, E, D, interruptedExits, current, chain),
         turn[t].phase \in {"none", "waiting"}, o.timer = "none", o.thread \in Threads,
         Alone(t, o.thread, turn), Unretired(o.thread, pr, interruptedExits),
         NEW p \in E, NEW d \in PoolEntry,
         SerialThreads => \A q \in Pids : Answers(pr, E, q) /\ q # p => pr[q].thread # o.thread,
         pr[p].thread \in {None, o.thread},
         Lives(d), d.role = "warm", d.thread = o.thread, ~d.blank,
         Queue(t, o, p)
  PROVE  Posts(turn', [pr EXCEPT ![p] = d], E, D, interruptedExits, current, chain')
<1> DEFINE x == [o EXCEPT !.phase = "queued", !.entry = p]
<1>1. p \in Pids
  BY PostsType
<1>2. /\ x \in TurnState /\ x.phase = "queued" /\ x.entry = p
      /\ x.thread = o.thread /\ x.timer = "none"
  BY <1>1, QueuedRecord
<1>3. turn' = [turn EXCEPT ![t] = x] /\ chain' = [chain EXCEPT ![p] = Append(@, t)]
  BY DEF Queue
<1> HIDE DEF x
<1>4. Posts([turn EXCEPT ![t] = x], [pr EXCEPT ![p] = d], E, D, interruptedExits, current,
            [chain EXCEPT ![p] = Append(@, t)])
  BY <1>2, PostsPut
<1> QED BY <1>3, <1>4

LEMMA PlacePosts ==
  ASSUME TypeOK, InPlace, NEW t \in Turns, NEW o \in TurnState,
         turn[t].phase \in {"none", "waiting"}, o.timer = "none", o.thread \in Threads,
         Alone(t, o.thread, turn),
         ColdWritersOf(proc, o.thread) = {}, ExitsPending(o.thread) = {}, Place(t, o)
  PROVE  InPlace'
<1> DEFINE dropped == (IF RefreshStandby(o) THEN StaleBlanks(o) ELSE {})
                        \cup Superseded(o) \cup Reseeded(o)
           kept    == entries \ dropped
           same    == {p \in kept : proc[p].thread = o.thread /\ proc[p].sig = o.sig}
           standby == {p \in kept : proc[p].blank /\ Idle(p) /\ proc[p].sig = o.sig}
           adopt   == same = {} /\ MayAdopt(o) /\ standby # {}
           gone    == Termed(proc, dropped)
<1>1. /\ dropped \subseteq entries /\ Superseded(o) \subseteq dropped
      /\ entries \subseteq Pids /\ None \notin Threads
  BY ClaudePoolAssumption DEF TypeOK, StaleBlanks, Superseded, Reseeded
<1>2. interruptedExits' = interruptedExits /\ current' = current
  BY DEF Place
<1>3. \A p \in Pids : /\ proc[p] \in PoolEntry /\ CensusOf(p, proc[p], entries, dying, interruptedExits)
                      /\ BlankOf(proc[p], chain[p]) /\ WireOf(p, turn, proc, current, chain)
  BY PostsType DEF InPlace
\* The children that stay are another thread's, but for those a turn may join.
<1>4. ASSUME NEW p \in kept, proc[p].thread = o.thread, p \notin same, SerialThreads
      PROVE  FALSE
  <2>1. p \in Pids /\ proc[p].sig # o.sig /\ ~Idle(p)
    BY <1>1, <1>4 DEF Superseded
  <2> DEFINE u == current[p]
  <2>2. u \in Turns /\ turn[u].phase = "running" /\ turn[u].entry = p /\ Lives(proc[p])
    BY <1>3, <2>1 DEF WireOf, Idle
  <2> HIDE DEF u
  <2>3. SeatOf(u, turn[u], proc, chain)
    BY <2>2, PostsType DEF InPlace
  <2>4. proc[p].thread = turn[u].thread /\ IsOpen(turn[u])
    BY <2>2, <2>3 DEF SeatOf, IsOpen
  <2> QED BY <1>4, <2>2, <2>4 DEF Alone
<1>5. ASSUME NEW R, dropped \subseteq R, R \subseteq entries
      PROVE  /\ Posts(turn, Termed(proc, R), entries \ R, dying \cup R, interruptedExits, current, chain)
             /\ FreeIn(Termed(proc, R)) /\ Unretired(o.thread, Termed(proc, R), interruptedExits)
             /\ \A q \in Pids : Answers(Termed(proc, R), entries \ R, q) /\ proc[q].thread = o.thread
                                => q \in kept
             /\ \A p \in interruptedExits : Termed(proc, R)[p].thread = proc[p].thread
  <2>1. \A p \in Pids : p \in R => Lives(proc[p]) /\ proc[p].role = "warm"
    BY <1>3, <1>5 DEF CensusOf
  <2>2. entries \cap R = R
    BY <1>5
  <2>3. Posts(turn, Termed(proc, R), entries \ R, dying \cup R, interruptedExits, current, chain)
    BY <2>1, <2>2, PostsRetire DEF InPlace
  <2>4. proc \in [Pids -> PoolEntry] /\ interruptedExits \subseteq Pids
    BY DEF TypeOK
  <2>5. \A p \in Pids : /\ Termed(proc, R)[p].thread = proc[p].thread
                        /\ Termed(proc, R)[p].role = proc[p].role
                        /\ p \notin R => Termed(proc, R)[p] = proc[p]
    BY <2>4, TermedSame
  <2>6. FreeIn(Termed(proc, R))
    BY <2>1, <2>5 DEF FreeIn, Lives
  <2>7. Unretired(o.thread, Termed(proc, R), interruptedExits)
    BY <2>4, <2>5 DEF Unretired, ExitsPending
  <2>8. ASSUME NEW q \in Pids, Answers(Termed(proc, R), entries \ R, q), proc[q].thread = o.thread
        PROVE  q \in kept
    <3>1. q \notin ColdWritersOf(proc, o.thread)
      OBVIOUS
    <3>2. CASE q \in R
      BY <2>1, <2>5, <2>8, <3>2 DEF Answers
    <3>3. CASE q \notin R
      BY <1>5, <2>5, <2>8, <3>1, <3>3 DEF Answers, ColdWritersOf, Lives
    <3> QED BY <3>2, <3>3
  <2> QED BY <2>3, <2>4, <2>5, <2>6, <2>7, <2>8
<1>6. \A p \in Pids : /\ gone[p].thread = proc[p].thread /\ gone[p].role = proc[p].role
                      /\ gone[p].blank = proc[p].blank /\ gone[p] \in PoolEntry
                      /\ p \notin dropped => gone[p] = proc[p]
  <2> HIDE DEF dropped
  <2>1. proc \in [Pids -> PoolEntry]
    BY DEF TypeOK
  <2>2. gone \in [Pids -> PoolEntry]
    BY <2>1, TermedType
  <2> QED BY <2>1, <2>2, TermedSame
<1>7. Posts(turn, gone, kept, dying \cup dropped, interruptedExits, current, chain)
  BY <1>1, <1>5
<1>8. gone \in [Pids -> PoolEntry]
  BY TermedType DEF TypeOK
<1>9. CASE /\ \E p \in same : Queue(t, o, p)
           /\ proc' = gone /\ entries' = kept /\ dying' = dying \cup dropped
  <2>1. PICK p \in same : Queue(t, o, p)
    BY <1>9
  <2>2. p \in kept /\ p \in Pids /\ proc[p].thread = o.thread
    BY <1>1
  <2>3. /\ gone[p] \in PoolEntry /\ Lives(gone[p]) /\ gone[p].role = "warm"
        /\ gone[p].thread = o.thread /\ ~gone[p].blank
    <3>1. /\ CensusOf(p, proc[p], entries, dying, interruptedExits) /\ BlankOf(proc[p], chain[p])
          /\ proc[p] \in PoolEntry /\ p \in entries /\ p \notin dropped
      BY <1>3, <2>2
    <3>2. Lives(proc[p]) /\ proc[p].role = "warm" /\ ~proc[p].blank
      BY <1>1, <2>2, <3>1 DEF CensusOf, BlankOf
    <3>3. gone[p] = proc[p]
      BY <1>6, <2>2, <3>1
    <3> HIDE DEF gone
    <3> QED BY <2>2, <3>1, <3>2, <3>3
  <2>4. ASSUME SerialThreads, NEW q \in Pids, Answers(gone, kept, q), q # p PROVE gone[q].thread # o.thread
    <3>1. Apart(gone, kept, interruptedExits)
      BY <1>7, <2>4 DEF Posts
    <3>2. Answers(gone, kept, p) /\ gone[p].thread # None
      BY <1>1, <2>2, <2>3 DEF Answers
    <3> QED BY <2>2, <2>3, <2>4, <3>1, <3>2 DEF Apart
  <2>5. Unretired(o.thread, gone, interruptedExits)
    BY <1>1, <1>5
  <2>6. [gone EXCEPT ![p] = gone[p]] = gone
    BY <1>8
  <2> HIDE DEF dropped, kept, same, standby, adopt, gone
  <2>7. Posts(turn', [gone EXCEPT ![p] = gone[p]], kept, dying \cup dropped, interruptedExits,
              current, chain')
    BY <1>7, <2>1, <2>2, <2>3, <2>4, <2>5, QueuePosts
  <2> QED BY <1>2, <1>9, <2>6, <2>7 DEF InPlace
<1>10. CASE /\ same = {}
            /\ \E p \in standby :
                 /\ Queue(t, o, p)
                 /\ proc' = [gone EXCEPT ![p].blank = FALSE, ![p].thread = o.thread]
            /\ entries' = kept /\ dying' = dying \cup dropped
  <2>1. PICK p \in standby :
                 /\ Queue(t, o, p)
                 /\ proc' = [gone EXCEPT ![p].blank = FALSE, ![p].thread = o.thread]
    BY <1>10
  <2>2. p \in kept /\ p \in Pids /\ proc[p].blank
    BY <1>1
  <2>3. /\ gone[p] \in PoolEntry /\ Lives(gone[p]) /\ gone[p].role = "warm"
        /\ gone[p].thread = None
    BY <1>1, <1>3, <1>6, <2>2 DEF CensusOf, BlankOf
  <2> DEFINE d == [gone[p] EXCEPT !.blank = FALSE, !.thread = o.thread]
  <2>4. ASSUME SerialThreads, NEW q \in Pids, Answers(gone, kept, q), q # p PROVE gone[q].thread # o.thread
    <3>1. Answers(gone, kept, q) /\ proc[q].thread = o.thread => q \in kept
      BY <1>1, <1>5
    <3>2. gone[q].thread = proc[q].thread
      BY <1>6
    <3> HIDE DEF gone, kept
    <3> QED BY <1>4, <1>10, <2>4, <3>1, <3>2
  <2>5. Unretired(o.thread, gone, interruptedExits)
    BY <1>1, <1>5
  <2> HIDE DEF dropped, kept, same, standby, adopt, gone
  <2>6. /\ d \in PoolEntry /\ Lives(d) /\ d.role = "warm" /\ d.thread = o.thread /\ ~d.blank
    BY <2>3 DEF PoolEntry, TurnState, Lives
  <2>7. proc' = [gone EXCEPT ![p] = d]
    BY <1>8, <2>1, <2>2
  <2> HIDE DEF d
  <2>8. Posts(turn', [gone EXCEPT ![p] = d], kept, dying \cup dropped, interruptedExits,
              current, chain')
    BY <1>7, <2>1, <2>2, <2>3, <2>4, <2>5, <2>6, QueuePosts
  <2> QED BY <1>2, <1>10, <2>7, <2>8 DEF InPlace
<1>11. CASE /\ same = {}
            /\ \E victims \in SUBSET Victims(kept) :
              \E p \in Pids, restored \in SUBSET (Background \cap {"task"}) :
                /\ FreshPid(p) /\ Queue(t, o, p)
                /\ proc' = [Termed(proc, dropped \cup victims) EXCEPT
                             ![p] = [NoProc EXCEPT
                               !.st = "up", !.thread = o.thread, !.sig = o.sig,
                               !.work = restored]]
                /\ entries' = (kept \ victims) \cup {p}
                /\ dying' = dying \cup dropped \cup victims
  <2>1. PICK victims \in SUBSET Victims(kept),
             p \in Pids, restored \in SUBSET (Background \cap {"task"}) :
                /\ FreshPid(p) /\ Queue(t, o, p)
                /\ proc' = [Termed(proc, dropped \cup victims) EXCEPT
                             ![p] = [NoProc EXCEPT
                               !.st = "up", !.thread = o.thread, !.sig = o.sig,
                               !.work = restored]]
                /\ entries' = (kept \ victims) \cup {p}
                /\ dying' = dying \cup dropped \cup victims
    BY <1>11
  <2> DEFINE R  == dropped \cup victims
             pr == Termed(proc, R)
             E  == entries \ R
             D  == dying \cup R
             c  == [NoProc EXCEPT !.st = "up"]
             pc == [pr EXCEPT ![p] = c]
             d  == [NoProc EXCEPT !.st = "up", !.thread = o.thread, !.sig = o.sig,
                      !.work = restored]
  <2>2. victims \subseteq kept
    BY DEF Victims
  <2>3. dropped \subseteq R /\ R \subseteq entries
    BY <1>1, <2>2
  <2>4. /\ Posts(turn, pr, E, D, interruptedExits, current, chain)
        /\ FreeIn(pr) /\ Unretired(o.thread, pr, interruptedExits)
    BY <1>5, <2>3
  <2>5. /\ \A q \in Pids : Answers(pr, E, q) /\ proc[q].thread = o.thread => q \in kept
    BY <1>5, <2>3
  <2>6. (kept \ victims) \cup {p} = E \cup {p} /\ dying \cup dropped \cup victims = D
    OBVIOUS
  <2>7. proc' = [pr EXCEPT ![p] = d] /\ entries' = E \cup {p} /\ dying' = D
    BY <2>1, <2>6
  <2>8. /\ c \in PoolEntry /\ Lives(c) /\ c.role = "warm" /\ c.thread = None /\ BlankOf(c, <<>>)
        /\ ~c.blank
    BY NoProcType DEF PoolEntry, NoProc, Lives, BlankOf
  <2>9. d \in PoolEntry /\ Lives(d) /\ d.role = "warm" /\ d.thread = o.thread /\ ~d.blank
    <3>1. (o.kind = "resume") \in BOOLEAN /\ restored \in SUBSET {"task", "wake"}
      OBVIOUS
    <3> QED BY NoProcType, <3>1 DEF PoolEntry, TurnState, NoProc, Lives
  <2>10. pr[p].st = "free" /\ chain[p] = <<>>
    BY <2>1, <2>4, FreshFree DEF FreeIn
  <2>11. \A q \in Pids : pr[q].thread = proc[q].thread
    BY TermedSame DEF TypeOK
  <2>12. pr \in [Pids -> PoolEntry]
    BY TermedType DEF TypeOK
  <2> HIDE DEF c, d, R, pr, E, D
  <2>13. Posts(turn, pc, E \cup {p}, D, interruptedExits, current, chain)
    BY <2>4, <2>8, <2>10, PostsSpawn
  <2>14. pc[p] = c /\ (\A q \in Pids : q # p => pc[q] = pr[q]) /\ [pc EXCEPT ![p] = d] = [pr EXCEPT ![p] = d]
    BY <2>12
  <2> HIDE DEF pc
  <2>15. ASSUME SerialThreads, NEW q \in Pids, Answers(pc, E \cup {p}, q), q # p
         PROVE  pc[q].thread # o.thread
    <3>1. Answers(pr, E, q)
      BY <2>14, <2>15 DEF Answers
    <3> QED BY <1>4, <1>11, <2>5, <2>11, <2>14, <2>15, <3>1
  <2>16. Unretired(o.thread, pc, interruptedExits)
    <3>1. p \notin interruptedExits
      <4>1. CensusOf(p, pr[p], E, D, interruptedExits)
        BY <2>4, PostsType
      <4> QED BY <2>10, <4>1 DEF CensusOf, Lives
    <3>2. interruptedExits \subseteq Pids
      BY DEF TypeOK
    <3> QED BY <2>4, <2>14, <3>1, <3>2 DEF Unretired
  <2>17. p \in E \cup {p} /\ pc[p].thread \in {None, o.thread}
    BY <2>8, <2>14
  <2> HIDE DEF dropped, kept, same, standby, adopt, gone
  <2>18. Posts(turn', [pc EXCEPT ![p] = d], E \cup {p}, D, interruptedExits, current, chain')
    BY <2>1, <2>9, <2>13, <2>15, <2>16, <2>17, QueuePosts
  <2> QED BY <1>2, <2>7, <2>14, <2>18 DEF InPlace
<1>12. CASE /\ same = {} /\ FallBack(t, o, gone)
            /\ entries' = kept /\ dying' = dying \cup dropped /\ UNCHANGED chain
  <2>1. [turn EXCEPT ![t] = turn[t]] = turn /\ turn[t] \in TurnState
    BY DEF TypeOK
  <2>2. /\ FreeIn(gone)
        /\ \A p \in interruptedExits : p \in interruptedExits /\ gone[p].thread = proc[p].thread
    BY <1>1, <1>5
  <2>3. ASSUME SerialThreads, NEW p \in kept PROVE gone[p].thread # o.thread
    BY <1>1, <1>4, <1>6, <1>12, <2>3
  <2> HIDE DEF dropped, kept, same, standby, adopt, gone
  <2>4. Posts([turn EXCEPT ![t] = turn[t]], gone, kept, dying \cup dropped, interruptedExits, current, chain)
    BY <1>7, <2>1
  <2>5. Posts(turn', proc', kept, dying \cup dropped, interruptedExits, current, chain)
    BY <1>12, <2>1, <2>2, <2>3, <2>4, FallBackPosts
  <2> QED BY <1>2, <1>12, <2>5 DEF InPlace
<1> HIDE DEF gone, kept
<1> QED BY <1>9, <1>10, <1>11, <1>12 DEF Place, gone, kept

LEMMA EndedRecords ==
  /\ Resolved \in TurnState /\ ~IsOpen(Resolved) /\ Resolved.timer = "none"
  /\ Rejected \in TurnState /\ ~IsOpen(Rejected) /\ Rejected.timer = "none"
  /\ NoTurn \in TurnState /\ ~IsOpen(NoTurn) /\ NoTurn.timer = "none"
BY NoTurnType DEF Resolved, Rejected, NoTurn, IsOpen

LEMMA AdmitPosts ==
  ASSUME TypeOK, InPlace, NEW t \in Turns, NEW o \in TurnState,
         turn[t].phase \in {"none", "waiting"}, o.timer = "none", o.thread \in Threads,
         Alone(t, o.thread, turn), Admit(t, o)
  PROVE  InPlace'
<1>1. CASE /\ turn' = [turn EXCEPT ![t] = Rejected]
           /\ UNCHANGED <<proc, entries, dying, interruptedExits, current, chain>>
  <2>1. Posts([turn EXCEPT ![t] = Rejected], proc, entries, dying, interruptedExits, current, chain)
    BY EndedRecords, PostsBegin DEF InPlace
  <2> QED BY <1>1, <2>1 DEF InPlace
<1>2. CASE /\ ColdWritersOf(proc, o.thread) = {} /\ ExitsPending(o.thread) # {}
           /\ turn' = [turn EXCEPT ![t] = [o EXCEPT !.phase = "waiting", !.then = "place"]]
           /\ UNCHANGED <<proc, entries, dying, interruptedExits, current, chain>>
  <2> DEFINE x == [o EXCEPT !.phase = "waiting", !.then = "place"]
  <2>1. x \in TurnState /\ x.phase = "waiting" /\ x.thread = o.thread /\ x.timer = "none"
    BY DEF TurnState, Phases
  <2>2. Unanswered(o.thread, proc, entries)
    <3>1. PICK p \in interruptedExits : proc[p].thread = o.thread
      BY <1>2 DEF ExitsPending
    <3>2. p \in Pids /\ None \notin Threads
      BY ClaudePoolAssumption DEF TypeOK
    <3>3. SerialThreads => Apart(proc, entries, interruptedExits)
      BY DEF InPlace, Posts
    <3> QED BY <3>1, <3>2, <3>3 DEF Unanswered, Apart
  <2>3. turn' = [turn EXCEPT ![t] = x]
    BY <1>2
  <2> HIDE DEF x
  <2>4. Posts([turn EXCEPT ![t] = x], proc, entries, dying, interruptedExits, current, chain)
    BY <2>1, <2>2, PostsBegin DEF InPlace
  <2> QED BY <1>2, <2>3, <2>4 DEF InPlace
<1>3. CASE /\ ColdWritersOf(proc, o.thread) = {} /\ ExitsPending(o.thread) = {} /\ Place(t, o)
  BY <1>3, PlacePosts
<1> QED BY <1>1, <1>2, <1>3 DEF Admit

\* An open turn has its thread to itself.
LEMMA OwnThread ==
  ASSUME InPlace, NEW t \in Turns, IsOpen(turn[t])
  PROVE  Alone(t, turn[t].thread, turn) /\ turn[t].thread \in Threads
<1>1. SerialThreads => OneTurn(turn)
  BY DEF InPlace, Posts
<1> QED BY <1>1, PostsType DEF InPlace, Alone, OneTurn

LEMMA PlacementPosts ==
  ASSUME TypeOK, TurnInv, InPlace,
         \/ \E t \in Turns : Run(t) \/ ResumeWaiter(t)
         \/ \E p \in Pids : RunLink(p) \/ PopLink(p)
  PROVE  InPlace'
<1>1. ASSUME NEW t \in Turns, Run(t) PROVE InPlace'
  <2>1. PICK th \in Threads, sig \in Sigs, kind \in Kinds :
          /\ SerialThreads => \A u \in Turns : Open(u) => turn[u].thread # th
          /\ Admit(t, [NoTurn EXCEPT !.thread = th, !.sig = sig, !.kind = kind])
    BY <1>1 DEF Run
  <2> DEFINE o == [NoTurn EXCEPT !.thread = th, !.sig = sig, !.kind = kind]
  <2>2. o \in TurnState /\ o.timer = "none" /\ o.thread = th
    BY NoTurnType DEF TurnState, NoTurn
  <2>3. turn[t].phase = "none" /\ Admit(t, o)
    BY <1>1, <2>1 DEF Run
  <2>4. Alone(t, th, turn)
    BY <2>1 DEF Alone, IsOpen, Open, Settled
  <2> HIDE DEF o
  <2> QED BY <2>2, <2>3, <2>4, AdmitPosts
<1>2. ASSUME NEW t \in Turns, ResumeWaiter(t) PROVE InPlace'
  <2>1. turn[t].phase = "waiting" /\ turn[t] \in TurnState /\ IsOpen(turn[t])
    BY <1>2 DEF ResumeWaiter, TypeOK, IsOpen
  <2>2. turn[t].timer = "none"
    <3>1. ~turn[t].kill /\ SeatOf(t, turn[t], proc, chain)
      BY <2>1, PostsType DEF InPlace, TurnInv, Shape
    <3> QED BY <3>1 DEF SeatOf
  <2>3. Alone(t, turn[t].thread, turn) /\ turn[t].thread \in Threads
    BY <2>1, OwnThread
  <2>4. CASE Admit(t, turn[t])
    BY <2>1, <2>2, <2>3, <2>4, AdmitPosts
  <2>5. CASE FallBack(t, turn[t], proc)
             /\ UNCHANGED <<entries, dying, interruptedExits, current, chain>>
    <3>1. [turn EXCEPT ![t] = turn[t]] = turn
      BY DEF TypeOK
    <3>2. Posts([turn EXCEPT ![t] = turn[t]], proc, entries, dying, interruptedExits, current, chain)
      BY <3>1 DEF InPlace
    <3>3. ASSUME SerialThreads, NEW p \in entries PROVE proc[p].thread # turn[t].thread
      <4>1. Claims(turn, proc, entries, interruptedExits) /\ p \in Pids
        BY <3>3 DEF InPlace, Posts, TypeOK
      <4> QED BY <2>1, <4>1 DEF Claims, Answers
    <3>4. Posts(turn', proc', entries, dying, interruptedExits, current, chain)
      BY <2>1, <2>2, <2>3, <2>5, <3>2, <3>3, FallBackPosts DEF FreeIn
    <3> QED BY <2>5, <3>4 DEF InPlace
  <2> QED BY <1>2, <2>4, <2>5 DEF ResumeWaiter
<1>3. ASSUME NEW p \in Pids, RunLink(p) PROVE InPlace'
  <2> DEFINE t == Head(chain[p])
  <2>1. t \in Turns /\ chain[p] # <<>> /\ turn[t].phase = "queued"
    <3>1. chain[p] \in Seq(Turns) /\ chain[p] # <<>>
      BY <1>3 DEF RunLink, TypeOK
    <3> QED BY <1>3, <3>1 DEF RunLink
  <2>2. turn[t].entry = p
    <3>1. 1 \in DOMAIN chain[p] /\ chain[p][1] = t
      BY <2>1 DEF TypeOK
    <3> HIDE DEF t
    <3> QED BY <2>1, <3>1 DEF TurnInv, ChainInv
  <2>3. UNCHANGED <<entries, dying, interruptedExits>>
    BY <1>3 DEF RunLink
  <2>4. \/ /\ p \in entries
           /\ current' = [current EXCEPT ![p] = t]
           /\ turn' = [turn EXCEPT ![t].phase = "running"]
           /\ proc' = [proc EXCEPT ![p].inbox = Append(@, t)]
           /\ UNCHANGED chain
        \/ /\ p \notin entries
           /\ FallBack(t, turn[t], proc) /\ UNCHANGED current
           /\ chain' = [chain EXCEPT ![p] = Tail(@)]
    BY <1>3 DEF RunLink
  <2>5. t = Head(chain[p])
    OBVIOUS
  <2> HIDE DEF t
  <2>6. turn[t] \in TurnState /\ turn[t].timer = "none" /\ IsOpen(turn[t])
    <3>1. ~turn[t].kill /\ SeatOf(t, turn[t], proc, chain)
      BY <2>1, PostsType DEF InPlace, TurnInv, Shape
    <3> QED BY <2>1, <3>1 DEF SeatOf, TypeOK, IsOpen
  <2>7. CASE /\ p \in entries
             /\ current' = [current EXCEPT ![p] = t]
             /\ turn' = [turn EXCEPT ![t].phase = "running"]
             /\ proc' = [proc EXCEPT ![p].inbox = Append(@, t)]
             /\ UNCHANGED chain
    <3> DEFINE x == [turn[t] EXCEPT !.phase = "running"]
               d == [proc[p] EXCEPT !.inbox = Append(proc[p].inbox, t)]
    <3>1. /\ x \in TurnState /\ x.phase = "running" /\ x.entry = p /\ x.thread = turn[t].thread
          /\ x.timer = "none"
      BY <2>2, <2>6 DEF TurnState, Phases
    <3>2. turn' = [turn EXCEPT ![t] = x] /\ proc' = [proc EXCEPT ![p] = d]
      BY <2>7 DEF TypeOK
    <3>3. /\ proc[p] \in PoolEntry /\ CensusOf(p, proc[p], entries, dying, interruptedExits)
          /\ BlankOf(proc[p], chain[p])
      BY PostsType DEF InPlace
    <3>4. /\ d \in PoolEntry /\ Lives(proc[p]) /\ Lives(d) /\ d.role = proc[p].role
          /\ d.thread = proc[p].thread /\ ~d.blank
      <4>1. Append(proc[p].inbox, t) \in Seq(Turns)
        BY <2>1, <3>3 DEF PoolEntry
      <4> QED BY <2>1, <2>7, <3>3, <4>1 DEF PoolEntry, Lives, CensusOf, BlankOf
    <3> HIDE DEF x, d
    <3>5. Posts(turn, [proc EXCEPT ![p] = d], entries, dying, interruptedExits, current, chain)
      BY <3>4, PostsLine DEF InPlace
    <3>6. Posts([turn EXCEPT ![t] = x], [proc EXCEPT ![p] = d], entries, dying, interruptedExits,
                [current EXCEPT ![p] = t], chain)
      BY <2>1, <2>2, <2>5, <2>7, <3>1, <3>5, PostsStart
    <3> QED BY <2>3, <2>7, <3>2, <3>6 DEF InPlace
  <2>8. CASE /\ p \notin entries /\ FallBack(t, turn[t], proc) /\ UNCHANGED current
             /\ chain' = [chain EXCEPT ![p] = Tail(@)]
    <3> DEFINE un == [turn EXCEPT ![t] = NoTurn]
    <3>1. un \in [Turns -> TurnState] /\ \A u \in Turns : Notes(turn[u], un[u])
      <4>1. \A u \in Turns : SeatOf(u, turn[u], proc, chain)
        BY PostsType DEF InPlace
      <4> QED BY <2>1, <4>1, EndedRecords DEF TypeOK, Notes, SeatOf
    <3> HIDE DEF un
    <3>2. Posts(un, proc, entries, dying, interruptedExits, current, chain)
      BY <3>1, PostsNote DEF InPlace
    <3>3. Posts([turn EXCEPT ![t] = NoTurn], proc, entries, dying, interruptedExits, current, chain)
      BY <3>2 DEF un
    <3>4. ASSUME SerialThreads, NEW q \in entries PROVE proc[q].thread # turn[t].thread
      <4>1. Claims(turn, proc, entries, interruptedExits) /\ q \in Pids
        BY <3>4 DEF InPlace, Posts, TypeOK
      <4> QED BY <2>1, <2>2, <2>6, <2>8, <4>1 DEF Claims, Answers
    <3>5. Alone(t, turn[t].thread, turn) /\ turn[t].thread \in Threads
      BY <2>1, <2>6, OwnThread
    <3>6. NoTurn.phase = "none" /\ NoTurn \in TurnState /\ FreeIn(proc)
      BY EndedRecords DEF NoTurn, FreeIn
    <3>7. Posts(turn', proc', entries, dying, interruptedExits, current, chain)
      BY <2>1, <2>6, <2>8, <3>3, <3>4, <3>5, <3>6, FallBackPosts
    <3>8. turn'[t].phase \notin {"queued", "running"}
      <4>1. turn[t] \in TurnState /\ turn \in [Turns -> TurnState]
        BY <2>1 DEF TypeOK
      <4>2. /\ Resolved.phase = "resolved" /\ Rejected.phase = "rejected"
            /\ [turn[t] EXCEPT !.phase = "waiting", !.then = "cold", !.entry = None].phase = "waiting"
            /\ \A c : [turn[t] EXCEPT !.phase = "cold", !.entry = c].phase = "cold"
        BY <4>1 DEF Resolved, Rejected, NoTurn, TurnState
      <4>3. \E x : turn' = [turn EXCEPT ![t] = x] /\ x.phase \notin {"queued", "running"}
        BY <2>8, <4>2 DEF FallBack
      <4> QED BY <2>1, <4>1, <4>3
    <3>9. Posts(turn', proc', entries, dying, interruptedExits, current, [chain EXCEPT ![p] = Tail(@)])
      BY <2>1, <2>5, <3>7, <3>8, PostsPop
    <3> QED BY <2>3, <2>8, <3>9 DEF InPlace
  <2> QED BY <2>4, <2>7, <2>8
<1>4. ASSUME NEW p \in Pids, PopLink(p) PROVE InPlace'
  <2>1. chain[p] # <<>> /\ turn[Head(chain[p])].phase \notin {"queued", "running"}
    BY <1>4 DEF PopLink, LinkDone, Settled
  <2>2. Posts(turn, proc, entries, dying, interruptedExits, current, [chain EXCEPT ![p] = Tail(@)])
    BY <2>1, PostsPop DEF InPlace
  <2> QED BY <1>4, <2>2 DEF PopLink, InPlace
<1> QED BY <1>1, <1>2, <1>3, <1>4

LEMMA StandbyPosts ==
  ASSUME TypeOK, InPlace, Prewarm \/ Replenish \/ RespawnTimer \/ IdleSweep
  PROVE  InPlace'
<1>1. prewarm \in Standby /\ FreeIn(proc) /\ entries \subseteq Pids /\ proc \in [Pids -> PoolEntry]
  BY DEF TypeOK, FreeIn
<1>2. ASSUME NEW pr, NEW E, NEW pw \in Standby, MaybeSpawnBlank(pr, E, pw, disk), FreeIn(pr),
             Posts(turn, pr, E, dying', interruptedExits, current, chain),
             UNCHANGED <<turn, interruptedExits, current, chain>>
      PROVE  InPlace'
  <2>1. Posts(turn, proc', entries', dying', interruptedExits, current, chain)
    BY <1>2, MaybeSpawnBlankPosts
  <2> QED BY <1>2, <2>1 DEF InPlace
<1>3. CASE Prewarm
  <2>1. PICK sig \in PrewarmSigs :
          MaybeSpawnBlank(proc, entries, [prewarm EXCEPT !.proto = sig], disk)
    BY <1>3 DEF Prewarm
  <2>2. [prewarm EXCEPT !.proto = sig] \in Standby
    BY <1>1, ClaudePoolAssumption DEF Standby
  <2> QED BY <1>1, <1>2, <1>3, <2>1, <2>2 DEF Prewarm, InPlace
<1>4. CASE Replenish
  <2>1. [prewarm EXCEPT !.due = FALSE] \in Standby
    BY <1>1 DEF Standby
  <2> QED BY <1>1, <1>2, <1>4, <2>1 DEF Replenish, InPlace
<1>5. CASE RespawnTimer
  <2>1. [prewarm EXCEPT !.timer = FALSE] \in Standby
    BY <1>1 DEF Standby
  <2> QED BY <1>1, <1>2, <1>5, <2>1 DEF RespawnTimer, InPlace
<1>6. CASE IdleSweep
  <2>1. PICK R \in SUBSET entries :
          /\ dying' = dying \cup R
          /\ IF \E p \in R : proc[p].blank
             THEN MaybeSpawnBlank(Termed(proc, R), entries \ R, prewarm, disk)
             ELSE /\ proc' = Termed(proc, R) /\ entries' = entries \ R
                  /\ UNCHANGED <<prewarm, disk>>
          /\ UNCHANGED <<turn, interruptedExits, current, chain, shutdown>>
    BY <1>6 DEF IdleSweep
  <2>2. \A p \in Pids : p \in R => Lives(proc[p])
    BY PostsType DEF InPlace, CensusOf
  <2>3. entries \cap R = R
    OBVIOUS
  <2>4. Posts(turn, Termed(proc, R), entries \ R, dying \cup (entries \cap R), interruptedExits, current, chain)
    BY <2>2, PostsRetire DEF InPlace
  <2>5. FreeIn(Termed(proc, R))
    BY <1>1, <2>2, TermedSame DEF FreeIn, Lives
  <2>6. CASE MaybeSpawnBlank(Termed(proc, R), entries \ R, prewarm, disk)
    BY <1>1, <1>2, <2>1, <2>3, <2>4, <2>5, <2>6
  <2>7. CASE proc' = Termed(proc, R) /\ entries' = entries \ R
    BY <2>1, <2>3, <2>4, <2>7 DEF InPlace
  <2> QED BY <2>1, <2>6, <2>7
<1> QED BY <1>3, <1>4, <1>5, <1>6

-----------------------------------------------------------------------------
(* Stopping a turn, and the output and the exit of its child.              *)

\* A retired child whose turn is still in flight is waited for.
LEMMA PostsAwait ==
  ASSUME NEW tn, NEW pr, NEW E, NEW D, NEW X, NEW cur, NEW ch,
         Posts(tn, pr, E, D, X, cur, ch), NEW t \in Turns, NEW p \in D,
         tn[t].phase = "running", tn[t].entry = p
  PROVE  Posts(tn, pr, E, D, X \cup {p}, cur, ch)
<1> DEFINE Xb == X \cup {p}
<1>1. \A q \in Pids : q \in Xb <=> q \in X \/ q = p
  OBVIOUS
<1>2. Typed(tn, pr, E, D, Xb, cur, ch)
  BY PostsType DEF Typed
<1> HIDE DEF Xb
<1>3. ASSUME NEW q \in Pids
      PROVE  /\ Ages(q, pr[q], pr[q], E, E, ch[q]) /\ CensusOf(q, pr[q], E, D, Xb)
             /\ WireOf(q, tn, pr, cur, ch)
             /\ q \in Xb => q \in X \/ Retires(q, tn, tn, pr)
  <2>1. CensusOf(q, pr[q], E, D, X) /\ BlankOf(pr[q], ch[q]) /\ WireOf(q, tn, pr, cur, ch)
    BY PostsType
  <2>2. Ages(q, pr[q], pr[q], E, E, ch[q]) /\ CensusOf(q, pr[q], E, D, Xb)
    BY <1>1, <2>1 DEF Ages, BlankOf, CensusOf
  <2>3. q = p => Retires(q, tn, tn, pr)
    BY <2>1 DEF CensusOf, Retires
  <2> QED BY <1>1, <2>1, <2>2, <2>3
<1>4. ASSUME NEW u \in Turns PROVE MovesOn(u, tn[u], tn[u], pr, E, cur, ch)
  <2>1. SeatOf(u, tn[u], pr, ch) /\ (tn[u].phase = "running" => cur[tn[u].entry] = u)
    BY PostsType
  <2>2. tn[u].phase = "cold" /\ tn[u].entry # None => Lives(pr[tn[u].entry])
    BY <2>1 DEF SeatOf
  <2> QED BY <2>1, <2>2 DEF MovesOn, SeatOf
<1>5. Posts(tn, pr, E, D, Xb, cur, ch)
  BY <1>2, <1>3, <1>4, PostsAge
<1> QED BY <1>5 DEF Xb

\* One turn's record changes where it is.
LEMMA NotePosts ==
  ASSUME InPlace, NEW t \in Turns, NEW x \in TurnState, Notes(turn[t], x)
  PROVE  Posts([turn EXCEPT ![t] = x], proc, entries, dying, interruptedExits, current, chain)
<1> DEFINE un == [turn EXCEPT ![t] = x]
<1>1. un \in [Turns -> TurnState] /\ un[t] = x /\ \A u \in Turns : u # t => un[u] = turn[u]
  BY PostsType DEF InPlace
<1>2. \A u \in Turns : SeatOf(u, turn[u], proc, chain)
  BY PostsType DEF InPlace
<1> HIDE DEF un
<1>3. \A u \in Turns : Notes(turn[u], un[u])
  BY <1>1, <1>2 DEF Notes, SeatOf
<1>4. Posts(un, proc, entries, dying, interruptedExits, current, chain)
  BY <1>1, <1>3, PostsNote DEF InPlace
<1> QED BY <1>4 DEF un

LEMMA StopPosts ==
  ASSUME TypeOK, InPlace, NEW t \in Turns, Interrupt(t) \/ Escalate(t) \/ Finalize(t)
  PROVE  InPlace'
<1> DEFINE p == turn[t].entry
<1>1. /\ turn[t] \in TurnState /\ SeatOf(t, turn[t], proc, chain) /\ entries \subseteq Pids
      /\ turn[t].phase = "running" => p \in Pids /\ current[p] = t
      /\ turn[t].phase = "running" => Lives(proc[p]) /\ proc[p].role = "warm"
                                      /\ CensusOf(p, proc[p], entries, dying, interruptedExits)
  <2>1. turn[t].phase = "running" => p \in Pids /\ current[p] = t
    BY PostsType DEF InPlace
  <2>2. turn[t].phase = "running" => /\ WireOf(p, turn, proc, current, chain)
                                     /\ CensusOf(p, proc[p], entries, dying, interruptedExits)
    BY <2>1, PostsType DEF InPlace
  <2> QED BY <2>1, <2>2, PostsType, ClaudePoolAssumption DEF InPlace, WireOf, TypeOK
<1>2. p = turn[t].entry
  OBVIOUS
<1> HIDE DEF p
\* What retiring the turn's child gives.
<1>3. ASSUME NEW tn, NEW cur, turn[t].phase = "running",
             Posts(tn, proc, entries, dying, interruptedExits, cur, chain)
      PROVE  /\ Posts(tn, Termed(proc, {p}), entries \ {p}, dying \cup {p}, interruptedExits, cur, chain)
             /\ p \in dying \cup {p}
  <2>1. \A q \in Pids : q \in {p} => Lives(proc[q])
    BY <1>1, <1>3
  <2>2. dying \cup (entries \cap {p}) = dying \cup {p}
    BY <1>1, <1>3 DEF CensusOf
  <2>3. Posts(tn, Termed(proc, {p}), entries \ {p}, dying \cup (entries \cap {p}), interruptedExits, cur, chain)
    BY <1>3, <2>1, PostsRetire
  <2> QED BY <2>2, <2>3
<1>4. CASE Interrupt(t)
  <2> DEFINE o == [turn[t] EXCEPT !.kill = TRUE]
             x == [o EXCEPT !.timer = "escalate"]
  <2>1. /\ o \in TurnState /\ o.phase = turn[t].phase /\ o.entry = turn[t].entry
        /\ o.thread = turn[t].thread /\ o.kill /\ o.waitBg = turn[t].waitBg
        /\ x \in TurnState /\ x.phase = turn[t].phase /\ x.entry = turn[t].entry
        /\ x.thread = turn[t].thread /\ x.kill
    BY <1>1 DEF TurnState, Timers
  <2>2. /\ UNCHANGED <<interruptedExits, chain>>
        /\ \/ /\ o.phase = "cold"
              /\ turn' = [turn EXCEPT ![t] = o]
              /\ proc' = IF p = None THEN proc ELSE Termed(proc, {p})
              /\ UNCHANGED <<entries, dying, current>>
           \/ /\ o.phase \in {"waiting", "queued"}
              /\ turn' = [turn EXCEPT ![t] = Resolved]
              /\ UNCHANGED <<proc, entries, dying, current>>
           \/ /\ o.phase = "running"
              /\ turn' = [turn EXCEPT ![t] = Resolved]
              /\ current' = [current EXCEPT ![p] = None]
              /\ proc' = [Termed(proc, {p}) EXCEPT ![p].cut = TRUE]
              /\ entries' = entries \ {p} /\ dying' = dying \cup {p}
           \/ /\ o.phase = "running"
              /\ turn' = [turn EXCEPT ![t] = x]
              /\ UNCHANGED <<proc, entries, dying, current>>
    BY <1>2, <1>4 DEF Interrupt
  <2> HIDE DEF o, x
  <2>3. CASE /\ o.phase = "cold"
             /\ turn' = [turn EXCEPT ![t] = o]
             /\ proc' = IF p = None THEN proc ELSE Termed(proc, {p})
             /\ UNCHANGED <<entries, dying, current>>
    <3>1. Posts([turn EXCEPT ![t] = o], proc, entries, dying, interruptedExits, current, chain)
      BY <2>1, NotePosts DEF Notes
    <3>2. CASE p = None
      BY <2>2, <2>3, <3>1, <3>2 DEF InPlace
    <3>3. CASE p # None
      <4>1. p \in Pids /\ Lives(proc[p]) /\ proc[p].role = "cold"
        BY <1>1, <1>2, <2>1, <2>3, <3>3 DEF SeatOf
      <4>2. p \notin entries
        BY <4>1, PostsType DEF InPlace, CensusOf
      <4>3. entries \ {p} = entries /\ dying \cup (entries \cap {p}) = dying
            /\ \A q \in Pids : q \in {p} => Lives(proc[q])
        BY <4>1, <4>2
      <4>4. Posts([turn EXCEPT ![t] = o], Termed(proc, {p}), entries \ {p},
                  dying \cup (entries \cap {p}), interruptedExits, current, chain)
        BY <3>1, <4>3, PostsRetire
      <4> QED BY <2>2, <2>3, <3>3, <4>3, <4>4 DEF InPlace
    <3> QED BY <3>2, <3>3
  <2>4. CASE /\ o.phase \in {"waiting", "queued"}
             /\ turn' = [turn EXCEPT ![t] = Resolved]
             /\ UNCHANGED <<proc, entries, dying, current>>
    <3>1. Posts([turn EXCEPT ![t] = Resolved], proc, entries, dying, interruptedExits, current, chain)
      BY <2>1, <2>4, EndedRecords, NotePosts DEF Notes
    <3> QED BY <2>2, <2>4, <3>1 DEF InPlace
  <2>5. CASE /\ o.phase = "running"
             /\ turn' = [turn EXCEPT ![t] = Resolved]
             /\ current' = [current EXCEPT ![p] = None]
             /\ proc' = [Termed(proc, {p}) EXCEPT ![p].cut = TRUE]
             /\ entries' = entries \ {p} /\ dying' = dying \cup {p}
    <3>1. Posts([turn EXCEPT ![t] = Resolved], proc, entries, dying, interruptedExits,
                [current EXCEPT ![p] = None], chain)
      BY <1>2, <2>1, <2>5, EndedRecords, PostsSettle DEF InPlace
    <3>2. Posts([turn EXCEPT ![t] = Resolved], Termed(proc, {p}), entries \ {p}, dying \cup {p},
                interruptedExits, [current EXCEPT ![p] = None], chain)
      BY <1>3, <2>1, <2>5, <3>1
    <3> DEFINE gone == Termed(proc, {p})
               d    == [gone[p] EXCEPT !.cut = TRUE]
    <3>3. /\ p \in Pids /\ gone[p] \in PoolEntry /\ Lives(gone[p])
          /\ d \in PoolEntry /\ Lives(d) /\ d.role = gone[p].role /\ d.thread = gone[p].thread
          /\ d.blank => gone[p].blank /\ d.inbox = <<>> /\ ~d.tasks /\ ~d.wake
          /\ proc' = [gone EXCEPT ![p] = d]
      <4>1. p \in Pids /\ proc[p] \in PoolEntry /\ gone[p] = [proc[p] EXCEPT !.st = "term"]
        BY <1>1, <2>1, <2>5 DEF Termed, TypeOK
      <4>2. proc[p].blank => proc[p].inbox = <<>> /\ ~proc[p].tasks /\ ~proc[p].wake
        BY <4>1, PostsType DEF InPlace, BlankOf
      <4>3. gone[p] \in PoolEntry /\ Lives(gone[p])
            /\ (gone[p].blank => gone[p].inbox = <<>> /\ ~gone[p].tasks /\ ~gone[p].wake)
        BY <4>1, <4>2 DEF PoolEntry, Lives
      <4>4. proc' = [gone EXCEPT ![p] = d]
        BY <2>5
      <4> HIDE DEF gone
      <4> QED BY <4>1, <4>3, <4>4 DEF PoolEntry, Lives
    <3>4. Posts([turn EXCEPT ![t] = Resolved], gone, entries \ {p}, dying \cup {p},
                interruptedExits, [current EXCEPT ![p] = None], chain)
      BY <3>2
    <3> HIDE DEF gone, d
    <3>5. Posts([turn EXCEPT ![t] = Resolved], [gone EXCEPT ![p] = d], entries \ {p}, dying \cup {p},
                interruptedExits, [current EXCEPT ![p] = None], chain)
      BY <3>3, <3>4, PostsLine
    <3> QED BY <2>2, <2>5, <3>3, <3>5 DEF InPlace
  <2>6. CASE /\ o.phase = "running"
             /\ turn' = [turn EXCEPT ![t] = x]
             /\ UNCHANGED <<proc, entries, dying, current>>
    <3>1. Posts([turn EXCEPT ![t] = x], proc, entries, dying, interruptedExits, current, chain)
      BY <2>1, NotePosts DEF Notes
    <3> QED BY <2>2, <2>6, <3>1 DEF InPlace
  <2> QED BY <2>2, <2>3, <2>4, <2>5, <2>6
<1>5. CASE Escalate(t)
  <2> DEFINE x == SettleBackstop(turn[t])
  <2>1. /\ x \in TurnState /\ x.phase = turn[t].phase /\ x.entry = turn[t].entry
        /\ x.thread = turn[t].thread /\ x.kill
    <3>1. turn[t].kill
      BY <1>1, <1>5 DEF Escalate, SeatOf
    <3> QED BY <1>1, <3>1 DEF SettleBackstop, TurnState, Timers
  <2>2. /\ turn[t].phase = "running" /\ turn' = [turn EXCEPT ![t] = x]
        /\ interruptedExits' = interruptedExits \cup {p} /\ proc' = Termed(proc, {p})
        /\ entries' = entries \ {p} /\ dying' = dying \cup {p} /\ UNCHANGED <<current, chain>>
    BY <1>2, <1>5 DEF Escalate
  <2> HIDE DEF x
  <2>3. Posts([turn EXCEPT ![t] = x], proc, entries, dying, interruptedExits, current, chain)
    BY <2>1, NotePosts DEF Notes
  <2>4. /\ Posts([turn EXCEPT ![t] = x], Termed(proc, {p}), entries \ {p}, dying \cup {p},
                interruptedExits, current, chain)
        /\ p \in dying \cup {p}
    BY <1>3, <2>2, <2>3
  <2> DEFINE un == [turn EXCEPT ![t] = x]
  <2>5. un[t].phase = "running" /\ un[t].entry = p
    BY <1>2, <2>1, <2>2 DEF TypeOK
  <2> HIDE DEF un
  <2>6. Posts(un, Termed(proc, {p}), entries \ {p}, dying \cup {p}, interruptedExits, current, chain)
    BY <2>4 DEF un
  <2>7. Posts(un, Termed(proc, {p}), entries \ {p}, dying \cup {p},
              interruptedExits \cup {p}, current, chain)
    BY <2>4, <2>5, <2>6, PostsAwait
  <2> QED BY <2>2, <2>7 DEF InPlace, un
<1>6. CASE Finalize(t)
  <2>1. /\ turn[t].phase = "running" /\ turn' = [turn EXCEPT ![t] = Resolved]
        /\ current' = [current EXCEPT ![p] = None]
        /\ UNCHANGED <<proc, entries, dying, interruptedExits, chain>>
    BY <1>2, <1>6 DEF Finalize
  <2>2. Posts([turn EXCEPT ![t] = Resolved], proc, entries, dying, interruptedExits,
              [current EXCEPT ![p] = None], chain)
    <3>1. turn[t].phase = "running" /\ turn[t].entry = p
      BY <1>2, <2>1
    <3>2. Posts(turn, proc, entries, dying, interruptedExits, current, chain)
      BY DEF InPlace
    <3> QED BY <3>1, <3>2, EndedRecords, PostsSettle
  <2> QED BY <2>1, <2>2 DEF InPlace
<1> QED BY <1>4, <1>5, <1>6

LEMMA LinePosts ==
  ASSUME TypeOK, TurnInv, InPlace, NEW p \in Pids,
         \/ ContentLine(p) \/ TasksChanged(p) \/ WakeupScheduled(p) \/ KeepaliveExpires(p)
         \/ ColdResult(p)
  PROVE  InPlace'
<1>1. proc[p] \in PoolEntry /\ BlankOf(proc[p], chain[p]) /\ proc \in [Pids -> PoolEntry]
  BY PostsType DEF InPlace, TypeOK
<1>2. CASE ContentLine(p)
  <2> DEFINE t == current[p]
             x == [turn[t] EXCEPT !.reached = TRUE]
  <2>1. t \in Turns /\ turn' = [turn EXCEPT ![t] = x] /\ turn[t] \in TurnState
        /\ UNCHANGED <<proc, entries, dying, interruptedExits, current, chain>>
    BY <1>2 DEF ContentLine, Idle, TypeOK
  <2>2. SeatOf(t, turn[t], proc, chain)
    BY <2>1, PostsType DEF InPlace
  <2> HIDE DEF t
  <2>3. x \in TurnState /\ Notes(turn[t], x)
    BY <2>1, <2>2 DEF TurnState, Notes, SeatOf
  <2> HIDE DEF x
  <2>4. Posts([turn EXCEPT ![t] = x], proc, entries, dying, interruptedExits, current, chain)
    BY <2>1, <2>3, NotePosts
  <2> QED BY <2>1, <2>4 DEF InPlace
<1>3. ASSUME NEW d \in PoolEntry, proc' = [proc EXCEPT ![p] = d], Alive(p), Lives(d),
             d.role = proc[p].role, d.thread = proc[p].thread,
             d.blank => proc[p].blank /\ d.inbox = <<>> /\ ~d.tasks /\ ~d.wake,
             UNCHANGED <<turn, entries, dying, interruptedExits, current, chain>>
      PROVE  InPlace'
  <2>1. Posts(turn, [proc EXCEPT ![p] = d], entries, dying, interruptedExits, current, chain)
    BY <1>3, PostsLine DEF InPlace, Alive, Lives
  <2> QED BY <1>3, <2>1 DEF InPlace
<1>4. CASE TasksChanged(p)
  <2>1. CASE /\ ~proc[p].tasks /\ proc[p].inbox # <<>>
             /\ proc' = [proc EXCEPT ![p].tasks = TRUE, ![p].work = @ \cup {"task"}]
    <3> DEFINE d == [proc[p] EXCEPT !.tasks = TRUE, !.work = proc[p].work \cup {"task"}]
    <3>1. proc' = [proc EXCEPT ![p] = d]
      BY <1>1, <2>1
    <3>2. /\ d \in PoolEntry /\ Lives(d) /\ d.role = proc[p].role /\ d.thread = proc[p].thread
          /\ ~d.blank
      BY <1>1, <1>4, <2>1 DEF PoolEntry, Lives, TasksChanged, Alive, BlankOf
    <3> HIDE DEF d
    <3> QED BY <1>3, <1>4, <3>1, <3>2 DEF TasksChanged
  <2>2. CASE /\ proc[p].tasks
             /\ proc' = [proc EXCEPT ![p].tasks = FALSE, ![p].aged = @ /\ proc[p].wake]
    <3> DEFINE d == [proc[p] EXCEPT !.tasks = FALSE, !.aged = proc[p].aged /\ proc[p].wake]
    <3>1. proc' = [proc EXCEPT ![p] = d]
      BY <1>1, <2>2
    <3>2. /\ d \in PoolEntry /\ Lives(d) /\ d.role = proc[p].role /\ d.thread = proc[p].thread
          /\ ~d.blank
      BY <1>1, <1>4, <2>2 DEF PoolEntry, Lives, TasksChanged, Alive, BlankOf
    <3> HIDE DEF d
    <3> QED BY <1>3, <1>4, <3>1, <3>2 DEF TasksChanged
  <2> QED BY <1>4, <2>1, <2>2 DEF TasksChanged
<1>5. CASE WakeupScheduled(p)
  <2> DEFINE d == [proc[p] EXCEPT !.wake = TRUE, !.work = proc[p].work \cup {"wake"}]
  <2>1. proc' = [proc EXCEPT ![p] = d]
    BY <1>1, <1>5 DEF WakeupScheduled
  <2>2. /\ d \in PoolEntry /\ Lives(d) /\ d.role = proc[p].role /\ d.thread = proc[p].thread
        /\ ~d.blank
    BY <1>1, <1>5 DEF PoolEntry, Lives, WakeupScheduled, Alive, BlankOf
  <2> HIDE DEF d
  <2> QED BY <1>3, <1>5, <2>1, <2>2 DEF WakeupScheduled
<1>6. CASE KeepaliveExpires(p)
  <2> DEFINE d == [proc[p] EXCEPT !.aged = TRUE]
  <2>1. proc' = [proc EXCEPT ![p] = d]
    BY <1>1, <1>6 DEF KeepaliveExpires
  <2>2. /\ d \in PoolEntry /\ Lives(d) /\ d.role = proc[p].role /\ d.thread = proc[p].thread
        /\ ~d.blank
    BY <1>1, <1>6 DEF PoolEntry, Lives, KeepaliveExpires, Alive, BlankOf, BackgroundPending
  <2> HIDE DEF d
  <2> QED BY <1>3, <1>6, <2>1, <2>2 DEF KeepaliveExpires
<1>7. CASE ColdResult(p)
  <2> DEFINE d == [proc[p] EXCEPT !.inbox = <<>>]
  <2>1. proc' = [proc EXCEPT ![p] = d]
    BY <1>1, <1>7 DEF ColdResult
  <2>2. /\ d \in PoolEntry /\ Lives(d) /\ d.role = proc[p].role /\ d.thread = proc[p].thread
        /\ ~d.blank
    <3>1. <<>> \in Seq(Turns)
      OBVIOUS
    <3> QED BY <1>1, <1>7, <3>1 DEF PoolEntry, Lives, ColdResult, Alive, BlankOf
  <2> HIDE DEF d
  <2> QED BY <1>3, <1>7, <2>1, <2>2 DEF ColdResult
<1> QED BY <1>2, <1>4, <1>5, <1>6, <1>7

LEMMA TakeResultPosts ==
  ASSUME TypeOK, NEW p \in Pids, NEW pr, NEW ok, NEW more,
         Posts(turn, pr, entries, dying, interruptedExits, current, chain),
         ~Idle(p), TakeResult(p, pr, ok, more), UNCHANGED <<interruptedExits, chain>>
  PROVE  InPlace'
<1> DEFINE t      == current[p]
           yields == ~turn[t].kill /\ ok /\ (BackgroundPending(pr, p) \/ more)
           ruin   == ~yields /\ ~ok /\ BackgroundPending(pr, p) /\ p \in entries
           dead   == IF ruin THEN {p} ELSE {}
           x      == [turn[t] EXCEPT !.waitBg = TRUE, !.reached = TRUE]
<1>1. /\ t \in Turns /\ turn[t] \in TurnState /\ turn[t].phase = "running" /\ turn[t].entry = p
      /\ SeatOf(t, turn[t], pr, chain)
  <2>1. WireOf(p, turn, pr, current, chain)
    BY PostsType
  <2> QED BY <2>1, PostsType DEF WireOf, Idle
<1>2. /\ turn' = [turn EXCEPT ![t] = IF yields THEN x ELSE Resolved]
      /\ current' = IF yields THEN current ELSE [current EXCEPT ![p] = None]
      /\ proc' = Termed(pr, dead) /\ entries' = entries \ dead /\ dying' = dying \cup dead
  BY <1>1 DEF TakeResult, TypeOK
<1>3. Posts(turn', pr, entries, dying, interruptedExits, current', chain)
  <2> HIDE DEF dead, ruin
  <2>1. CASE yields
    <3> HIDE DEF t
    <3>1. x \in TurnState /\ Notes(turn[t], x)
      BY <1>1 DEF TurnState, Notes, SeatOf
    <3> DEFINE un == [turn EXCEPT ![t] = x]
    <3>2. un \in [Turns -> TurnState] /\ un[t] = x /\ \A u \in Turns : u # t => un[u] = turn[u]
      BY <1>1, <3>1 DEF TypeOK
    <3>3. \A u \in Turns : SeatOf(u, turn[u], pr, chain)
      BY PostsType
    <3>4. turn' = un /\ current' = current
      BY <1>2, <2>1
    <3> HIDE DEF un, x
    <3>5. \A u \in Turns : Notes(turn[u], un[u])
      BY <3>1, <3>2, <3>3 DEF Notes, SeatOf
    <3>6. Posts(un, pr, entries, dying, interruptedExits, current, chain)
      BY <3>2, <3>5, PostsNote
    <3> QED BY <3>4, <3>6
  <2>2. CASE ~yields
    <3>1. turn' = [turn EXCEPT ![t] = Resolved] /\ current' = [current EXCEPT ![p] = None]
      BY <1>2, <2>2
    <3> HIDE DEF t, yields
    <3>2. Posts([turn EXCEPT ![t] = Resolved], pr, entries, dying, interruptedExits,
                [current EXCEPT ![p] = None], chain)
      BY <1>1, EndedRecords, PostsSettle
    <3> QED BY <3>1, <3>2
  <2> QED BY <2>1, <2>2
<1>4. dead \subseteq entries
  OBVIOUS
<1> HIDE DEF dead
<1>5. \A q \in Pids : q \in dead => Lives(pr[q])
  BY <1>4, PostsType DEF CensusOf
<1>6. entries \cap dead = dead
  BY <1>4
<1>7. Posts(turn', Termed(pr, dead), entries \ dead, dying \cup (entries \cap dead),
            interruptedExits, current', chain)
  BY <1>3, <1>5, PostsRetire
<1> QED BY <1>2, <1>6, <1>7 DEF InPlace

LEMMA ResultPosts ==
  ASSUME TypeOK, InPlace, NEW p \in Pids, UserResult(p) \/ FollowUpResult(p) \/ WakeupResult(p)
  PROVE  InPlace'
<1>1. /\ proc[p] \in PoolEntry /\ BlankOf(proc[p], chain[p]) /\ proc \in [Pids -> PoolEntry]
      /\ Lives(proc[p])
  BY PostsType DEF InPlace, TypeOK, UserResult, FollowUpResult, WakeupResult, Alive, Lives
\* The line is noted, then taken as the turn's answer or not.
<1>2. ASSUME NEW d \in PoolEntry, d.st = proc[p].st, d.role = proc[p].role,
             d.thread = proc[p].thread, d.blank = proc[p].blank,
             d.tasks = proc[p].tasks, d.wake => proc[p].wake,
             d.inbox \in {proc[p].inbox, Tail(proc[p].inbox)},
             proc[p].inbox = <<>> => d.inbox = <<>>,
             NEW pr, pr = [proc EXCEPT ![p] = d], NEW ok, NEW more,
             (~Idle(p) /\ TakeResult(p, pr, ok, more)) \/ IgnoreResult(pr),
             UNCHANGED <<interruptedExits, chain>>
      PROVE  InPlace'
  <2>1. Lives(d) /\ (d.blank => proc[p].blank /\ d.inbox = <<>> /\ ~d.tasks /\ ~d.wake)
    BY <1>1, <1>2 DEF Lives, BlankOf
  <2>2. Posts(turn, [proc EXCEPT ![p] = d], entries, dying, interruptedExits, current, chain)
    BY <1>1, <1>2, <2>1, PostsLine DEF InPlace
  <2>3. Posts(turn, pr, entries, dying, interruptedExits, current, chain)
    BY <1>2, <2>2
  <2>4. CASE IgnoreResult(pr)
    BY <1>2, <2>3, <2>4 DEF IgnoreResult, InPlace
  <2>5. CASE ~Idle(p) /\ TakeResult(p, pr, ok, more)
    BY <1>2, <2>3, <2>5, TakeResultPosts
  <2> QED BY <1>2, <2>4, <2>5
<1>3. CASE UserResult(p)
  <2> DEFINE d  == [proc[p] EXCEPT !.inbox = Tail(proc[p].inbox)]
             pr == [proc EXCEPT ![p] = d]
  <2>1. PICK ok \in BOOLEAN, more \in BOOLEAN :
          IF TakesUserResult(p) THEN TakeResult(p, [proc EXCEPT ![p].inbox = Tail(@)], ok, more)
          ELSE IgnoreResult([proc EXCEPT ![p].inbox = Tail(@)])
    BY <1>3 DEF UserResult
  <2>2. [proc EXCEPT ![p].inbox = Tail(@)] = pr
    BY <1>1
  <2>3. (~Idle(p) /\ TakeResult(p, pr, ok, more)) \/ IgnoreResult(pr)
    BY <2>1, <2>2 DEF TakesUserResult
  <2>4. /\ d \in PoolEntry /\ d.st = proc[p].st /\ d.role = proc[p].role /\ d.thread = proc[p].thread
        /\ d.blank = proc[p].blank /\ d.tasks = proc[p].tasks /\ d.wake = proc[p].wake
        /\ d.inbox = Tail(proc[p].inbox) /\ proc[p].inbox # <<>>
    <3>1. proc[p].inbox \in Seq(Turns) /\ proc[p].inbox # <<>>
      BY <1>1, <1>3 DEF PoolEntry, UserResult
    <3>2. Tail(proc[p].inbox) \in Seq(Turns)
      BY <3>1
    <3> QED BY <1>1, <3>1, <3>2 DEF PoolEntry
  <2>5. UNCHANGED <<interruptedExits, chain>>
    BY <1>3 DEF UserResult
  <2> HIDE DEF d
  <2> QED BY <1>2, <2>3, <2>4, <2>5
<1>4. CASE FollowUpResult(p)
  <2> DEFINE d  == [proc[p] EXCEPT !.work = proc[p].work \ {"task"}]
             pr == [proc EXCEPT ![p] = d]
  <2>1. PICK ok \in BOOLEAN :
          IF TakesFollowUp(p) THEN TakeResult(p, [proc EXCEPT ![p].work = @ \ {"task"}], ok, FALSE)
          ELSE IgnoreResult([proc EXCEPT ![p].work = @ \ {"task"}])
    BY <1>4 DEF FollowUpResult
  <2>2. [proc EXCEPT ![p].work = @ \ {"task"}] = pr
    BY <1>1
  <2>3. (~Idle(p) /\ TakeResult(p, pr, ok, FALSE)) \/ IgnoreResult(pr)
    BY <2>1, <2>2 DEF TakesFollowUp
  <2>4. /\ d \in PoolEntry /\ d.st = proc[p].st /\ d.role = proc[p].role /\ d.thread = proc[p].thread
        /\ d.blank = proc[p].blank /\ d.tasks = proc[p].tasks /\ d.wake = proc[p].wake
        /\ d.inbox = proc[p].inbox
    BY <1>1 DEF PoolEntry
  <2>5. UNCHANGED <<interruptedExits, chain>>
    BY <1>4 DEF FollowUpResult
  <2> HIDE DEF d
  <2> QED BY <1>2, <2>3, <2>4, <2>5
<1>5. CASE WakeupResult(p)
  <2> DEFINE d  == [proc[p] EXCEPT !.work = proc[p].work \ {"wake"}]
             pr == [proc EXCEPT ![p] = d]
             e  == [d EXCEPT !.wake = FALSE, !.aged = d.aged /\ d.tasks]
             ps == [proc EXCEPT ![p] = e]
  <2>1. PICK ok \in BOOLEAN :
          LET pd   == [proc EXCEPT ![p].work = @ \ {"wake"}]
              seen == [pd EXCEPT ![p].wake = FALSE, ![p].aged = @ /\ pd[p].tasks]
          IN
          IF Idle(p) THEN IgnoreResult(pd)
          ELSE TakeResult(p, IF turn[current[p]].kill THEN pd ELSE seen, ok, FALSE)
    BY <1>5 DEF WakeupResult
  <2>2. [proc EXCEPT ![p].work = @ \ {"wake"}] = pr /\ pr[p] = d
    BY <1>1
  <2>3. [pr EXCEPT ![p].wake = FALSE, ![p].aged = @ /\ pr[p].tasks] = ps
    BY <1>1
  <2>4. /\ d \in PoolEntry /\ d.st = proc[p].st /\ d.role = proc[p].role /\ d.thread = proc[p].thread
        /\ d.blank = proc[p].blank /\ d.tasks = proc[p].tasks /\ d.wake = proc[p].wake
        /\ d.inbox = proc[p].inbox
    BY <1>1 DEF PoolEntry
  <2>5. /\ e \in PoolEntry /\ e.st = proc[p].st /\ e.role = proc[p].role /\ e.thread = proc[p].thread
        /\ e.blank = proc[p].blank /\ e.tasks = proc[p].tasks /\ ~e.wake
        /\ e.inbox = proc[p].inbox
    <3> HIDE DEF d
    <3> QED BY <2>4 DEF PoolEntry
  <2>6. \/ (~Idle(p) /\ TakeResult(p, pr, ok, FALSE)) \/ IgnoreResult(pr)
        \/ ~Idle(p) /\ TakeResult(p, ps, ok, FALSE)
    <3> HIDE DEF pr, ps
    <3> QED BY <2>1, <2>2, <2>3
  <2>7. UNCHANGED <<interruptedExits, chain>>
    BY <1>5 DEF WakeupResult
  <2> HIDE DEF d, e
  <2>8. CASE (~Idle(p) /\ TakeResult(p, pr, ok, FALSE)) \/ IgnoreResult(pr)
    BY <1>2, <2>4, <2>7, <2>8
  <2>9. CASE ~Idle(p) /\ TakeResult(p, ps, ok, FALSE)
    BY <1>2, <2>5, <2>7, <2>9
  <2> QED BY <2>6, <2>8, <2>9
<1> QED BY <1>3, <1>4, <1>5

LEMMA ExitPosts ==
  ASSUME TypeOK, TurnInv, InPlace, NEW p \in Pids, WarmExit(p) \/ ColdExit(p)
  PROVE  InPlace'
<1>1. proc[p] \in PoolEntry /\ WireOf(p, turn, proc, current, chain) /\ p # None
      /\ CensusOf(p, proc[p], entries, dying, interruptedExits)
  BY PostsType, ClaudePoolAssumption DEF InPlace
<1>2. CASE WarmExit(p)
  <2> DEFINE t  == current[p]
             pr == [proc EXCEPT ![p] = NoProc]
             E  == entries \ {p}
             D  == dying \ {p}
             X  == interruptedExits \ {p}
             cb == [current EXCEPT ![p] = None]
  <2>1. /\ entries' = E /\ dying' = D /\ interruptedExits' = X /\ current' = cb /\ chain' = chain
        /\ proc[p].role = "warm" /\ Lives(proc[p])
        /\ \/ Idle(p) /\ proc' = pr /\ UNCHANGED turn
           \/ /\ ~Idle(p)
              /\ turn' = [turn EXCEPT ![t] = Resolved] \/ turn' = [turn EXCEPT ![t] = Rejected]
              /\ proc' = pr
           \/ ~Idle(p) /\ ~turn[t].kill /\ FallBack(t, turn[t], pr)
    BY <1>2 DEF WarmExit, Alive, Lives, RetriedCold
  <2>2. cb[p] = None
    BY DEF TypeOK
\* The exit, once the turns are tn.
  <2>3. ASSUME NEW tn \in [Turns -> TurnState],
               Posts(tn, proc, entries, dying, interruptedExits, cb, chain)
        PROVE  Posts(tn, pr, E, D, X, cb, chain)
    <3>1. \A u \in Turns : SeatOf(u, tn[u], proc, chain)
      BY <2>3, PostsType
    <3>2. \A u \in Turns : ~(tn[u].phase = "cold" /\ tn[u].entry = p)
      BY <1>1, <2>1, <3>1 DEF SeatOf
    <3> HIDE DEF cb
    <3> QED BY <2>2, <2>3, <3>2, PostsGone
  <2>4. CASE Idle(p) /\ proc' = pr /\ UNCHANGED turn
    <3>1. cb = current
      BY <2>4 DEF Idle, TypeOK
    <3>2. Posts(turn, proc, entries, dying, interruptedExits, cb, chain)
      BY <3>1 DEF InPlace
    <3>3. Posts(turn, pr, E, D, X, cb, chain)
      BY <2>3, <3>2 DEF TypeOK
    <3> QED BY <2>1, <2>4, <3>3 DEF InPlace
  <2>5. ASSUME ~Idle(p)
        PROVE  /\ t \in Turns /\ turn[t].phase = "running" /\ turn[t].entry = p
               /\ turn[t] \in TurnState
    BY <1>1, <2>5 DEF WireOf, Idle, TypeOK
  <2>6. ASSUME ~Idle(p), NEW x \in TurnState, ~IsOpen(x), x.timer = "none"
        PROVE  Posts([turn EXCEPT ![t] = x], pr, E, D, X, cb, chain)
    <3>1. Posts([turn EXCEPT ![t] = x], proc, entries, dying, interruptedExits, cb, chain)
      <4>1. t \in Turns /\ turn[t].phase = "running" /\ turn[t].entry = p
        BY <2>5, <2>6
      <4> HIDE DEF t
      <4>2. Posts(turn, proc, entries, dying, interruptedExits, current, chain)
        BY DEF InPlace
      <4> QED BY <2>6, <4>1, <4>2, PostsSettle
    <3>2. [turn EXCEPT ![t] = x] \in [Turns -> TurnState]
      BY <2>6 DEF TypeOK
    <3> HIDE DEF t, pr, E, D, X, cb
    <3> QED BY <2>3, <3>1, <3>2
  <2>7. CASE /\ ~Idle(p)
             /\ turn' = [turn EXCEPT ![t] = Resolved] \/ turn' = [turn EXCEPT ![t] = Rejected]
             /\ proc' = pr
    <3> HIDE DEF t, pr, E, D, X, cb
    <3>1. /\ Posts([turn EXCEPT ![t] = Resolved], pr, E, D, X, cb, chain)
          /\ Posts([turn EXCEPT ![t] = Rejected], pr, E, D, X, cb, chain)
      BY <2>6, <2>7, EndedRecords
    <3> QED BY <2>1, <2>7, <3>1 DEF InPlace
  <2>8. CASE ~Idle(p) /\ ~turn[t].kill /\ FallBack(t, turn[t], pr)
    <3>1. t \in Turns /\ turn[t].phase = "running" /\ turn[t].entry = p /\ turn[t] \in TurnState
      BY <2>5, <2>8
    <3>2. /\ \A q \in Pids : q # p => pr[q] = proc[q]
          /\ pr[p].st = "free" /\ \A q \in X : q \in Pids /\ q # p /\ q \in interruptedExits
          /\ \A q \in E : q \in Pids /\ q # p /\ q \in entries
      BY DEF NoProc, TypeOK
    <3>3. t = current[p]
      OBVIOUS
    <3> HIDE DEF t, pr, E, D, X, cb
    <3>4. Posts([turn EXCEPT ![t] = NoTurn], pr, E, D, X, cb, chain)
      BY <2>6, <2>8, EndedRecords
    <3>5. IsOpen(turn[t]) /\ SeatOf(t, turn[t], proc, chain)
      BY <3>1, PostsType DEF IsOpen, InPlace
    <3>6. Alone(t, turn[t].thread, turn) /\ turn[t].thread \in Threads
      BY <3>1, <3>5, OwnThread
    <3>7. turn[t].timer = "none"
      BY <2>8, <3>5 DEF SeatOf
    <3>8. FreeIn(pr)
      BY <3>2 DEF FreeIn
    <3>9. ASSUME SerialThreads, NEW q \in E PROVE pr[q].thread # turn[t].thread
      <4>1. Claims(turn, proc, entries, interruptedExits)
        BY <3>9 DEF InPlace, Posts
      <4> QED BY <3>1, <3>2, <3>5, <4>1 DEF Claims, Answers
    <3>10. NoTurn.phase = "none" /\ NoTurn \in TurnState
      BY EndedRecords DEF NoTurn
    <3>11. \A q \in X : q \in interruptedExits /\ pr[q].thread = proc[q].thread
      BY <3>2
    <3>12. Posts(turn', proc', E, D, X, cb, chain)
      BY <2>8, <3>1, <3>4, <3>6, <3>7, <3>8, <3>9, <3>10, <3>11, FallBackPosts
    <3> QED BY <2>1, <3>12 DEF InPlace
  <2> QED BY <2>1, <2>4, <2>7, <2>8
<1>3. CASE ColdExit(p)
  <2>1. /\ proc[p].role = "cold" /\ Lives(proc[p]) /\ proc' = [proc EXCEPT ![p] = NoProc]
        /\ turn' = [t \in Turns |-> IF turn[t].phase = "cold" /\ turn[t].entry = p
                                    THEN [turn[t] EXCEPT !.entry = None] ELSE turn[t]]
        /\ UNCHANGED <<entries, dying, interruptedExits, current, chain>>
    BY <1>3 DEF ColdExit, Alive, Lives
  <2>2. current[p] = None
    BY <1>1, <2>1 DEF WireOf
  <2>3. p \notin entries /\ p \notin dying /\ p \notin interruptedExits
    BY <1>1, <2>1 DEF CensusOf
  <2>4. entries \ {p} = entries /\ dying \ {p} = dying /\ interruptedExits \ {p} = interruptedExits
    BY <2>3
  <2> DEFINE un == [t \in Turns |-> IF turn[t].phase = "cold" /\ turn[t].entry = p
                                   THEN [turn[t] EXCEPT !.entry = None] ELSE turn[t]]
  <2>5. /\ \A t \in Turns : IF turn[t].phase = "cold" /\ turn[t].entry = p
                           THEN un[t] = [turn[t] EXCEPT !.entry = None] ELSE un[t] = turn[t]
    OBVIOUS
  <2>6. un \in [Turns -> TurnState]
    <3>1. ASSUME NEW t \in Turns PROVE turn[t] \in TurnState /\ [turn[t] EXCEPT !.entry = None] \in TurnState
      BY DEF TypeOK, TurnState
    <3> QED BY <3>1
  <2> HIDE DEF un
  <2>7. Posts(un, [proc EXCEPT ![p] = NoProc], entries \ {p}, dying \ {p}, interruptedExits \ {p}, current, chain)
    BY <2>2, <2>5, <2>6, PostsGone DEF InPlace
  <2> QED BY <2>1, <2>4, <2>7 DEF InPlace, un
<1> QED BY <1>2, <1>3

LEMMA EndPosts ==
  ASSUME TypeOK, InPlace,
         (\E t \in Turns : ColdDone(t)) \/ ShutdownBegin \/ ShutdownDestroy
  PROVE  InPlace'
<1>0. \A t \in Turns : turn[t] \in TurnState /\ SeatOf(t, turn[t], proc, chain)
  BY PostsType DEF InPlace
<1>1. ASSUME NEW t \in Turns, ColdDone(t) PROVE InPlace'
  <2>1. /\ turn' = [turn EXCEPT ![t] = Resolved] \/ turn' = [turn EXCEPT ![t] = Rejected]
        /\ turn[t].phase = "cold"
        /\ UNCHANGED <<proc, entries, dying, interruptedExits, current, chain>>
    BY <1>1 DEF ColdDone
  <2>2. /\ Posts([turn EXCEPT ![t] = Resolved], proc, entries, dying, interruptedExits, current, chain)
        /\ Posts([turn EXCEPT ![t] = Rejected], proc, entries, dying, interruptedExits, current, chain)
    BY <2>1, EndedRecords, NotePosts DEF Notes
  <2> QED BY <2>1, <2>2 DEF InPlace
<1>2. CASE ShutdownBegin
  <2> DEFINE un == [t \in Turns |->
                      CASE turn[t].phase = "waiting" -> Rejected
                        [] turn[t].phase = "cold"    -> [turn[t] EXCEPT !.kill = TRUE]
                        [] OTHER                     -> turn[t]]
             R  == {turn[t].entry : t \in {u \in Turns : turn[u].phase = "cold" /\ ~turn[u].kill}}
  <2>1. /\ turn' = un /\ proc' = Termed(proc, R)
        /\ UNCHANGED <<entries, dying, interruptedExits, current, chain>>
    BY <1>2 DEF ShutdownBegin
  <2>2. ASSUME NEW t \in Turns
        PROVE  un[t] \in TurnState /\ Notes(turn[t], un[t])
    <3>1. CASE turn[t].phase = "waiting"
      BY <3>1, EndedRecords DEF Notes
    <3>2. CASE turn[t].phase = "cold"
      <4> DEFINE x == [turn[t] EXCEPT !.kill = TRUE]
      <4>1. un[t] = x
        BY <3>2
      <4>2. x \in TurnState /\ x.phase = turn[t].phase /\ x.entry = turn[t].entry
            /\ x.thread = turn[t].thread /\ x.kill
        BY <1>0 DEF TurnState
      <4> HIDE DEF x, un
      <4> QED BY <4>1, <4>2 DEF Notes
    <3>3. CASE turn[t].phase # "waiting" /\ turn[t].phase # "cold"
      <4>1. un[t] = turn[t]
        BY <3>3
      <4> HIDE DEF un
      <4> QED BY <1>0, <4>1 DEF Notes, SeatOf
    <3> QED BY <3>1, <3>2, <3>3
  <2>3. un \in [Turns -> TurnState]
    BY <2>2
  <2>4. \A q \in Pids : q \in R => Lives(proc[q]) /\ q \notin entries
    <3> SUFFICES ASSUME NEW t \in Turns, turn[t].phase = "cold", turn[t].entry \in Pids
                 PROVE  Lives(proc[turn[t].entry]) /\ turn[t].entry \notin entries
      OBVIOUS
    <3>1. Lives(proc[turn[t].entry]) /\ proc[turn[t].entry].role = "cold"
      BY <1>0, ClaudePoolAssumption DEF SeatOf
    <3> QED BY <3>1, PostsType DEF InPlace, CensusOf
  <2> HIDE DEF un, R
  <2>5. entries \ R = entries /\ dying \cup (entries \cap R) = dying
    BY <2>4 DEF TypeOK
  <2>6. Posts(un, proc, entries, dying, interruptedExits, current, chain)
    BY <2>2, <2>3, PostsNote DEF InPlace
  <2>7. Posts(un, Termed(proc, R), entries \ R, dying \cup (entries \cap R), interruptedExits, current, chain)
    BY <2>4, <2>6, PostsRetire
  <2> QED BY <2>1, <2>5, <2>7 DEF InPlace
<1>3. CASE ShutdownDestroy
  <2> DEFINE un == [t \in Turns |-> IF \E p \in entries : current[p] = t
                                   THEN [turn[t] EXCEPT !.kill = TRUE] ELSE turn[t]]
  <2>1. /\ turn' = un /\ proc' = Termed(proc, entries)
        /\ entries' = entries \ entries /\ dying' = dying \cup entries
        /\ UNCHANGED <<interruptedExits, current, chain>>
    BY <1>3 DEF ShutdownDestroy, DrainedEntries
  <2>2. ASSUME NEW t \in Turns
        PROVE  un[t] \in TurnState /\ Notes(turn[t], un[t])
    <3> DEFINE x == [turn[t] EXCEPT !.kill = TRUE]
    <3>1. un[t] \in {turn[t], x}
      OBVIOUS
    <3>2. x \in TurnState /\ x.phase = turn[t].phase /\ x.entry = turn[t].entry
          /\ x.thread = turn[t].thread /\ x.kill
      BY <1>0 DEF TurnState
    <3> HIDE DEF x, un
    <3> QED BY <1>0, <3>1, <3>2 DEF Notes, SeatOf
  <2>3. un \in [Turns -> TurnState]
    BY <2>2
  <2> HIDE DEF un
  <2>4. \A q \in Pids : q \in entries => Lives(proc[q])
    BY PostsType DEF InPlace, CensusOf
  <2>5. dying \cup (entries \cap entries) = dying \cup entries
    OBVIOUS
  <2>6. Posts(un, proc, entries, dying, interruptedExits, current, chain)
    BY <2>2, <2>3, PostsNote DEF InPlace
  <2>7. Posts(un, Termed(proc, entries), entries \ entries, dying \cup (entries \cap entries),
              interruptedExits, current, chain)
    BY <2>4, <2>6, PostsRetire
  <2> QED BY <2>1, <2>5, <2>7 DEF InPlace
<1> QED BY <1>1, <1>2, <1>3

LEMMA InitPosts == Init => InPlace
<1> SUFFICES ASSUME Init PROVE InPlace
  OBVIOUS
<1>1. Typed(turn, proc, entries, dying, interruptedExits, current, chain)
  <2>1. <<>> \in Seq(Turns)
    OBVIOUS
  <2> QED BY <2>1, NoTurnType, NoProcType DEF Init, Typed
<1>2. /\ \A t \in Turns : turn[t].phase = "none" /\ turn[t].timer = "none" /\ ~IsOpen(turn[t])
      /\ \A p \in Pids : /\ ~Lives(proc[p]) /\ ~proc[p].blank /\ current[p] = None
                         /\ p \notin entries /\ p \notin dying /\ p \notin interruptedExits
  BY DEF Init, NoTurn, NoProc, IsOpen, Lives
<1>3. Wires(turn, proc, current, chain) /\ Census(proc, entries, dying, interruptedExits)
      /\ Blanks(proc, chain) /\ Seats(turn, proc, chain)
  BY <1>2 DEF Wires, WireOf, Census, CensusOf, Blanks, BlankOf, Seats, SeatOf
<1>4. /\ OneTurn(turn) /\ Claims(turn, proc, entries, interruptedExits)
      /\ Apart(proc, entries, interruptedExits)
  BY <1>2 DEF OneTurn, Claims, Apart, Answers
<1> QED BY <1>1, <1>3, <1>4 DEF InPlace, Posts

LEMMA NextPosts == IInv /\ InPlace /\ [Next]_vars => InPlace'
<1> SUFFICES ASSUME IInv, InPlace, [Next]_vars PROVE InPlace'
  OBVIOUS
<1>1. TypeOK /\ TurnInv
  BY DEF IInv
<1>2. CASE UNCHANGED vars
  BY <1>2 DEF InPlace, vars
<1>3. CASE \/ \E t \in Turns : Run(t) \/ ResumeWaiter(t)
           \/ \E p \in Pids : RunLink(p) \/ PopLink(p)
  BY <1>1, <1>3, PlacementPosts
<1>4. CASE Prewarm \/ Replenish \/ RespawnTimer \/ IdleSweep
  BY <1>1, <1>4, StandbyPosts
<1>5. CASE \E t \in Turns : Interrupt(t) \/ Escalate(t) \/ Finalize(t)
  BY <1>1, <1>5, StopPosts
<1>6. CASE \E p \in Pids : \/ ContentLine(p) \/ TasksChanged(p) \/ WakeupScheduled(p)
                         \/ KeepaliveExpires(p) \/ ColdResult(p)
  BY <1>1, <1>6, LinePosts
<1>7. CASE \E p \in Pids : UserResult(p) \/ FollowUpResult(p) \/ WakeupResult(p)
  BY <1>1, <1>7, ResultPosts
<1>8. CASE \E p \in Pids : WarmExit(p) \/ ColdExit(p)
  BY <1>1, <1>8, ExitPosts
<1>9. CASE (\E t \in Turns : ColdDone(t)) \/ ShutdownBegin \/ ShutdownDestroy
  BY <1>1, <1>9, EndPosts
<1>10. CASE BeginPidWrite \/ EndPidWrite
  BY <1>10 DEF BeginPidWrite, EndPidWrite, InPlace
<1> QED BY <1>2, <1>3, <1>4, <1>5, <1>6, <1>7, <1>8, <1>9, <1>10 DEF Next

LEMMA PostsInvariant == Spec => []InPlace
<1>1. Init => InPlace
  BY InitPosts
<1>2. IInv /\ InPlace /\ [Next]_vars => InPlace'
  BY NextPosts
<1> QED BY <1>1, <1>2, Invariant, PTL DEF Spec

\* Two turns never share a wire: a child's turn in flight runs there and is at
\* the head of its chain, whatever is interrupted, retired or dies meanwhile.
THEOREM OneTurnPerWire == Spec => []WireExclusive
<1>1. InPlace => WireExclusive
  <2> SUFFICES ASSUME InPlace PROVE WireExclusive
    OBVIOUS
  <2>1. ASSUME NEW p \in Pids, ~Idle(p)
        PROVE  /\ turn[current[p]].phase = "running" /\ turn[current[p]].entry = p
               /\ chain[p] # <<>> /\ Head(chain[p]) = current[p] /\ Alive(p)
    <3>1. WireOf(p, turn, proc, current, chain)
      BY PostsType DEF InPlace
    <3> QED BY <2>1, <3>1 DEF WireOf, Idle, Alive, Lives
  <2>2. \A t \in Turns : turn[t].phase = "running" => current[turn[t].entry] = t
    BY PostsType DEF InPlace
  <2> QED BY <2>1, <2>2 DEF WireExclusive
<1> QED BY <1>1, PostsInvariant, PTL

\* A thread has one writer, and one child that answers for it, when the bridge
\* runs one turn of a thread at a time.
THEOREM OneWriterHolds == Spec => []OneWriter
<1>1. InPlace => OneWriter
  <2> SUFFICES ASSUME InPlace, SerialThreads PROVE OneWriter
    BY DEF OneWriter
  <2>1. /\ Claims(turn, proc, entries, interruptedExits) /\ Apart(proc, entries, interruptedExits)
        /\ entries \subseteq Pids /\ None \notin Threads
    BY PostsType, ClaudePoolAssumption DEF InPlace, Posts
  <2>2. \A p \in Pids : /\ CensusOf(p, proc[p], entries, dying, interruptedExits)
                        /\ WireOf(p, turn, proc, current, chain)
    BY PostsType DEF InPlace
\* A child at work is its turn's, and the turn's thread is its own.
  <2>3. ASSUME NEW q \in Pids, ~Idle(q)
        PROVE  /\ current[q] \in Turns /\ IsOpen(turn[current[q]])
               /\ turn[current[q]].phase = "running" /\ turn[current[q]].entry = q
               /\ proc[q].thread = turn[current[q]].thread
    <3>1. /\ current[q] \in Turns /\ turn[current[q]].phase = "running"
          /\ turn[current[q]].entry = q /\ Lives(proc[q])
      BY <2>2, <2>3 DEF WireOf, Idle
    <3>2. SeatOf(current[q], turn[current[q]], proc, chain)
      BY <3>1, PostsType DEF InPlace
    <3> QED BY <3>1, <3>2 DEF SeatOf, IsOpen
  <2>4. ASSUME NEW p \in Pids, Alive(p), p \in interruptedExits \/ proc[p].role = "cold",
               NEW q \in WritersOf(proc[p].thread)
        PROVE  q = p
    <3>1. q \in Pids /\ proc[q].thread = proc[p].thread
      BY <2>4 DEF WritersOf, ColdWritersOf
    <3>2. CASE ~Idle(q)
      BY <2>1, <2>3, <2>4, <3>1, <3>2 DEF Claims, Answers, Alive, Lives
    <3>3. CASE Idle(q)
      <4>1. q \in ColdWritersOf(proc, proc[p].thread)
        BY <2>4, <3>3 DEF WritersOf
      <4>2. /\ Answers(proc, entries, q) /\ (proc[p].role = "cold" => Answers(proc, entries, p))
            /\ proc[q].thread # None
        BY <2>2, <2>4, <3>1, <4>1 DEF ColdWritersOf, Answers, Lives, Alive, CensusOf
      <4> QED BY <2>1, <2>4, <3>1, <4>2 DEF Apart
    <3> QED BY <3>2, <3>3
  <2>5. ASSUME NEW th \in Threads
        PROVE  Cardinality({p \in entries : proc[p].thread = th} \cup ColdWritersOf(proc, th)) <= 1
    <3> DEFINE S == {p \in entries : proc[p].thread = th} \cup ColdWritersOf(proc, th)
    <3>1. \A p \in S : p \in Pids /\ Answers(proc, entries, p) /\ proc[p].thread = th
      BY <2>1 DEF ColdWritersOf, Answers, Lives
    <3> HIDE DEF S
    <3>2. \A p, q \in S : p = q
      BY <2>1, <3>1 DEF Apart
    <3>3. CASE S = {}
      BY <3>3, FS_EmptySet DEF S
    <3>4. CASE S # {}
      <4>1. PICK p \in S : TRUE
        BY <3>4
      <4>2. S = {p}
        BY <3>2, <4>1
      <4>3. Cardinality(S) = 1
        BY <4>2, FS_Singleton
      <4> QED BY <4>3 DEF S
    <3> QED BY <3>3, <3>4
  <2>6. ASSUME NEW p \in Pids, Alive(p), p \in interruptedExits \/ proc[p].role = "cold"
        PROVE  WritersOf(proc[p].thread) \subseteq {p}
    BY <2>4, <2>6
  <2> QED BY <2>5, <2>6 DEF OneWriter
<1> QED BY <1>1, PostsInvariant, PTL

-----------------------------------------------------------------------------
(* The list of pids on disk.                                               *)

\* A step that spawns or loses a warm child queues a write; any other leaves
\* the warm children and the list as they are.
Booked ==
  \/ entries' \cup dying' = entries \cup dying /\ disk' = disk
  \/ disk' = PidWrite(disk)

LEMMA BookedInv ==
  ASSUME TypeOK, PidBook, Booked
  PROVE  PidBook'
<1>1. CASE entries' \cup dying' = entries \cup dying /\ disk' = disk
  BY <1>1 DEF PidBook
<1>2. CASE disk' = PidWrite(disk)
  <2>1. PidListFile => disk'.queued
    BY <1>2 DEF PidWrite, TypeOK, PidList
  <2> QED BY <2>1 DEF PidBook
<1> QED BY <1>1, <1>2 DEF Booked

LEMMA PlaceBooked ==
  ASSUME NEW t, NEW o, Place(t, o) \/ Admit(t, o)
  PROVE  Booked
<1>1. ASSUME Place(t, o) PROVE Booked
  <2> DEFINE dropped == (IF RefreshStandby(o) THEN StaleBlanks(o) ELSE {})
                          \cup Superseded(o) \cup Reseeded(o)
  <2>1. (entries \ dropped) \cup (dying \cup dropped) = entries \cup dying
    BY DEF StaleBlanks, Superseded, Reseeded
  <2> HIDE DEF dropped
  <2>2. \/ entries' = entries \ dropped /\ dying' = dying \cup dropped /\ disk' = disk
        \/ disk' = PidWrite(disk)
    BY <1>1 DEF Place, dropped
  <2> QED BY <2>1, <2>2 DEF Booked
<1>2. CASE Admit(t, o)
  BY <1>1, <1>2 DEF Admit, Booked
<1> QED BY <1>1, <1>2

LEMMA TakeResultBooked ==
  ASSUME NEW p, NEW pr, NEW ok, NEW more, TakeResult(p, pr, ok, more), UNCHANGED disk
  PROVE  Booked
BY DEF TakeResult, Booked

LEMMA NextBooked ==
  ASSUME TypeOK, InPlace, Next
  PROVE  Booked \/ BeginPidWrite \/ EndPidWrite
<1>1. ASSUME NEW t \in Turns, Run(t) \/ ResumeWaiter(t) PROVE Booked
  <2>1. CASE \E o : Admit(t, o)
    BY <2>1, PlaceBooked
  <2>2. CASE UNCHANGED <<entries, dying, disk>>
    BY <2>2 DEF Booked
  <2> QED BY <1>1, <2>1, <2>2 DEF Run, ResumeWaiter
<1>2. ASSUME NEW t \in Turns, Interrupt(t) \/ Escalate(t) PROVE Booked
  <2> DEFINE p == turn[t].entry
  <2>1. CASE UNCHANGED <<entries, dying, disk>>
    BY <2>1 DEF Booked
  <2>2. CASE /\ turn[t].phase = "running"
             /\ entries' = entries \ {p} /\ dying' = dying \cup {p} /\ UNCHANGED disk
    <3>1. p \in Pids /\ current[p] = t
      BY <2>2, PostsType DEF InPlace
    <3>2. WireOf(p, turn, proc, current, chain) /\ CensusOf(p, proc[p], entries, dying, interruptedExits)
      BY <3>1, PostsType DEF InPlace
    <3>3. p \in entries \cup dying
      BY <3>1, <3>2, ClaudePoolAssumption DEF WireOf, CensusOf
    <3> HIDE DEF p
    <3> QED BY <2>2, <3>3 DEF Booked
  <2>3. turn[t].phase = [turn[t] EXCEPT !.kill = TRUE].phase
    BY DEF TypeOK, TurnState
  <2> QED BY <1>2, <2>1, <2>2, <2>3 DEF Interrupt, Escalate
<1>3. ASSUME NEW t \in Turns, Finalize(t) \/ ColdDone(t) PROVE Booked
  BY <1>3 DEF Finalize, ColdDone, Booked
<1>4. ASSUME NEW p \in Pids,
             \/ RunLink(p) \/ PopLink(p) \/ ContentLine(p) \/ TasksChanged(p)
             \/ WakeupScheduled(p) \/ KeepaliveExpires(p) \/ ColdResult(p) \/ ColdExit(p)
      PROVE  Booked
  BY <1>4 DEF RunLink, PopLink, ContentLine, TasksChanged, WakeupScheduled, KeepaliveExpires,
              ColdResult, ColdExit, Booked
<1>5. ASSUME NEW p \in Pids, UserResult(p) \/ FollowUpResult(p) \/ WakeupResult(p) PROVE Booked
  <2>1. CASE \E pr, ok, more : TakeResult(p, pr, ok, more) /\ UNCHANGED disk
    BY <2>1, TakeResultBooked
  <2>2. CASE UNCHANGED <<entries, dying, disk>>
    BY <2>2 DEF Booked
  <2>3. UNCHANGED disk
    BY <1>5 DEF UserResult, FollowUpResult, WakeupResult
  <2>4. (\E pr, ok, more : TakeResult(p, pr, ok, more)) \/ UNCHANGED <<entries, dying>>
    <3>1. CASE UserResult(p)
      BY <3>1 DEF UserResult, IgnoreResult
    <3>2. CASE FollowUpResult(p)
      BY <3>2 DEF FollowUpResult, IgnoreResult
    <3>3. CASE WakeupResult(p)
      BY <3>3 DEF WakeupResult, IgnoreResult
    <3> QED BY <1>5, <3>1, <3>2, <3>3
  <2> QED BY <2>1, <2>2, <2>3, <2>4
<1>6. ASSUME NEW p \in Pids, WarmExit(p) PROVE Booked
  BY <1>6 DEF WarmExit, Booked
<1>7. CASE Prewarm \/ Replenish \/ RespawnTimer
  BY <1>7 DEF Prewarm, Replenish, RespawnTimer, MaybeSpawnBlank, Booked
<1>8. CASE IdleSweep
  <2>1. PICK R \in SUBSET entries :
          /\ dying' = dying \cup R
          /\ (entries' = entries \ R /\ disk' = disk) \/ disk' = PidWrite(disk)
    BY <1>8 DEF IdleSweep, MaybeSpawnBlank
  <2>2. (entries \ R) \cup (dying \cup R) = entries \cup dying
    OBVIOUS
  <2> QED BY <2>1, <2>2 DEF Booked
<1>9. CASE ShutdownBegin \/ ShutdownDestroy
  BY <1>9 DEF ShutdownBegin, ShutdownDestroy, DrainedEntries, Booked
<1> QED BY <1>1, <1>2, <1>3, <1>4, <1>5, <1>6, <1>7, <1>8, <1>9 DEF Next

\* Once no write is queued or in flight, the list on disk names exactly the
\* warm children the OS still runs, however spawns, retirements, exits and
\* the writes themselves interleave.
THEOREM PidListIsExact == Spec => []PidListExact
<1>1. Init => PidBook
  BY DEF Init, PidBook
<1>2. IInv /\ InPlace /\ PidBook /\ [Next]_vars => PidBook'
  <2> SUFFICES ASSUME IInv, InPlace, PidBook, [Next]_vars PROVE PidBook'
    OBVIOUS
  <2>1. TypeOK /\ disk \in PidList
    BY DEF IInv, TypeOK
  <2>2. CASE Booked
    BY <2>1, <2>2, BookedInv
  <2>3. CASE BeginPidWrite
    <3>1. disk' = [disk EXCEPT !.queued = FALSE, !.writing = TRUE, !.snap = entries \cup dying]
      BY <2>3 DEF BeginPidWrite, PidSnapshot
    <3>2. disk'.writing /\ disk'.snap = entries \cup dying
      BY <2>1, <3>1 DEF PidList
    <3> QED BY <2>3, <3>2 DEF PidBook, BeginPidWrite
  <2>4. CASE EndPidWrite
    <3>1. /\ disk.writing
          /\ \/ disk' = [disk EXCEPT !.writing = FALSE, !.list = disk.snap, !.snap = {}, !.lost = FALSE]
             \/ disk' = [disk EXCEPT !.writing = FALSE, !.snap = {}, !.lost = TRUE]
      BY <2>4 DEF EndPidWrite
    <3>2. /\ ~disk'.writing /\ disk'.queued = disk.queued
          /\ disk'.lost \/ disk'.list = disk.snap
      BY <2>1, <3>1 DEF PidList
    <3> QED BY <2>4, <3>1, <3>2 DEF PidBook, EndPidWrite
  <2>5. CASE UNCHANGED vars
    BY <2>5 DEF PidBook, vars
  <2> QED BY <2>1, <2>2, <2>3, <2>4, <2>5, NextBooked
<1>3. InPlace /\ PidBook => PidListExact
  <2> SUFFICES ASSUME InPlace, PidBook PROVE PidListExact
    OBVIOUS
  <2>1. entries \subseteq Pids /\ dying \subseteq Pids
        /\ \A p \in Pids : CensusOf(p, proc[p], entries, dying, interruptedExits)
    BY PostsType DEF InPlace
  <2>2. entries \cup dying = {p \in Pids : Alive(p) /\ proc[p].role = "warm"}
    BY <2>1 DEF CensusOf, Alive, Lives
  <2> QED BY <2>2 DEF PidListExact, PidBook
<1> QED BY <1>1, <1>2, <1>3, Invariant, PostsInvariant, PTL DEF Spec

-----------------------------------------------------------------------------
(* What may be torn down.                                                  *)

Spared(p) == TornDown(p) /\ shutdown' = "no" =>
  /\ ~Idle(p) => turn[current[p]].kill \/ current'[p] = None
  /\ Idle(p) /\ HoldsBackgroundWork(p) =>
       \E t \in Turns : turn'[t] # turn[t] /\ turn'[t].thread = proc[p].thread

LEMMA FallBackKeeps ==
  ASSUME TypeOK, NEW t, NEW o, NEW pr, pr \in [Pids -> PoolEntry], FallBack(t, o, pr), NEW p \in Pids
  PROVE  proc'[p] = pr[p] \/ proc'[p].st = "up"
BY DEF FallBack, NoProc

LEMMA MaybeSpawnBlankKeeps ==
  ASSUME NEW pr, pr \in [Pids -> PoolEntry], NEW E, NEW pw, NEW d,
         MaybeSpawnBlank(pr, E, pw, d), NEW p \in Pids
  PROVE  proc'[p] = pr[p] \/ proc'[p].st = "up"
BY DEF MaybeSpawnBlank, NoProc

\* A turn is placed: the thread's own children may go, busy ones only if turns
\* of a thread may overlap; of the others only idle ones without live work.
LEMMA PlaceSpares ==
  ASSUME TypeOK, InPlace, SerialThreads, NEW t \in Turns, NEW o \in TurnState,
         turn[t].phase \in {"none", "waiting"}, ~o.kill, o.thread \in Threads,
         Alone(t, o.thread, turn), shutdown = "no",
         ColdWritersOf(proc, o.thread) = {}, ExitsPending(o.thread) = {}, Place(t, o),
         NEW p \in Pids
  PROVE  Spared(p)
<1> DEFINE dropped == (IF RefreshStandby(o) THEN StaleBlanks(o) ELSE {})
                        \cup Superseded(o) \cup Reseeded(o)
           kept    == entries \ dropped
<1> SUFFICES ASSUME TornDown(p)
             PROVE  Idle(p) /\ (HoldsBackgroundWork(p) =>
                      \E u \in Turns : turn'[u] # turn[u] /\ turn'[u].thread = proc[p].thread)
  BY DEF Spared
<1>1. /\ proc \in [Pids -> PoolEntry] /\ WireOf(p, turn, proc, current, chain)
      /\ BlankOf(proc[p], chain[p]) /\ proc[p].st = "up" /\ proc'[p].st = "term"
  BY PostsType DEF InPlace, TornDown
\* The turn that is placed has a new record, of its thread.
<1>2. turn'[t] # turn[t] /\ turn'[t].thread = o.thread
  <2>1. turn \in [Turns -> TurnState]
    BY DEF TypeOK
  <2>2. ASSUME NEW q, Queue(t, o, q) PROVE turn'[t] # turn[t] /\ turn'[t].thread = o.thread
    <3>1. turn'[t] = [o EXCEPT !.phase = "queued", !.entry = q]
      BY <2>1, <2>2 DEF Queue
    <3>2. turn'[t].phase = "queued" /\ turn'[t].thread = o.thread
      BY <3>1 DEF TurnState
    <3> QED BY <3>2
  <2>3. ASSUME NEW pr, FallBack(t, o, pr), ColdWritersOf(pr, o.thread) = {}
        PROVE  turn'[t] # turn[t] /\ turn'[t].thread = o.thread
    <3>1. PICK c \in Pids : turn' = [turn EXCEPT ![t] = [o EXCEPT !.phase = "cold", !.entry = c]]
      BY <2>3 DEF FallBack
    <3>2. turn'[t].phase = "cold" /\ turn'[t].thread = o.thread
      BY <2>1, <3>1 DEF TurnState
    <3> QED BY <3>2
  <2>4. ColdWritersOf(Termed(proc, dropped), o.thread) = {}
    <3> HIDE DEF dropped
    <3>1. \A q \in Pids : /\ Termed(proc, dropped)[q].role = proc[q].role
                          /\ Termed(proc, dropped)[q].thread = proc[q].thread
                          /\ q \notin dropped => Termed(proc, dropped)[q] = proc[q]
      BY <1>1, TermedSame
    <3>2. \A q \in Pids : q \in dropped => proc[q].role = "warm"
      <4>1. dropped \subseteq entries
        BY DEF dropped, StaleBlanks, Superseded, Reseeded
      <4> QED BY <4>1, PostsType DEF InPlace, CensusOf
    <3> QED BY <3>1, <3>2 DEF ColdWritersOf
  <2> HIDE DEF dropped
  <2>5. (\E q : Queue(t, o, q)) \/ FallBack(t, o, Termed(proc, dropped))
    BY DEF Place, dropped
  <2> QED BY <2>2, <2>3, <2>4, <2>5
\* Which children go.
<1>3. p \in dropped \cup Victims(kept)
  <2>1. ASSUME NEW R, p \notin R PROVE Termed(proc, R)[p] = proc[p]
    BY <2>1 DEF Termed
  <2>2. ASSUME NEW R PROVE Termed(proc, R) \in [Pids -> PoolEntry]
    BY <1>1, TermedType
  <2> HIDE DEF dropped, kept
  <2>3. CASE proc' = Termed(proc, dropped)
    BY <1>1, <2>1, <2>3
  <2>4. CASE \E q \in Pids :
               proc' = [Termed(proc, dropped) EXCEPT ![q].blank = FALSE, ![q].thread = o.thread]
    <3>1. PICK q \in Pids :
               proc' = [Termed(proc, dropped) EXCEPT ![q].blank = FALSE, ![q].thread = o.thread]
      BY <2>4
    <3>2. proc'[p].st = Termed(proc, dropped)[p].st
      BY <2>2, <3>1 DEF PoolEntry
    <3> QED BY <1>1, <2>1, <3>2
  <2>5. CASE \E victims \in SUBSET Victims(kept) :
             \E q \in Pids, restored \in SUBSET (Background \cap {"task"}) :
               proc' = [Termed(proc, dropped \cup victims) EXCEPT
                          ![q] = [NoProc EXCEPT !.st = "up", !.thread = o.thread, !.sig = o.sig,
                                    !.work = restored]]
    <3>1. PICK victims \in SUBSET Victims(kept), q \in Pids,
               restored \in SUBSET (Background \cap {"task"}) :
               proc' = [Termed(proc, dropped \cup victims) EXCEPT
                          ![q] = [NoProc EXCEPT !.st = "up", !.thread = o.thread, !.sig = o.sig,
                                    !.work = restored]]
      BY <2>5
    <3> DEFINE d == [NoProc EXCEPT !.st = "up", !.thread = o.thread, !.sig = o.sig,
                       !.work = restored]
    <3>2. d.st = "up" /\ proc' = [Termed(proc, dropped \cup victims) EXCEPT ![q] = d]
      BY <3>1 DEF NoProc
    <3> HIDE DEF d
    <3>3. proc'[p] = Termed(proc, dropped \cup victims)[p]
      BY <1>1, <2>2, <3>2
    <3> QED BY <1>1, <2>1, <3>3
  <2>6. CASE FallBack(t, o, Termed(proc, dropped))
    <3>1. proc'[p] = Termed(proc, dropped)[p]
      BY <1>1, <2>2, <2>6, FallBackKeeps
    <3> QED BY <1>1, <2>1, <3>1
  <2>7. kept \subseteq Pids
    BY DEF kept, TypeOK
  <2> QED BY <2>3, <2>4, <2>5, <2>6, <2>7 DEF Place, dropped, kept
<1>4. proc[p].thread = o.thread => Idle(p)
  <2> SUFFICES ASSUME proc[p].thread = o.thread, ~Idle(p) PROVE FALSE
    OBVIOUS
  <2>1. current[p] \in Turns /\ turn[current[p]].phase = "running" /\ turn[current[p]].entry = p
        /\ Lives(proc[p])
    BY <1>1 DEF WireOf, Idle
  <2>2. SeatOf(current[p], turn[current[p]], proc, chain)
    BY <2>1, PostsType DEF InPlace
  <2>3. turn[current[p]].thread = o.thread /\ IsOpen(turn[current[p]])
    BY <2>1, <2>2 DEF SeatOf, IsOpen
  <2> QED BY <2>1, <2>3 DEF Alone
<1>5. proc[p].blank => ~HoldsBackgroundWork(p)
  BY <1>1 DEF BlankOf, HoldsBackgroundWork, BackgroundPending
<1>6. CASE p \in dropped
  <2>1. \/ Idle(p) /\ ~HoldsBackgroundWork(p)
        \/ proc[p].thread = o.thread
    BY <1>5, <1>6 DEF StaleBlanks, Superseded, Reseeded
  <2> QED BY <1>2, <1>4, <2>1
<1>7. CASE p \in Victims(kept)
  BY <1>5, <1>7 DEF Victims
<1> QED BY <1>3, <1>6, <1>7

\* A child whose entry of the process table stays, or that comes up, is not
\* torn down.
LEMMA StaysSpared ==
  ASSUME NEW p, proc'[p] = proc[p] \/ proc'[p].st # "term"
  PROVE  Spared(p)
BY DEF Spared, TornDown

LEMMA PlacementSpares ==
  ASSUME TypeOK, TurnInv, InPlace, SerialThreads, NEW p \in Pids,
         \/ \E t \in Turns : Run(t) \/ ResumeWaiter(t)
         \/ \E q \in Pids : RunLink(q) \/ PopLink(q)
  PROVE  Spared(p)
<1>1. proc \in [Pids -> PoolEntry] /\ turn \in [Turns -> TurnState]
  BY DEF TypeOK
<1>2. ASSUME NEW t \in Turns, NEW o \in TurnState, turn[t].phase \in {"none", "waiting"}, ~o.kill,
             o.thread \in Threads, Alone(t, o.thread, turn), Admit(t, o)
      PROVE  Spared(p)
  <2>1. CASE UNCHANGED proc
    BY <2>1, StaysSpared
  <2>2. CASE /\ shutdown = "no" /\ ColdWritersOf(proc, o.thread) = {}
             /\ ExitsPending(o.thread) = {} /\ Place(t, o)
    BY <1>2, <2>2, PlaceSpares
  <2> QED BY <1>2, <2>1, <2>2 DEF Admit
<1>3. ASSUME NEW t \in Turns, Run(t) PROVE Spared(p)
  <2>1. PICK th \in Threads, sig \in Sigs, kind \in Kinds :
          /\ SerialThreads => \A u \in Turns : Open(u) => turn[u].thread # th
          /\ Admit(t, [NoTurn EXCEPT !.thread = th, !.sig = sig, !.kind = kind])
    BY <1>3 DEF Run
  <2> DEFINE o == [NoTurn EXCEPT !.thread = th, !.sig = sig, !.kind = kind]
  <2>2. o \in TurnState /\ ~o.kill /\ o.thread = th
    BY NoTurnType DEF TurnState, NoTurn
  <2>3. turn[t].phase = "none" /\ Admit(t, o)
    BY <1>3, <2>1 DEF Run
  <2>4. Alone(t, th, turn)
    BY <2>1 DEF Alone, IsOpen, Open, Settled
  <2> HIDE DEF o
  <2> QED BY <1>2, <2>2, <2>3, <2>4
<1>4. ASSUME NEW t \in Turns, ResumeWaiter(t) PROVE Spared(p)
  <2>1. turn[t].phase = "waiting" /\ turn[t] \in TurnState /\ IsOpen(turn[t]) /\ ~turn[t].kill
    BY <1>4 DEF ResumeWaiter, TypeOK, IsOpen, TurnInv, Shape
  <2>2. Alone(t, turn[t].thread, turn) /\ turn[t].thread \in Threads
    BY <2>1, OwnThread
  <2>3. CASE Admit(t, turn[t])
    BY <1>2, <2>1, <2>2, <2>3
  <2>4. CASE FallBack(t, turn[t], proc)
    <3>1. proc'[p] = proc[p] \/ proc'[p].st = "up"
      BY <1>1, <2>4, FallBackKeeps
    <3> QED BY <3>1, StaysSpared
  <2> QED BY <1>4, <2>3, <2>4 DEF ResumeWaiter
<1>5. ASSUME NEW q \in Pids, RunLink(q) PROVE Spared(p)
  <2>1. CASE FallBack(Head(chain[q]), turn[Head(chain[q])], proc)
    <3>1. proc'[p] = proc[p] \/ proc'[p].st = "up"
      BY <1>1, <2>1, FallBackKeeps
    <3> QED BY <3>1, StaysSpared
  <2>2. CASE proc' = [proc EXCEPT ![q].inbox = Append(@, Head(chain[q]))]
    <3>1. proc'[p].st = proc[p].st
      BY <1>1, <2>2 DEF PoolEntry
    <3> QED BY <3>1 DEF Spared, TornDown
  <2> QED BY <1>5, <2>1, <2>2 DEF RunLink
<1>6. ASSUME NEW q \in Pids, PopLink(q) PROVE Spared(p)
  BY <1>6, StaysSpared DEF PopLink
<1> QED BY <1>3, <1>4, <1>5, <1>6

LEMMA StandbySpares ==
  ASSUME TypeOK, InPlace, NEW p \in Pids, Prewarm \/ Replenish \/ RespawnTimer \/ IdleSweep
  PROVE  Spared(p)
<1>1. proc \in [Pids -> PoolEntry]
  BY DEF TypeOK
<1>2. ASSUME NEW E, NEW pw, MaybeSpawnBlank(proc, E, pw, disk) PROVE Spared(p)
  <2>1. proc'[p] = proc[p] \/ proc'[p].st = "up"
    BY <1>1, <1>2, MaybeSpawnBlankKeeps
  <2> QED BY <2>1, StaysSpared
<1>3. CASE Prewarm \/ Replenish \/ RespawnTimer
  BY <1>2, <1>3 DEF Prewarm, Replenish, RespawnTimer
<1>4. CASE IdleSweep
  <2>1. PICK R \in SUBSET {q \in entries : Idle(q) /\ (proc[q].blank \/ ~HoldsBackgroundWork(q))} :
          \/ MaybeSpawnBlank(Termed(proc, R), entries \ R, prewarm, disk)
          \/ proc' = Termed(proc, R)
    BY <1>4 DEF IdleSweep
  <2>2. Termed(proc, R) \in [Pids -> PoolEntry] /\ (p \notin R => Termed(proc, R)[p] = proc[p])
    BY <1>1, TermedType, TermedSame
  <2>3. proc'[p] = Termed(proc, R)[p] \/ proc'[p].st = "up"
    BY <2>1, <2>2, MaybeSpawnBlankKeeps
  <2>4. CASE p \notin R
    BY <2>2, <2>3, <2>4, StaysSpared
  <2>5. CASE p \in R
    <3>1. BlankOf(proc[p], chain[p])
      BY PostsType DEF InPlace
    <3>2. Idle(p) /\ ~HoldsBackgroundWork(p)
      BY <2>5, <3>1 DEF BlankOf, HoldsBackgroundWork, BackgroundPending
    <3> QED BY <3>2 DEF Spared
  <2> QED BY <2>4, <2>5
<1> QED BY <1>3, <1>4

\* A turn that is interrupted takes its own child with it, and no other.
LEMMA StopSpares ==
  ASSUME TypeOK, InPlace, NEW t \in Turns, NEW p \in Pids,
         Interrupt(t) \/ Escalate(t) \/ Finalize(t) \/ ColdDone(t)
  PROVE  Spared(p)
<1> DEFINE q == turn[t].entry
<1>1. turn[t] \in TurnState /\ SeatOf(t, turn[t], proc, chain) /\ proc \in [Pids -> PoolEntry]
  BY PostsType DEF InPlace
<1>2. CASE UNCHANGED proc
  BY <1>2, StaysSpared
<1>3. CASE /\ p # q
           /\ proc' = Termed(proc, {q}) \/ proc' = [Termed(proc, {q}) EXCEPT ![q].cut = TRUE]
  BY <1>3, StaysSpared DEF Termed
<1>4. CASE p = q /\ turn[t].phase = "cold"
  <2>1. proc[p].role = "cold"
    BY <1>1, <1>4, ClaudePoolAssumption DEF SeatOf
  <2> QED BY <2>1 DEF Spared, TornDown
<1>5. CASE p = q /\ turn[t].phase = "running" /\ (turn[t].kill \/ current'[p] = None)
  <2>1. current[p] = t
    BY <1>5, PostsType DEF InPlace
  <2> QED BY <1>5, <2>1, ClaudePoolAssumption DEF Spared, Idle
<1>6. CASE Interrupt(t)
  <2>1. /\ [turn[t] EXCEPT !.kill = TRUE].phase = turn[t].phase
    BY <1>1 DEF TurnState
  <2>2. turn[t].phase = "running" => q \in Pids
    BY PostsType DEF InPlace
  <2>3. \/ turn[t].phase = "cold" /\ (UNCHANGED proc \/ proc' = Termed(proc, {q}))
        \/ UNCHANGED proc
        \/ /\ turn[t].phase = "running" /\ current' = [current EXCEPT ![q] = None]
           /\ proc' = [Termed(proc, {q}) EXCEPT ![q].cut = TRUE]
    BY <1>6, <2>1 DEF Interrupt
  <2>4. turn[t].phase = "running" /\ current' = [current EXCEPT ![q] = None] => current'[q] = None
    BY <2>2 DEF TypeOK
  <2> HIDE DEF q
  <2> QED BY <1>2, <1>3, <1>4, <1>5, <2>3, <2>4
<1>7. CASE Escalate(t)
  <2>1. turn[t].phase = "running" /\ turn[t].kill /\ proc' = Termed(proc, {q})
    BY <1>1, <1>7 DEF Escalate, SeatOf
  <2> QED BY <1>3, <1>5, <2>1
<1>8. CASE Finalize(t) \/ ColdDone(t)
  BY <1>2, <1>8 DEF Finalize, ColdDone
<1> QED BY <1>6, <1>7, <1>8

LEMMA TakeResultSpares ==
  ASSUME NEW q \in Pids, NEW p \in Pids, TypeOK, NEW pr \in [Pids -> PoolEntry],
         NEW ok, NEW more, ~Idle(q),
         TakeResult(q, pr, ok, more), pr[p].st = proc[p].st
  PROVE  Spared(p)
<1> DEFINE yields == ~turn[current[q]].kill /\ ok /\ (BackgroundPending(pr, q) \/ more)
<1>1. \/ yields /\ proc' = Termed(pr, {})
      \/ /\ ~yields /\ current' = [current EXCEPT ![q] = None]
         /\ proc' = Termed(pr, {}) \/ proc' = Termed(pr, {q})
  BY DEF TakeResult
<1> HIDE DEF yields
<1>2. ASSUME NEW R, p \notin R PROVE Termed(pr, R)[p] = pr[p]
  BY <1>2, TermedSame
<1>3. ASSUME proc'[p] = pr[p] PROVE Spared(p)
  BY <1>3 DEF Spared, TornDown
<1>4. CASE p # q
  BY <1>1, <1>2, <1>3, <1>4
<1>5. CASE p = q
  <2>1. CASE proc' = Termed(pr, {})
    BY <1>2, <1>3, <2>1
  <2>2. CASE current' = [current EXCEPT ![q] = None]
    <3>1. current'[p] = None
      BY <1>5, <2>2 DEF TypeOK
    <3> QED BY <1>5, <3>1 DEF Spared
  <2> QED BY <1>1, <2>1, <2>2
<1> QED BY <1>4, <1>5

LEMMA LineSpares ==
  ASSUME TypeOK, InPlace, NEW q \in Pids, NEW p \in Pids,
         \/ ContentLine(q) \/ TasksChanged(q) \/ WakeupScheduled(q) \/ KeepaliveExpires(q)
         \/ UserResult(q) \/ FollowUpResult(q) \/ WakeupResult(q)
         \/ ColdResult(q) \/ WarmExit(q) \/ ColdExit(q)
  PROVE  Spared(p)
<1>1. proc \in [Pids -> PoolEntry] /\ proc[p] \in PoolEntry /\ proc[q] \in PoolEntry
  BY DEF TypeOK
<1>2. ASSUME NEW pr \in [Pids -> PoolEntry], pr[p].st = proc[p].st, NEW ok, NEW more,
             IgnoreResult(pr) \/ (~Idle(q) /\ TakeResult(q, pr, ok, more))
      PROVE  Spared(p)
  <2>1. CASE IgnoreResult(pr)
    BY <1>2, <2>1 DEF IgnoreResult, Spared, TornDown
  <2>2. CASE ~Idle(q) /\ TakeResult(q, pr, ok, more)
    BY <1>2, <2>2, TakeResultSpares
  <2> QED BY <1>2, <2>1, <2>2
<1>3. CASE \/ ContentLine(q) \/ TasksChanged(q) \/ WakeupScheduled(q) \/ KeepaliveExpires(q)
           \/ ColdResult(q)
  <2>1. CASE ContentLine(q)
    BY <2>1, StaysSpared DEF ContentLine
  <2>2. CASE TasksChanged(q) \/ WakeupScheduled(q) \/ KeepaliveExpires(q) \/ ColdResult(q)
    <3>1. PICK d : proc' = [proc EXCEPT ![q] = d] /\ d.st = proc[q].st
      <4>1. CASE TasksChanged(q)
        BY <1>1, <4>1 DEF TasksChanged, PoolEntry
      <4>2. CASE WakeupScheduled(q)
        <5> DEFINE d == [proc[q] EXCEPT !.wake = TRUE, !.work = proc[q].work \cup {"wake"}]
        <5>1. proc' = [proc EXCEPT ![q] = d]
          BY <1>1, <4>2 DEF WakeupScheduled
        <5>2. d.st = proc[q].st
          BY <1>1 DEF PoolEntry
        <5> QED BY <5>1, <5>2
      <4>3. CASE KeepaliveExpires(q)
        <5> DEFINE d == [proc[q] EXCEPT !.aged = TRUE]
        <5>1. proc' = [proc EXCEPT ![q] = d]
          BY <1>1, <4>3 DEF KeepaliveExpires
        <5>2. d.st = proc[q].st
          BY <1>1 DEF PoolEntry
        <5> QED BY <5>1, <5>2
      <4>4. CASE ColdResult(q)
        <5> DEFINE d == [proc[q] EXCEPT !.inbox = <<>>]
        <5>1. proc' = [proc EXCEPT ![q] = d]
          BY <1>1, <4>4 DEF ColdResult
        <5>2. d.st = proc[q].st
          BY <1>1 DEF PoolEntry
        <5> QED BY <5>1, <5>2
      <4> QED BY <2>2, <4>1, <4>2, <4>3, <4>4
    <3>2. proc'[p].st = proc[p].st
      BY <1>1, <3>1
    <3> QED BY <3>2 DEF Spared, TornDown
  <2> QED BY <1>3, <2>1, <2>2
<1>4. CASE UserResult(q)
  <2> DEFINE pr == [proc EXCEPT ![q].inbox = Tail(@)]
  <2>1. PICK ok \in BOOLEAN, more \in BOOLEAN :
          IgnoreResult(pr) \/ (~Idle(q) /\ TakeResult(q, pr, ok, more))
    BY <1>4 DEF UserResult, TakesUserResult
  <2>2. pr \in [Pids -> PoolEntry]
    <3>1. proc[q].inbox \in Seq(Turns) /\ proc[q].inbox # <<>>
      BY <1>1, <1>4 DEF PoolEntry, UserResult
    <3>2. Tail(proc[q].inbox) \in Seq(Turns)
      BY <3>1
    <3>3. [proc[q] EXCEPT !.inbox = Tail(proc[q].inbox)] \in PoolEntry
      BY <1>1, <3>2 DEF PoolEntry
    <3>4. pr = [proc EXCEPT ![q] = [proc[q] EXCEPT !.inbox = Tail(proc[q].inbox)]]
      BY <1>1
    <3> HIDE DEF pr
    <3> QED BY <1>1, <3>3, <3>4
  <2>3. pr[p].st = proc[p].st
    BY <1>1 DEF PoolEntry
  <2> HIDE DEF pr
  <2> QED BY <1>2, <2>1, <2>2, <2>3
<1>5. CASE FollowUpResult(q)
  <2> DEFINE pr == [proc EXCEPT ![q].work = @ \ {"task"}]
  <2>1. PICK ok \in BOOLEAN :
          IgnoreResult(pr) \/ (~Idle(q) /\ TakeResult(q, pr, ok, FALSE))
    BY <1>5 DEF FollowUpResult, TakesFollowUp
  <2>2. pr \in [Pids -> PoolEntry] /\ pr[p].st = proc[p].st
    BY <1>1 DEF PoolEntry
  <2> HIDE DEF pr
  <2> QED BY <1>2, <2>1, <2>2
<1>6. CASE WakeupResult(q)
  <2> DEFINE pr   == [proc EXCEPT ![q].work = @ \ {"wake"}]
             seen == [pr EXCEPT ![q].wake = FALSE, ![q].aged = @ /\ pr[q].tasks]
  <2>1. PICK ok \in BOOLEAN :
          \/ IgnoreResult(pr) \/ (~Idle(q) /\ TakeResult(q, pr, ok, FALSE))
          \/ ~Idle(q) /\ TakeResult(q, seen, ok, FALSE)
    BY <1>6 DEF WakeupResult
  <2>2. pr \in [Pids -> PoolEntry] /\ pr[p].st = proc[p].st
    BY <1>1 DEF PoolEntry
  <2> HIDE DEF pr
  <2>3. seen \in [Pids -> PoolEntry] /\ seen[p].st = pr[p].st
    <3>1. pr[q] \in PoolEntry
      BY <2>2
    <3> DEFINE d == [pr[q] EXCEPT !.wake = FALSE, !.aged = pr[q].aged /\ pr[q].tasks]
    <3>2. seen = [pr EXCEPT ![q] = d]
      BY <2>2
    <3>3. d \in PoolEntry /\ d.st = pr[q].st
      BY <3>1 DEF PoolEntry
    <3> HIDE DEF d, seen
    <3> QED BY <2>2, <3>2, <3>3
  <2> HIDE DEF seen
  <2> QED BY <1>2, <2>1, <2>2, <2>3
<1>7. CASE WarmExit(q)
  <2> DEFINE pr == [proc EXCEPT ![q] = NoProc]
  <2>1. proc' = pr \/ FallBack(current[q], turn[current[q]], pr)
    BY <1>7 DEF WarmExit
  <2>2. pr \in [Pids -> PoolEntry] /\ (pr[p] = proc[p] \/ pr[p].st = "free")
    BY <1>1, NoProcType DEF NoProc
  <2> HIDE DEF pr
  <2>3. proc'[p] = pr[p] \/ proc'[p].st = "up"
    BY <2>1, <2>2, FallBackKeeps
  <2> QED BY <2>2, <2>3, StaysSpared
<1>8. CASE ColdExit(q)
  <2>1. proc'[p] = proc[p] \/ proc'[p].st = "free"
    BY <1>1, <1>8 DEF ColdExit, NoProc
  <2> QED BY <2>1, StaysSpared
<1> QED BY <1>3, <1>4, <1>5, <1>6, <1>7, <1>8

\* When the bridge runs one turn of a thread at a time, the pool tears down a
\* child at work only after its turn was cancelled or ended, and one with live
\* background work between turns only for a turn of its own thread.
THEOREM MakingRoomSparesWork ==
  ASSUME SerialThreads
  PROVE  Spec => EvictionSparesWork
<1>1. ASSUME IInv, InPlace, [Next]_vars PROVE [\A p \in Pids : Spared(p)]_vars
  <2>1. TypeOK /\ TurnInv
    BY <1>1 DEF IInv
  <2> SUFFICES ASSUME Next, NEW p \in Pids PROVE Spared(p)
    BY <1>1
  <2>2. CASE \/ \E t \in Turns : Run(t) \/ ResumeWaiter(t)
             \/ \E q \in Pids : RunLink(q) \/ PopLink(q)
    BY <1>1, <2>1, <2>2, PlacementSpares
  <2>3. CASE Prewarm \/ Replenish \/ RespawnTimer \/ IdleSweep
    BY <1>1, <2>1, <2>3, StandbySpares
  <2>4. CASE \E t \in Turns : Interrupt(t) \/ Escalate(t) \/ Finalize(t) \/ ColdDone(t)
    BY <1>1, <2>1, <2>4, StopSpares
  <2>5. CASE \E q \in Pids : \/ ContentLine(q) \/ TasksChanged(q) \/ WakeupScheduled(q)
                           \/ KeepaliveExpires(q) \/ UserResult(q) \/ FollowUpResult(q)
                           \/ WakeupResult(q) \/ ColdResult(q) \/ WarmExit(q) \/ ColdExit(q)
    BY <1>1, <2>1, <2>5, LineSpares
  <2>6. CASE ShutdownBegin \/ ShutdownDestroy
    BY <2>6 DEF ShutdownBegin, ShutdownDestroy, Spared
  <2>7. CASE BeginPidWrite \/ EndPidWrite
    BY <2>7, StaysSpared DEF BeginPidWrite, EndPidWrite
  <2> QED BY <2>2, <2>3, <2>4, <2>5, <2>6, <2>7 DEF Next
<1>2. [\A p \in Pids : Spared(p)]_vars =>
        [\A p \in Pids : TornDown(p) /\ shutdown' = "no" =>
           /\ ~Idle(p) => turn[current[p]].kill \/ current'[p] = None
           /\ Idle(p) /\ HoldsBackgroundWork(p) =>
                \E t \in Turns : turn'[t] # turn[t] /\ turn'[t].thread = proc[p].thread]_vars
  BY DEF Spared
<1> QED BY <1>1, <1>2, Invariant, PostsInvariant, PTL DEF Spec, EvictionSparesWork
=============================================================================
