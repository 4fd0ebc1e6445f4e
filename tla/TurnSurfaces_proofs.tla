------------------------ MODULE TurnSurfaces_proofs ------------------------
(***************************************************************************)
(* For any number of turns, crashes, failing calls and retries: a card     *)
(* never shows an earlier turn's answer, a ledger settled by a fallback    *)
(* stays settled, cot.json is never left naming a completed bubble, and no *)
(* ledger of a card that still spins is let go without the user knowing.   *)
(* With at most four failing calls every handled message has told its user *)
(* or has a ledger that will.  Of the card itself: once nothing is under   *)
(* way it shows the newest text, and the final text is never overwritten.  *)
(* Of the detector that watches a claimed task: humans are told only after *)
(* answered wake-ups, and an overdue task is called at most once in        *)
(* DueFloor.                                                               *)
(***************************************************************************)
EXTENDS TurnSurfaces, CardStream, StallPatrol, TLAPS

CardRecs == [turn : Nat, what : {"card", "late"}, retry : Nat, since : Nat]
KitRecs  == [turn : Nat, retry : Nat, since : Nat, 
             status : {"streaming", "finalized", "fallback_visible"}]
CotRecs  == [turn : Turns, retry : Nat]
Kinds    == {"absent", "open", "answer", "failed", "interrupted"}

Counts ==
  /\ n \in 0 .. MaxTurns
  /\ budget \in [turns : Nat, crashes : Nat, faults : Nat, bubbles : BOOLEAN]
  /\ n + budget.turns <= MaxTurns
  /\ state \in [turn : Nat, count : Nat] /\ state.turn <= n
  /\ child \subseteq Turns /\ \A k \in child : k <= n
RecType ==
  kitRec \in [Turns -> [status : {"none", "streaming", "settled"}, since : Nat]]
FileType ==
  /\ cardFile \in CardRecs \cup {None} /\ kitFile \in KitRecs \cup {None}
  /\ cotFile \in CotRecs \cup {None}
ShownType  == shown \in [Surfaces -> [is : Kinds, of : Nat]]
BubbleType ==
  bubble \in [Turns -> [at : {"none", "creating", "made", "lost"},
                        write : {"none", "going", "settled"},
                        end : {"none", "accepted", "refused", "mine", "gone", "kept"}]]
Handles == [card : {None, "card", "late"}, kit : BOOLEAN, posted : BOOLEAN, since : Nat]
HandleType == h \in Handles
Types == Counts /\ HandleType /\ RecType /\ FileType /\ ShownType /\ BubbleType

\* An agent of an earlier turn is a stray.
Strayed == \A k \in child : k # n => k \in strays

\* A record older than state.json belongs to a turn no later than its writer,
\* unless a stray wrote it.
After(k) == k <= state.turn \/ state.turn \in strays
CardDated ==
  cardFile # None =>
    /\ cardFile.turn <= n
    /\ cardFile.since < state.count => After(cardFile.turn)
KitDated ==
  kitFile # None =>
    /\ kitFile.turn <= n
    /\ kitFile.status = "streaming" /\ kitFile.since < state.count => After(kitFile.turn)
RecDated ==
  \A k \in Turns :
    /\ kitRec[k].status # "none" => k <= n
    /\ kitRec[k].status = "streaming" /\ kitRec[k].since < state.count => After(k)

\* The steps of a boot at which it works on cardkit.json, and all the steps
\* before which a crash is the last to have touched the closures' records.
KitSteps == {"kitBootMark", "kitBump", "kitCap", "capFinal", "capPost", "capMark", "postMark"}
Reset    == {"down", "cot", "cotDrop", "cotBump", "kitBoot", "kitBootDrop"} \cup KitSteps
\* A turn's steps come after the first turn has started.
Resting  == {"idle", "cardBoot", "cardBootDrop", "cardBump"} \cup Reset
Started  == n = 0 => at \in Resting
\* A turn under way started no later than its record says.
RunDated == at \notin Resting /\ h.since < state.count => After(n)

\* The closure's record follows the handle while the turn runs, and is not
\* there while the process is down or booting.
RecFollows ==
  /\ at = "open" => n \in Turns
  /\ at = "open" /\ lane = "record" => h.kit
  /\ at = "open" /\ lane = "kit" => ~h.kit
  /\ at = "open" /\ h.kit => kitRec[n].status = "streaming"
  /\ at = "open" /\ ~h.kit => /\ kitRec[n].status = "none"
                              /\ kitFile # None => kitFile.turn # n
  /\ at \in Reset => \A k \in Turns : kitRec[k].status = "none"

\* A closure whose ledger is settled no longer streams.
RecFallen ==
  kitFile # None /\ kitFile.status # "streaming" =>
    \A k \in Turns : kitFile.turn = k => kitRec[k].status # "streaming"

\* The delete starts after the write, and nothing writes again.
BubblesOrdered ==
  \A k \in Turns :
    /\ bubble[k].at \in {"none", "creating"} => bubble[k].end = "none"
    /\ bubble[k].end \in {"mine", "gone"} => bubble[k].write = "settled"
    /\ cotFile # None /\ cotFile.turn = k => bubble[k].end # "gone"

-----------------------------------------------------------------------------
(* Types.                                                                  *)

LEMMA InitTypes == Init => Types
<1> SUFFICES ASSUME Init PROVE Types
  OBVIOUS
<1>1. Counts
  <2>1. n = 0 /\ state.turn = 0 /\ state \in [turn : Nat, count : Nat]
    BY DEF Init
  <2>2. budget \in [turns : 0..MaxTurns, crashes : Nat, faults : Nat, bubbles : BOOLEAN]
    BY SurfacesAssumption DEF Init
  <2>3. budget.turns \in 0..MaxTurns
    BY <2>2
  <2>4. budget \in [turns : Nat, crashes : Nat, faults : Nat, bubbles : BOOLEAN]
    BY <2>2
  <2>5. n + budget.turns <= MaxTurns /\ n \in 0..MaxTurns
    BY <2>1, <2>3, SurfacesAssumption
  <2> QED
    BY <2>1, <2>4, <2>5 DEF Init, Counts
<1>2. RecType /\ HandleType
  BY DEF Init, RecType, NoRecord, HandleType, Handles, NoHandles
<1>5. BubbleType
  BY DEF Init, BubbleType, NoBubble
<1>3. FileType
  BY DEF Init, FileType
<1>4. ShownType
  BY DEF Init, ShownType, Blank, Kinds
<1> QED
  BY <1>1, <1>2, <1>3, <1>4, <1>5 DEF Types

\* Only the start of a turn, its state.json and a crash move the counters.
LEMMA CountsStep ==
  ASSUME Counts, Next
  PROVE  Counts'
<1>1. ASSUME Fine \/ Fault, UNCHANGED <<n, state>>, child' \subseteq child PROVE Counts'
  BY <1>1 DEF Counts, Fine, Fault
<1>2. CASE \E kit \in BOOLEAN : StartTurn(kit)
  <2>1. n' \in 0 .. MaxTurns /\ n' = n + 1 /\ n' \in Turns
    BY <1>2, SurfacesAssumption DEF StartTurn, Counts, Turns
  <2>2. budget' \in [turns : Nat, crashes : Nat, faults : Nat, bubbles : BOOLEAN]
        /\ n' + budget'.turns <= MaxTurns
    BY <1>2, <2>1, SurfacesAssumption DEF StartTurn, Counts
  <2>3. UNCHANGED state /\ child' = child \cup {n'}
    BY <1>2, <2>1 DEF StartTurn
  <2>4. state.turn <= n' /\ \A k \in child : k \in Nat /\ k <= n'
    BY <2>1, SurfacesAssumption DEF Counts, Turns
  <2> QED BY <2>1, <2>2, <2>3, <2>4 DEF Counts
<1>3. CASE OpenCard \/ SayNoCard \/ OpenKit \/ RecordKit \/ RecordCard
  BY <1>1, <1>3 DEF OpenCard, SayNoCard, OpenKit, RecordKit, RecordCard
<1>4. CASE StreamKit \/ EndRun
  BY <1>1, <1>4 DEF StreamKit, EndRun, Fine
<1>5. ASSUME NEW k \in Turns, WriteState(k) \/ ChildDies(k) PROVE Counts'
  <2>1. CASE WriteState(k)
    <3>1. k \in Nat /\ k <= n /\ state.count + 1 \in Nat
      BY <2>1 DEF WriteState, Counts, Turns
    <3> QED BY <2>1, <3>1 DEF WriteState, Counts
  <2>2. CASE ChildDies(k)
    BY <1>1, <2>2 DEF ChildDies, Fine
  <2> QED BY <1>5, <2>1, <2>2
<1>6. CASE Throw \/ FinalKit \/ MarkKit \/ LateStart \/ LateRecord \/ AgainFinal
  BY <1>1, <1>6 DEF Throw, FinalKit, MarkKit, LateStart, LateRecord, AgainFinal, Main, Aside
<1>7. CASE AgainMark \/ AgainPost \/ LatePost \/ FinalCard \/ DropCard \/ Handled
  BY <1>1, <1>7 DEF AgainMark, AgainPost, LatePost, FinalCard, DropCard, Handled, Main, Aside
<1>8. CASE Release \/ FailKit \/ DropKit \/ FailStart \/ FailCard \/ FailPost \/ SaidMark
  BY <1>1, <1>8 DEF Release, FailKit, DropKit, FailStart, FailCard, FailPost, SaidMark, Main, Aside
<1>9. CASE CreateBubble \/ Boot
  BY <1>1, <1>9 DEF CreateBubble, ChildDies, Boot, Cards, Fine
<1>10. ASSUME NEW k \in Turns, LateCommit(k) \/ ReadCot(k) \/ DropCot(k) PROVE Counts'
  BY <1>1, <1>10 DEF LateCommit, ReadCot, DropCot, Cards, Fine
<1>11. ASSUME NEW k \in Turns, BubbleMade(k) \/ WriteCot(k) \/ CompleteBubble(k) PROVE Counts'
  BY <1>1, <1>11 DEF BubbleMade, WriteCot, CompleteBubble, Cards
<1>12. CASE Crash
  BY <1>12 DEF Crash, Counts
<1>13. CASE \/ BootCot \/ BootCotDrop \/ BootKit \/ BootKitDrop \/ CapCard \/ CapPost \/ CapMark
            \/ BootKitMark \/ BootBump \/ BootCard \/ BootCardDrop
  BY <1>1, <1>13 DEF BootCot, BootCotDrop, BootKit, BootKitDrop, CapCard, CapPost, CapMark,
     BootKitMark, BootBump, BootCard,
     BootCardDrop, Booting
<1> QED
  BY <1>2, <1>3, <1>4, <1>5, <1>6, <1>7, <1>8, <1>9, <1>10, <1>11, <1>12, <1>13 DEF Next

\* Only the start of a turn ends the rest.
LEMMA RestStep ==
  ASSUME at \in Resting, Next
  PROVE  (\E kit \in BOOLEAN : StartTurn(kit)) \/ at' \in Resting
<1> USE DEF Resting, Reset, KitSteps
<1>1. CASE OpenCard \/ SayNoCard \/ OpenKit \/ RecordKit \/ RecordCard \/ StreamKit \/ EndRun \/ Throw
  BY <1>1 DEF OpenCard, SayNoCard, OpenKit, RecordKit, RecordCard, StreamKit, EndRun, Throw
<1>2. CASE FinalKit \/ MarkKit \/ LateStart \/ LateRecord \/ AgainFinal \/ AgainMark \/ AgainPost
  BY <1>2 DEF FinalKit, MarkKit, LateStart, LateRecord, AgainFinal, AgainMark, AgainPost, Unposted
<1>3. CASE LatePost \/ FinalCard \/ DropCard \/ Handled \/ Release
  BY <1>3 DEF LatePost, FinalCard, DropCard, Handled, Release
<1>4. CASE FailKit \/ DropKit \/ FailStart \/ FailCard \/ FailPost \/ SaidMark
  BY <1>4 DEF FailKit, DropKit, FailStart, FailCard, FailPost, SaidMark
<1>5. CASE CreateBubble \/ Boot \/ Crash
  BY <1>5 DEF WriteState, CreateBubble, ChildDies, Boot, Crash, Cards
<1>6. ASSUME NEW k \in Turns, LateCommit(k) \/ ReadCot(k) \/ DropCot(k) \/ WriteState(k) \/ ChildDies(k)
      PROVE  at' = at
  BY <1>6 DEF LateCommit, ReadCot, DropCot, WriteState, ChildDies, Cards
<1>7. ASSUME NEW k \in Turns, BubbleMade(k) \/ WriteCot(k) \/ CompleteBubble(k) PROVE at' = at
  BY <1>7 DEF BubbleMade, WriteCot, CompleteBubble, Cards
<1>8. CASE \/ BootCot \/ BootCotDrop \/ BootKit \/ BootKitDrop \/ CapCard \/ CapPost \/ CapMark
           \/ BootKitMark \/ BootBump \/ BootCard \/ BootCardDrop
  BY <1>8 DEF BootCot, BootCotDrop, BootKit, BootKitDrop, CapCard, CapPost, CapMark, BootKitMark,
     KitFailed, BootBump, BootCard, BootCardDrop
<1> QED BY <1>1, <1>2, <1>3, <1>4, <1>5, <1>6, <1>7, <1>8 DEF Next

LEMMA StartedStep ==
  ASSUME Counts, Started, Next
  PROVE  Started'
<1> USE DEF Started, Resting, Reset, KitSteps
<1>1. CASE \E kit \in BOOLEAN : StartTurn(kit)
  BY <1>1 DEF StartTurn, Counts
<1>2. CASE OpenCard \/ SayNoCard \/ OpenKit \/ RecordKit \/ RecordCard \/ StreamKit \/ EndRun \/ Throw
  BY <1>2 DEF OpenCard, SayNoCard, OpenKit, RecordKit, RecordCard, StreamKit, EndRun, Throw
<1>3. CASE FinalKit \/ MarkKit \/ LateStart \/ LateRecord \/ AgainFinal \/ AgainMark \/ AgainPost
  BY <1>3 DEF FinalKit, MarkKit, LateStart, LateRecord, AgainFinal, AgainMark, AgainPost, Unposted, Main
<1>4. CASE LatePost \/ FinalCard \/ DropCard \/ Handled \/ Release
  BY <1>4 DEF LatePost, FinalCard, DropCard, Handled, Release, Main
<1>5. CASE FailKit \/ DropKit \/ FailStart \/ FailCard \/ FailPost \/ SaidMark
  BY <1>5 DEF FailKit, DropKit, FailStart, FailCard, FailPost, SaidMark, Main
<1>6. CASE CreateBubble \/ Boot \/ Crash
  BY <1>6 DEF WriteState, CreateBubble, ChildDies, Boot, Crash, Cards
<1>7. ASSUME NEW k \in Turns, LateCommit(k) \/ ReadCot(k) \/ DropCot(k) \/ WriteState(k) \/ ChildDies(k)
      PROVE  UNCHANGED <<n, at>>
  BY <1>7 DEF LateCommit, ReadCot, DropCot, WriteState, ChildDies, Cards
<1>8. ASSUME NEW k \in Turns, BubbleMade(k) \/ WriteCot(k) \/ CompleteBubble(k)
      PROVE  UNCHANGED <<n, at>>
  BY <1>8 DEF BubbleMade, WriteCot, CompleteBubble, Cards
<1>9. CASE \/ BootCot \/ BootCotDrop \/ BootKit \/ BootKitDrop \/ CapCard \/ CapPost \/ CapMark
           \/ BootKitMark \/ BootBump \/ BootCard \/ BootCardDrop
  BY <1>9 DEF BootCot, BootCotDrop, BootKit, BootKitDrop, CapCard, CapPost, CapMark, BootKitMark,
     KitFailed, BootBump, BootCard, BootCardDrop, Booting
<1> QED
  BY <1>1, <1>2, <1>3, <1>4, <1>5, <1>6, <1>7, <1>8, <1>9 DEF Next

\* The closures' records: made by OpenKit, settled by the turn, lost in a crash.
LEMMA RecStep ==
  ASSUME Counts, RecType, Next
  PROVE  \/ UNCHANGED kitRec
         \/ OpenKit
         \/ at # "open" /\ UNCHANGED n /\ SettleRecord
         \/ Crash
<1>1. CASE \E kit \in BOOLEAN : StartTurn(kit)
  BY <1>1 DEF StartTurn
<1>2. CASE OpenCard \/ SayNoCard \/ RecordKit \/ RecordCard \/ StreamKit \/ EndRun \/ Throw
  BY <1>2 DEF OpenCard, SayNoCard, RecordKit, RecordCard, StreamKit, EndRun, WriteState, Throw
<1>3. CASE \/ FinalKit \/ LateStart \/ LateRecord \/ AgainFinal \/ LatePost \/ FinalCard \/ DropCard
           \/ Handled
  BY <1>3 DEF FinalKit, LateStart, LateRecord, AgainFinal, LatePost, FinalCard, DropCard, Handled
<1>4. CASE MarkKit \/ AgainMark \/ SaidMark \/ AgainPost
  BY <1>4 DEF MarkKit, AgainMark, SaidMark, AgainPost, Main
<1>5. CASE Release \/ FailKit \/ DropKit \/ FailStart \/ FailCard \/ FailPost
  BY <1>5 DEF Release, FailKit, DropKit, FailStart, FailCard, FailPost, Main, Aside
<1>6. CASE CreateBubble \/ Boot
  BY <1>6 DEF CreateBubble, ChildDies, Boot, Cards
<1>7. ASSUME NEW k \in Turns, LateCommit(k) \/ ReadCot(k) \/ DropCot(k) \/ WriteState(k) \/ ChildDies(k)
      PROVE  UNCHANGED kitRec
  BY <1>7 DEF LateCommit, ReadCot, DropCot, WriteState, ChildDies, Cards
<1>8. ASSUME NEW k \in Turns, BubbleMade(k) \/ WriteCot(k) \/ CompleteBubble(k) PROVE UNCHANGED kitRec
  BY <1>8 DEF BubbleMade, WriteCot, CompleteBubble, Cards
<1>9. CASE \/ BootCot \/ BootCotDrop \/ BootKit \/ BootKitDrop \/ CapCard \/ CapPost \/ CapMark
           \/ BootKitMark \/ BootBump \/ BootCard \/ BootCardDrop
  BY <1>9 DEF BootCot, BootCotDrop, BootKit, BootKitDrop, CapCard, CapPost, CapMark, BootKitMark,
     BootBump, BootCard, BootCardDrop, Booting
<1> QED
  BY <1>1, <1>2, <1>3, <1>4, <1>5, <1>6, <1>7, <1>8, <1>9 DEF Next

LEMMA RecTypeStep ==
  ASSUME Counts, RecType, Next
  PROVE  RecType'
<1>1. CASE UNCHANGED kitRec
  BY <1>1 DEF RecType
<1>2. CASE OpenKit
  BY <1>2 DEF OpenKit, RecType, Counts
<1>3. CASE SettleRecord
  BY <1>3 DEF SettleRecord, RecType
<1>4. CASE Crash
  BY <1>4 DEF Crash, RecType, NoRecord
<1> QED
  BY <1>1, <1>2, <1>3, <1>4, RecStep

\* card.json: written by the turn, dropped, or bumped by the boot.
LEMMA CardStep ==
  ASSUME Next
  PROVE  \/ UNCHANGED cardFile
         \/ cardFile' = None /\ at # "cardBump"
         \/ /\ cardFile' \in {CardRec("card"), CardRec("late")} /\ UNCHANGED <<n, state>>
            /\ at \in {"open", "againRec", "lateRec"}
         \/ at = "cardBump" /\ at' = "idle" /\ cardFile' = Tried(cardFile) /\ UNCHANGED <<n, state>>
<1> USE DEF PutCard, PutKit, PutCot, files
<1>1. CASE \E kit \in BOOLEAN : StartTurn(kit)
  BY <1>1 DEF StartTurn
<1>2. CASE OpenCard \/ SayNoCard \/ OpenKit \/ RecordKit \/ StreamKit \/ EndRun \/ Throw
  BY <1>2 DEF OpenCard, SayNoCard, OpenKit, RecordKit, StreamKit, EndRun, Throw
<1>3. CASE RecordCard \/ LateRecord
  BY <1>3 DEF RecordCard, LateRecord, Main, Aside
<1>4. CASE FinalKit \/ MarkKit \/ LateStart \/ AgainFinal \/ LatePost \/ FinalCard \/ Handled \/ Release
  BY <1>4 DEF FinalKit, MarkKit, LateStart, AgainFinal, LatePost, FinalCard, Handled, Release
<1>5. CASE AgainMark \/ AgainPost \/ DropCard \/ FailPost \/ SaidMark
  BY <1>5 DEF AgainMark, AgainPost, DropCard, FailPost, SaidMark
<1>6. CASE FailKit \/ DropKit \/ FailStart \/ FailCard
  BY <1>6 DEF FailKit, DropKit, FailStart, FailCard
<1>7. CASE CreateBubble \/ Boot \/ Crash
  BY <1>7 DEF CreateBubble, Boot, Crash
<1>8. ASSUME NEW k \in Turns, \/ LateCommit(k) \/ ReadCot(k) \/ DropCot(k) \/ WriteState(k)
                              \/ ChildDies(k)
      PROVE  UNCHANGED cardFile
  BY <1>8 DEF LateCommit, Commit, ReadCot, DropCot, WriteState, ChildDies
<1>9. ASSUME NEW k \in Turns, BubbleMade(k) \/ WriteCot(k) \/ CompleteBubble(k)
      PROVE  UNCHANGED cardFile
  BY <1>9 DEF BubbleMade, WriteCot, CompleteBubble
<1>10. CASE \/ BootCot \/ BootCotDrop \/ BootKit \/ BootKitMark \/ BootKitDrop \/ CapCard \/ CapPost
            \/ CapMark
  BY <1>10 DEF BootCot, BootCotDrop, BootKit, BootKitMark, BootKitDrop, CapCard, CapPost, CapMark,
     KitEnds
<1>11. CASE BootBump
  BY <1>11 DEF BootBump, Booting
<1>12. CASE BootCard \/ BootCardDrop
  BY <1>12 DEF BootCard, BootCardDrop
<1> QED
  BY <1>1, <1>2, <1>3, <1>4, <1>5, <1>6, <1>7, <1>8, <1>9, <1>10, <1>11, <1>12 DEF Next

\* cardkit.json: a streaming record of the turn or of a closure that still
\* streams, a settled one, an attempt of the boot or its last word, or nothing.
StreamsNow == at = "open" /\ (h.kit \/ lane = "record") /\ kitFile' = KitRec(n, "streaming")
              /\ UNCHANGED <<at, n, h, kitRec, state>> /\ lane' \in {lane, "done"}
SettlesKit ==
  /\ at \in {"kitMark", "againMark", "saidMark"} /\ at' \in {"kitDrop", "againDrop", "saidCard"}
  /\ kitFile' \in {KitRec(n, "finalized"), KitRec(n, "fallback_visible")}
  /\ SettleRecord /\ UNCHANGED <<n, state>>
CommitsLate ==
  \E k \in Turns : /\ k \in salvage /\ kitRec[k].status = "streaming"
                   /\ kitFile' = KitRec(k, "streaming")
                   /\ UNCHANGED <<at, n, h, lane, kitRec, state>>
Retries == at = "kitBump" /\ at' = "cardBoot" /\ kitFile' = Tried(kitFile)
           /\ UNCHANGED <<n, kitRec, state>>
GivesUp == /\ at \in {"kitBootMark", "capMark", "postMark"} /\ at' \in {"kitBootDrop", "cardBoot"}
           /\ UNCHANGED <<n, kitRec, state>>
           /\ \E status \in {"finalized", "fallback_visible"}, retry \in {kitFile.retry, kitFile.retry + 1} :
                kitFile' = [turn |-> kitFile.turn, since |-> kitFile.since, status |-> status, retry |-> retry]

LEMMA KitStep ==
  ASSUME Next
  PROVE  UNCHANGED kitFile \/ (kitFile' = None /\ at \notin KitSteps) \/ StreamsNow \/ SettlesKit
           \/ CommitsLate \/ Retries \/ GivesUp
<1> USE DEF PutCard, PutKit, PutCot, files
<1>1. CASE \E kit \in BOOLEAN : StartTurn(kit)
  BY <1>1 DEF StartTurn
<1>2. CASE OpenCard \/ SayNoCard \/ OpenKit \/ RecordCard \/ EndRun \/ Throw
  BY <1>2 DEF OpenCard, SayNoCard, OpenKit, RecordCard, EndRun, Throw
<1>3. CASE RecordKit \/ StreamKit
  BY <1>3 DEF RecordKit, StreamKit, StreamsNow
<1>4. CASE \/ FinalKit \/ LateStart \/ LateRecord \/ AgainFinal \/ LatePost \/ FinalCard \/ Handled
           \/ Release
  BY <1>4 DEF FinalKit, LateStart, LateRecord, AgainFinal, LatePost, FinalCard, Handled, Release
<1>5. CASE AgainPost \/ DropCard \/ FailPost
  BY <1>5 DEF AgainPost, DropCard, FailPost
<1>6. CASE MarkKit \/ AgainMark \/ SaidMark
  BY <1>6 DEF MarkKit, AgainMark, SaidMark, SettlesKit, Main, Aside
<1>7. CASE FailKit \/ DropKit \/ FailStart \/ FailCard
  BY <1>7 DEF FailKit, DropKit, FailStart, FailCard, KitSteps
<1>8. CASE CreateBubble \/ Boot \/ Crash
  BY <1>8 DEF CreateBubble, Boot, Crash
<1>9. ASSUME NEW k \in Turns, LateCommit(k) PROVE UNCHANGED kitFile \/ CommitsLate
  BY <1>9 DEF LateCommit, Commit, CommitsLate
<1>10. ASSUME NEW k \in Turns, \/ ReadCot(k) \/ DropCot(k) \/ BubbleMade(k) \/ WriteCot(k)
                               \/ CompleteBubble(k) \/ WriteState(k) \/ ChildDies(k)
       PROVE  UNCHANGED kitFile
  BY <1>10 DEF ReadCot, DropCot, BubbleMade, WriteCot, CompleteBubble, WriteState, ChildDies
<1>11. CASE BootBump
  BY <1>11 DEF BootBump, Retries, Booting
<1>12. CASE \/ BootCot \/ BootCotDrop \/ BootKit \/ BootKitDrop \/ CapCard \/ CapPost \/ BootCard
            \/ BootCardDrop
  BY <1>12 DEF BootCot, BootCotDrop, BootKit, BootKitDrop, CapCard, CapPost, BootCard, BootCardDrop,
     KitSteps
<1>13. CASE BootKitMark \/ CapMark
  BY <1>13 DEF BootKitMark, CapMark, KitEnds, GivesUp, Booting
<1> QED
  BY <1>1, <1>2, <1>3, <1>4, <1>5, <1>6, <1>7, <1>8, <1>9, <1>10, <1>11, <1>12, <1>13 DEF Next

\* cot.json: written by a bubble's chain, dropped, or bumped by the boot.
LEMMA CotStep ==
  ASSUME Next
  PROVE  \/ UNCHANGED cotFile
         \/ cotFile' = None /\ (at = "cotDrop" \/ \E k \in Turns : DropCot(k))
         \/ \E k \in Turns : WriteCot(k) /\ cotFile' = [turn |-> k, retry |-> 0]
         \/ at = "cotBump" /\ at' = "kitBoot" /\ cotFile' = Tried(cotFile) /\ UNCHANGED bubble
<1> USE DEF PutCard, PutKit, PutCot, files
<1>1. CASE \E kit \in BOOLEAN : StartTurn(kit)
  BY <1>1 DEF StartTurn
<1>2. CASE OpenCard \/ SayNoCard \/ OpenKit \/ RecordCard \/ RecordKit \/ StreamKit
  BY <1>2 DEF OpenCard, SayNoCard, OpenKit, RecordCard, RecordKit, StreamKit
<1>3. CASE EndRun \/ Throw \/ FinalKit \/ LateStart \/ LateRecord \/ AgainFinal
  BY <1>3 DEF EndRun, Throw, FinalKit, LateStart, LateRecord, AgainFinal
<1>4. CASE LatePost \/ FinalCard \/ Handled \/ Release \/ FailKit \/ DropKit \/ FailStart \/ FailCard
  BY <1>4 DEF LatePost, FinalCard, Handled, Release, FailKit, DropKit, FailStart, FailCard
<1>5. CASE MarkKit \/ AgainMark \/ AgainPost \/ DropCard \/ FailPost \/ SaidMark
  BY <1>5 DEF MarkKit, AgainMark, AgainPost, DropCard, FailPost, SaidMark
<1>6. CASE CreateBubble \/ Boot \/ Crash
  BY <1>6 DEF CreateBubble, Boot, Crash
<1>7. ASSUME NEW k \in Turns, \/ LateCommit(k) \/ ReadCot(k) \/ BubbleMade(k) \/ CompleteBubble(k)
                              \/ WriteState(k) \/ ChildDies(k)
      PROVE  UNCHANGED cotFile
  BY <1>7 DEF LateCommit, Commit, ReadCot, BubbleMade, CompleteBubble, WriteState, ChildDies
<1>8. ASSUME NEW k \in Turns, WriteCot(k)
      PROVE  UNCHANGED cotFile \/ cotFile' = [turn |-> k, retry |-> 0]
  BY <1>8 DEF WriteCot
<1>9. ASSUME NEW k \in Turns, DropCot(k) PROVE UNCHANGED cotFile \/ cotFile' = None
  BY <1>9 DEF DropCot
<1>10. CASE BootBump
  BY <1>10 DEF BootBump, Booting
<1>11. CASE BootCot \/ BootCotDrop \/ BootKit \/ BootKitMark \/ BootKitDrop \/ BootCard \/ BootCardDrop
  BY <1>11 DEF BootCot, BootCotDrop, BootKit, BootKitMark, BootKitDrop, BootCard, BootCardDrop, KitEnds
<1>12. CASE CapCard \/ CapPost \/ CapMark
  BY <1>12 DEF CapCard, CapPost, CapMark, KitEnds
<1> QED
  BY <1>1, <1>2, <1>3, <1>4, <1>5, <1>6, <1>7, <1>8, <1>9, <1>10, <1>11, <1>12 DEF Next

\* The boot only works on a ledger it has found, and no bubble is left from
\* before the crash.
Found ==
  /\ at \in KitSteps => kitFile # None /\ kitFile.status = "streaming"
  /\ at = "cotBump" => cotFile # None
  /\ at = "cardBump" => cardFile # None
  /\ at \in Reset => \A k \in Turns : bubble[k] = [NoBubble EXCEPT !.at = "lost"]

LEMMA FileTypeStep ==
  ASSUME Counts, Started, RecType, FileType, Found, Next
  PROVE  FileType'
<1>1. cardFile' \in CardRecs \cup {None}
  BY CardStep DEF Counts, FileType, CardRecs, CardRec, Tried, Found
<1>2. kitFile' \in KitRecs \cup {None}
  <2>1. CASE StreamsNow \/ SettlesKit
    <3>1. n \in Turns
      BY <2>1, SurfacesAssumption
      DEF Counts, Started, Resting, Reset, KitSteps, StreamsNow, SettlesKit, Turns
    <3>2. kitRec[n].since \in Nat
      BY <3>1 DEF RecType
    <3> QED
      BY <2>1, <3>1, <3>2 DEF KitRecs, KitRec, StreamsNow, SettlesKit, Turns
  <2>2. CASE CommitsLate
    BY <2>2 DEF RecType, KitRecs, KitRec, CommitsLate, Turns
  <2>3. CASE Retries
    BY <2>3 DEF FileType, KitRecs, Tried, Retries, Found, KitSteps
  <2>4. CASE GivesUp
    <3>1. kitFile \in KitRecs
      BY <2>4 DEF FileType, GivesUp, Found, KitSteps
    <3> QED
      BY <2>4, <3>1 DEF KitRecs, GivesUp
  <2> QED
    BY <2>1, <2>2, <2>3, <2>4, KitStep DEF FileType
<1>3. cotFile' \in CotRecs \cup {None}
  BY CotStep DEF FileType, CotRecs, Tried, Turns, Found
<1> QED
  BY <1>1, <1>2, <1>3 DEF FileType

-----------------------------------------------------------------------------
(* Dates.                                                                  *)

\* Only a turn's start moves n, and only agents move state.json.
LEMMA ClockStep ==
  ASSUME Counts, Next
  PROVE  /\ strays \subseteq strays'
         /\ \/ /\ \E kit \in BOOLEAN : StartTurn(kit)
               /\ n' = n + 1 /\ child' = child \cup {n'} /\ strays' = strays \cup child
               /\ UNCHANGED state
            \/ n' = n /\ child' \subseteq child /\ UNCHANGED <<state, strays>>
            \/ /\ \E k \in child : state' = [turn |-> k, count |-> state.count + 1]
               /\ UNCHANGED <<n, kitRec, cardFile, kitFile, child, strays, at, h>>
<1>1. CASE \E kit \in BOOLEAN : StartTurn(kit)
  BY <1>1 DEF StartTurn
<1>2. CASE OpenCard \/ SayNoCard \/ OpenKit \/ RecordKit \/ RecordCard \/ StreamKit \/ EndRun \/ Throw
  BY <1>2 DEF OpenCard, SayNoCard, OpenKit, RecordKit, RecordCard, StreamKit, EndRun, Throw
<1>3. CASE FinalKit \/ MarkKit \/ LateStart \/ LateRecord \/ AgainFinal \/ AgainMark \/ AgainPost
  BY <1>3 DEF FinalKit, MarkKit, LateStart, LateRecord, AgainFinal, AgainMark, AgainPost, Main, Aside
<1>4. CASE LatePost \/ FinalCard \/ DropCard \/ Handled \/ Release
  BY <1>4 DEF LatePost, FinalCard, DropCard, Handled, Release, Main, Aside
<1>5. CASE FailKit \/ DropKit \/ FailStart \/ FailCard \/ FailPost \/ SaidMark
  BY <1>5 DEF FailKit, DropKit, FailStart, FailCard, FailPost, SaidMark, Main, Aside
<1>6. CASE CreateBubble \/ Boot \/ Crash
  BY <1>6 DEF CreateBubble, Boot, Crash, Cards
<1>7. ASSUME NEW k \in Turns, LateCommit(k) \/ ReadCot(k) \/ DropCot(k) \/ ChildDies(k)
      PROVE  n' = n /\ child' \subseteq child /\ UNCHANGED <<state, strays>>
  BY <1>7 DEF LateCommit, ReadCot, DropCot, ChildDies, Cards
<1>8. ASSUME NEW k \in Turns, BubbleMade(k) \/ WriteCot(k) \/ CompleteBubble(k)
      PROVE  n' = n /\ child' \subseteq child /\ UNCHANGED <<state, strays>>
  BY <1>8 DEF BubbleMade, WriteCot, CompleteBubble, Cards
<1>9. ASSUME NEW k \in Turns, WriteState(k)
      PROVE  /\ k \in child /\ state' = [turn |-> k, count |-> state.count + 1]
             /\ UNCHANGED <<n, kitRec, cardFile, kitFile, child, strays, at, h>>
  BY <1>9 DEF WriteState, files
<1>10. CASE \/ BootCot \/ BootCotDrop \/ BootKit \/ BootKitDrop \/ CapCard \/ CapPost \/ CapMark
            \/ BootKitMark \/ BootBump \/ BootCard \/ BootCardDrop
  BY <1>10 DEF BootCot, BootCotDrop, BootKit, BootKitDrop, CapCard, CapPost, CapMark, BootKitMark,
     BootBump, BootCard, BootCardDrop, Booting
<1> QED
  BY <1>1, <1>2, <1>3, <1>4, <1>5, <1>6, <1>7, <1>8, <1>9, <1>10 DEF Next

LEMMA StrayedStep ==
  ASSUME Counts, Strayed, Next
  PROVE  Strayed'
BY ClockStep DEF Strayed

\* What is no later than its writer, or a stray's, stays so.
LEMMA AfterStep ==
  ASSUME Counts, Strayed, Next
  PROVE  /\ n \in Nat /\ n' \in Nat /\ n <= n'
         /\ \A k \in Nat : k <= n => k <= n'
         /\ \A k \in Nat : k <= n =>
              /\ After(k) => After(k)'
              /\ UNCHANGED state \/ After(k)'
         /\ UNCHANGED state \/ UNCHANGED <<n, kitRec, cardFile, kitFile, at, h>>
<1>1. n \in Nat /\ n' \in Nat /\ n <= n'
  BY ClockStep, SurfacesAssumption DEF Counts
<1>2. ASSUME NEW j \in child, state' = [turn |-> j, count |-> state.count + 1],
             UNCHANGED <<n, strays>>, NEW k \in Nat, k <= n
      PROVE  After(k)'
  BY <1>1, <1>2 DEF After, Strayed
<1>3. ASSUME UNCHANGED state, NEW k \in Nat, After(k) PROVE After(k)'
  BY <1>3, ClockStep DEF After
<1> QED BY <1>1, <1>2, <1>3, ClockStep

LEMMA CardDatedStep ==
  ASSUME Counts, Strayed, FileType, Found, CardDated, Next
  PROVE  CardDated'
<1> USE DEF CardDated
<1>0. cardFile # None => cardFile.turn \in Nat /\ cardFile.since \in Nat
  BY DEF FileType, CardRecs
<1>1. CASE UNCHANGED cardFile
  BY <1>0, <1>1, AfterStep
<1>2. CASE cardFile' = None
  BY <1>2
<1>3. CASE cardFile' \in {CardRec("card"), CardRec("late")} /\ UNCHANGED <<n, state>>
  BY <1>3 DEF CardRec, Counts
<1>4. CASE at = "cardBump" /\ cardFile' = Tried(cardFile) /\ UNCHANGED <<n, state>>
  <2>1. cardFile \in CardRecs
    BY <1>4 DEF FileType, Found
  <2>2. cardFile' # None => cardFile'.turn = cardFile.turn /\ cardFile'.since = cardFile.since
    BY <1>4, <2>1 DEF Tried, CardRecs
  <2>3. cardFile # None
    BY <1>4 DEF Found
  <2> QED
    BY <1>0, <1>4, <2>2, <2>3, AfterStep
<1> QED
  BY <1>1, <1>2, <1>3, <1>4, CardStep

LEMMA KitDatedStep ==
  ASSUME Counts, Strayed, Started, RecType, FileType, Found, RecFollows, RecDated, KitDated, Next
  PROVE  KitDated'
<1> USE DEF KitDated
<1>0. kitFile # None => kitFile.turn \in Nat /\ kitFile.since \in Nat
  BY DEF FileType, KitRecs
<1>1. CASE UNCHANGED kitFile
  BY <1>0, <1>1, AfterStep
<1>2. CASE kitFile' = None
  BY <1>2
<1>3. CASE StreamsNow
  <2>1. /\ kitFile'.turn = n /\ kitFile'.since = kitRec[n].since
        /\ UNCHANGED <<n, state>> /\ n \in Turns /\ kitRec[n].status = "streaming"
    BY <1>3 DEF StreamsNow, KitRec, RecFollows
  <2>2. kitRec[n].since < state.count => After(n)
    BY <2>1 DEF RecDated
  <2> QED
    BY <2>1, <2>2, AfterStep
<1>4. CASE SettlesKit
  BY <1>4 DEF SettlesKit, KitRec, Counts
<1>5. CASE CommitsLate
  <2>1. PICK k \in Turns : /\ kitRec[k].status = "streaming" /\ kitFile' = KitRec(k, "streaming")
                           /\ UNCHANGED <<n, state>>
    BY <1>5 DEF CommitsLate
  <2>2. kitFile'.turn = k /\ kitFile'.since = kitRec[k].since /\ k \in Nat
    BY <2>1 DEF KitRec, Turns
  <2>3. k <= n /\ (kitRec[k].since < state.count => After(k))
    BY <2>1 DEF RecDated
  <2> QED
    BY <2>1, <2>2, <2>3, AfterStep
<1>6. CASE Retries
  <2>1. kitFile \in KitRecs /\ kitFile # None
    BY <1>6 DEF Retries, Found, KitSteps, FileType
  <2>2. kitFile' # None => /\ kitFile'.turn = kitFile.turn /\ kitFile'.since = kitFile.since
                           /\ kitFile'.status = kitFile.status
    BY <1>6, <2>1 DEF Retries, Tried, KitRecs
  <2> QED
    BY <1>0, <1>6, <2>1, <2>2, AfterStep DEF Retries
<1>7. CASE GivesUp
  BY <1>7 DEF GivesUp, Found, KitSteps
<1> QED
  BY <1>1, <1>2, <1>3, <1>4, <1>5, <1>6, <1>7, KitStep

LEMMA RecDatedStep ==
  ASSUME Counts, Strayed, RecType, RecFollows, RecDated, Next
  PROVE  RecDated'
<1> USE DEF RecDated
<1>0. \A k \in Turns : k \in Nat /\ kitRec[k].since \in Nat
  BY DEF RecType, Turns
<1>1. CASE UNCHANGED kitRec
  BY <1>0, <1>1, AfterStep
<1>2. CASE OpenKit
  <2>1. n' = n /\ state' = state /\ state.count \in Nat
    BY <1>2 DEF OpenKit, Counts
  <2>2. UNCHANGED kitRec \/ kitRec' = [kitRec EXCEPT ![n] = [status |-> "streaming", since |-> state.count]]
    BY <1>2 DEF OpenKit
  <2>3. ASSUME NEW k \in Turns, k # n PROVE kitRec'[k] = kitRec[k]
    BY <2>2, <2>3 DEF RecType
  <2>4. ASSUME n \in Turns PROVE UNCHANGED kitRec \/ kitRec'[n].since = state.count
    BY <2>2, <2>4 DEF RecType
  <2> QED
    BY <1>0, <2>1, <2>3, <2>4, AfterStep
<1>3. CASE at # "open" /\ UNCHANGED n /\ SettleRecord
  <2>1. ASSUME NEW k \in Turns PROVE kitRec'[k] = kitRec[k] \/ (k = n /\ kitRec'[k].status = "settled")
    BY <1>3, <2>1 DEF SettleRecord, RecType
  <2> QED
    BY <1>0, <1>3, <2>1, AfterStep
<1>4. CASE Crash
  BY <1>4 DEF Crash, NoRecord
<1> QED
  BY <1>1, <1>2, <1>3, <1>4, RecStep

-----------------------------------------------------------------------------
(* The closure's record and the ledger it is written into.                 *)

\* How a step may leave the process at the opening of a turn.
StaysOpen ==
  /\ at = "open" /\ UNCHANGED <<n, kitRec>>
  /\ lane' = lane \/ lane' \notin {"record", "kit"}
  /\ UNCHANGED h \/ h' = [h EXCEPT !.card = "card"] \/ h' = [h EXCEPT !.posted = TRUE]

LEMMA OpenStep ==
  ASSUME Next
  PROVE  \/ at' \notin {"open"} \cup Reset
         \/ \E kit \in BOOLEAN : StartTurn(kit)
         \/ OpenKit
         \/ StaysOpen /\ at' = "open"
         \/ at' \in Reset /\ at \in Reset /\ UNCHANGED kitRec
         \/ Crash /\ at' = "down" /\ kitRec' = [k \in Turns |-> NoRecord]
<1> USE DEF Reset, KitSteps
<1>2. CASE OpenCard \/ SayNoCard \/ RecordKit \/ RecordCard \/ StreamKit
  BY <1>2 DEF OpenCard, SayNoCard, RecordKit, RecordCard, StreamKit, StaysOpen
<1>3. CASE EndRun \/ Throw
  BY <1>3 DEF EndRun, Throw
<1>4. CASE FinalKit \/ MarkKit \/ LateStart \/ LateRecord \/ AgainFinal \/ AgainMark \/ AgainPost
  BY <1>4 DEF FinalKit, MarkKit, LateStart, LateRecord, AgainFinal, AgainMark, AgainPost, Unposted
<1>5. CASE LatePost \/ FinalCard \/ DropCard \/ Handled \/ Release
  BY <1>5 DEF LatePost, FinalCard, DropCard, Handled, Release, Unshown
<1>6. CASE FailKit \/ DropKit \/ FailStart \/ FailCard \/ FailPost \/ SaidMark
  BY <1>6 DEF FailKit, DropKit, FailStart, FailCard, FailPost, SaidMark
<1>7. CASE CreateBubble \/ Boot \/ Crash
  BY <1>7 DEF CreateBubble, Boot, Crash, Cards, StaysOpen
<1>8. ASSUME UNCHANGED <<at, n, h, lane, kitRec>>
      PROVE  \/ at' \notin {"open"} \cup Reset
             \/ StaysOpen /\ at' = "open"
             \/ at' \in Reset /\ at \in Reset /\ UNCHANGED kitRec
  BY <1>8 DEF StaysOpen
<1>10. ASSUME NEW k \in Turns, LateCommit(k) \/ ReadCot(k) \/ DropCot(k) \/ WriteState(k) \/ ChildDies(k)
       PROVE  UNCHANGED <<at, n, h, lane, kitRec>>
  BY <1>10 DEF LateCommit, ReadCot, DropCot, WriteState, ChildDies, Cards
<1>11. ASSUME NEW k \in Turns, BubbleMade(k) \/ WriteCot(k) \/ CompleteBubble(k)
       PROVE  UNCHANGED <<at, n, h, lane, kitRec>>
  BY <1>11 DEF BubbleMade, WriteCot, CompleteBubble, Cards
<1>12. CASE \/ BootCot \/ BootCotDrop \/ BootKit \/ BootKitDrop \/ CapCard \/ CapPost \/ CapMark
            \/ BootKitMark \/ BootBump \/ BootCard \/ BootCardDrop
  BY <1>12 DEF BootCot, BootCotDrop, BootKit, BootKitDrop, CapCard, CapPost, CapMark, BootKitMark,
     KitFailed, BootBump, BootCard, BootCardDrop, Booting
<1> QED
  BY <1>2, <1>3, <1>4, <1>5, <1>6, <1>7, <1>8, <1>10, <1>11, <1>12 DEF Next

\* Whose ledger cardkit.json may become.
LEMMA KitTurn ==
  ASSUME FileType, Found, Next, kitFile' # None
  PROVE  \/ kitFile # None /\ kitFile'.turn = kitFile.turn
         \/ at = "open" /\ (h.kit \/ lane = "record") /\ UNCHANGED at
         \/ at # "open" /\ at' # "open"
         \/ \E k \in Turns : kitRec[k].status = "streaming" /\ kitFile'.turn = k /\ UNCHANGED <<at, n, h>>
<1>1. CASE StreamsNow
  BY <1>1 DEF StreamsNow
<1>2. CASE SettlesKit
  BY <1>2 DEF SettlesKit
<1>3. CASE CommitsLate
  BY <1>3 DEF CommitsLate, KitRec
<1>4. CASE Retries \/ GivesUp
  BY <1>4 DEF Retries, GivesUp
<1> QED
  BY <1>1, <1>2, <1>3, <1>4, KitStep

\* handleOne's handles.
LEMMA HandleStep ==
  ASSUME HandleType, Next
  PROVE  /\ state.count \in Nat => HandleType'
         /\ h'.kit => h.kit \/ OpenKit
         /\ h'.since = h.since \/ Crash \/ \E kit \in BOOLEAN : StartTurn(kit)
<1>1. ASSUME \/ UNCHANGED h
             \/ \E c \in {"card", "late"} : h' = [h EXCEPT !.card = c]
             \/ h' = [h EXCEPT !.kit = TRUE]
             \/ h' = [h EXCEPT !.posted = TRUE]
      PROVE  HandleType' /\ h'.since = h.since /\ (h'.kit => h.kit \/ h' = [h EXCEPT !.kit = TRUE])
  <2>1. CASE \E c \in {"card", "late"} : h' = [h EXCEPT !.card = c]
    BY <2>1 DEF HandleType, Handles
  <2>2. CASE h' = [h EXCEPT !.kit = TRUE] \/ h' = [h EXCEPT !.posted = TRUE]
    BY <2>2 DEF HandleType, Handles
  <2>3. CASE UNCHANGED h
    BY <2>3 DEF HandleType
  <2> QED
    BY <1>1, <2>1, <2>2, <2>3
<1>2. CASE SayNoCard \/ RecordKit \/ RecordCard \/ StreamKit \/ EndRun \/ Throw \/ OpenKit
  BY <1>1, <1>2 DEF SayNoCard, RecordKit, RecordCard, StreamKit, EndRun, Throw, OpenKit, HandleType,
     Handles
<1>12. CASE OpenCard
  BY <1>1, <1>12 DEF OpenCard, HandleType, Handles
<1>3. CASE FinalKit \/ MarkKit \/ LateStart \/ LateRecord \/ AgainFinal \/ AgainMark \/ AgainPost
  BY <1>1, <1>3 DEF FinalKit, MarkKit, LateStart, LateRecord, AgainFinal, AgainMark, AgainPost,
     HandleType, Handles
<1>4. CASE LatePost \/ FinalCard \/ DropCard \/ Handled \/ Release
  BY <1>1, <1>4 DEF LatePost, FinalCard, DropCard, Handled, Release
<1>5. CASE FailKit \/ DropKit \/ FailStart \/ FailCard \/ FailPost \/ SaidMark
  BY <1>1, <1>5 DEF FailKit, DropKit, FailStart, FailCard, FailPost, SaidMark, HandleType, Handles
<1>6. CASE CreateBubble \/ Boot
  BY <1>1, <1>6 DEF CreateBubble, Boot, Cards
<1>7. CASE Crash
  BY <1>7 DEF Crash, HandleType, Handles, NoHandles
<1>8. CASE \E kit \in BOOLEAN : StartTurn(kit)
  <2>1. h' = [card |-> None, kit |-> FALSE, posted |-> FALSE, since |-> state.count]
    BY <1>8 DEF StartTurn, NoHandles
  <2> QED
    BY <1>8, <2>1 DEF HandleType, Handles
<1>9. ASSUME NEW k \in Turns, LateCommit(k) \/ ReadCot(k) \/ DropCot(k) \/ WriteState(k) \/ ChildDies(k)
      PROVE  UNCHANGED h
  BY <1>9 DEF LateCommit, ReadCot, DropCot, WriteState, ChildDies, Cards
<1>10. ASSUME NEW k \in Turns, BubbleMade(k) \/ WriteCot(k) \/ CompleteBubble(k) PROVE UNCHANGED h
  BY <1>10 DEF BubbleMade, WriteCot, CompleteBubble, Cards
<1>11. CASE \/ BootCot \/ BootCotDrop \/ BootKit \/ BootKitDrop \/ CapCard \/ CapPost \/ CapMark
            \/ BootKitMark \/ BootBump \/ BootCard \/ BootCardDrop
  BY <1>1, <1>11 DEF BootCot, BootCotDrop, BootKit, BootKitDrop, CapCard, CapPost, CapMark,
     BootKitMark, BootBump, BootCard,
     BootCardDrop, Booting
<1> QED
  BY <1>1, <1>2, <1>3, <1>4, <1>5, <1>6, <1>7, <1>8, <1>9, <1>10, <1>11, <1>12 DEF Next

LEMMA RunDatedStep ==
  ASSUME Counts, HandleType, Strayed, RunDated, Next
  PROVE  RunDated'
<1> SUFFICES ASSUME at' \notin Resting, h'.since < state'.count PROVE After(n)'
  BY DEF RunDated
<1>1. CASE \E kit \in BOOLEAN : StartTurn(kit)
  BY <1>1 DEF StartTurn, NoHandles, Counts
<1>2. CASE ~\E kit \in BOOLEAN : StartTurn(kit)
  <2>1. at \notin Resting
    BY <1>2, RestStep
  <2>2. ~Crash
    BY DEF Crash, Resting, Reset
  <2>3. h'.since = h.since /\ n \in Nat
    BY <1>2, <2>2, HandleStep, AfterStep
  <2>4. UNCHANGED n
    BY <1>2, ClockStep DEF Counts
  <2> QED
    BY <2>1, <2>3, <2>4, AfterStep DEF RunDated
<1> QED
  BY <1>1, <1>2

LEMMA RecFollowsStep ==
  ASSUME Counts, HandleType, Started, RecType, FileType, Found, RecDated, KitDated,
         RecFollows, Next
  PROVE  RecFollows'
<1>1. CASE at' \notin {"open"} \cup Reset
  BY <1>1 DEF RecFollows
<1>2. ASSUME NEW kit \in BOOLEAN, StartTurn(kit) PROVE RecFollows'
  <2>1. /\ at' = "open" /\ n' = n + 1 /\ n' \in Turns /\ ~h'.kit /\ UNCHANGED kitRec
        /\ lane' \notin {"record"} /\ UNCHANGED kitFile
    BY <1>2, SurfacesAssumption DEF StartTurn, NoHandles, Counts, Turns, files, Reset, KitSteps
  <2>2. kitRec'[n'].status = "none"
    BY <2>1 DEF RecDated, Counts
  <2>3. kitFile' # None => kitFile'.turn # n'
    BY <2>1 DEF KitDated, FileType, KitRecs, Counts
  <2> QED
    BY <2>1, <2>2, <2>3 DEF RecFollows, Reset, KitSteps
<1>3. CASE OpenKit
  <2>1. at = "open" /\ at' = "open" /\ n' = n /\ n \in Turns /\ ~h.kit /\ lane' # "kit" /\ UNCHANGED kitFile
    BY <1>3 DEF OpenKit, RecFollows, files
  <2>2. \/ /\ h'.kit /\ kitRec'[n].status = "streaming"
        \/ /\ ~h'.kit /\ lane' # "record" /\ UNCHANGED kitRec
    BY <1>3, <2>1 DEF OpenKit, HandleType, Handles, RecType
  <2> QED
    BY <2>1, <2>2 DEF RecFollows, Reset, KitSteps
<1>4. CASE StaysOpen /\ at' = "open"
  <2>1. h'.kit = h.kit
    BY <1>4 DEF StaysOpen, HandleType, Handles
  <2>2. ASSUME ~h.kit, kitFile' # None PROVE kitFile'.turn # n
    <3>1. kitFile # None => kitFile.turn # n
      BY <1>4, <2>2 DEF RecFollows, StaysOpen
    <3>2. kitRec[n].status = "none" /\ lane # "record"
      BY <1>4, <2>2 DEF RecFollows, StaysOpen
    <3> QED
      BY <1>4, <2>2, <3>1, <3>2, KitTurn
  <2> QED
    BY <1>4, <2>1, <2>2 DEF RecFollows, StaysOpen, Reset, KitSteps
<1>5. CASE at' \in Reset /\ at \in Reset /\ UNCHANGED kitRec
  BY <1>5 DEF RecFollows, Reset, KitSteps
<1>6. CASE at' = "down" /\ kitRec' = [k \in Turns |-> NoRecord]
  BY <1>6 DEF RecFollows, NoRecord
<1> QED
  BY <1>1, <1>2, <1>3, <1>4, <1>5, <1>6, OpenStep

LEMMA RecFallenStep ==
  ASSUME Counts, HandleType, RecType, FileType, Found, RecFollows, RecFallen, Next
  PROVE  RecFallen'
<1> SUFFICES ASSUME kitFile' # None, kitFile'.status # "streaming",
                    NEW k \in Turns, kitFile'.turn = k
             PROVE  kitRec'[k].status # "streaming"
  BY DEF RecFallen
<1>1. CASE UNCHANGED kitFile
  <2>1. CASE OpenKit
    <3>1. at = "open" /\ ~h.kit /\ k # n
      BY <1>1, <2>1 DEF OpenKit, RecFollows
    <3>2. kitRec'[k] = kitRec[k]
      BY <2>1, <3>1 DEF OpenKit, RecType
    <3> QED
      BY <1>1, <3>2 DEF RecFallen
  <2>2. CASE SettleRecord
    BY <1>1, <2>2 DEF SettleRecord, RecType, RecFallen
  <2>3. CASE Crash
    BY <2>3 DEF Crash, NoRecord
  <2>4. CASE UNCHANGED kitRec
    BY <1>1, <2>4 DEF RecFallen
  <2> QED
    BY <2>1, <2>2, <2>3, <2>4, RecStep
<1>2. CASE StreamsNow \/ CommitsLate
  BY <1>2 DEF StreamsNow, CommitsLate, KitRec
<1>3. CASE SettlesKit
  BY <1>3 DEF SettlesKit, KitRec, SettleRecord, RecType
<1>4. CASE Retries \/ GivesUp
  <2>1. \A j \in Turns : kitRec[j].status = "none"
    <3>1. at = "kitBump" \/ GivesUp
      BY <1>4 DEF Retries
    <3> QED
      BY <3>1 DEF RecFollows, Reset, KitSteps, GivesUp
  <2> QED
    BY <1>4, <2>1 DEF Retries, GivesUp
<1> QED
  BY <1>1, <1>2, <1>3, <1>4, KitStep

-----------------------------------------------------------------------------
(* Bubbles.                                                                *)

LEMMA BubbleStep ==
  ASSUME Next
  PROVE  \/ UNCHANGED bubble
         \/ CreateBubble \/ Crash
         \/ \E k \in Turns : \/ BubbleMade(k) \/ WriteCot(k) \/ CompleteBubble(k)
                             \/ ReadCot(k) \/ DropCot(k)
<1>1. CASE \E kit \in BOOLEAN : StartTurn(kit)
  BY <1>1 DEF StartTurn
<1>2. CASE OpenCard \/ SayNoCard \/ RecordKit \/ RecordCard \/ StreamKit \/ EndRun \/ Throw \/ OpenKit
  BY <1>2 DEF OpenCard, SayNoCard, RecordKit, RecordCard, StreamKit, EndRun, Throw, OpenKit
<1>3. CASE FinalKit \/ MarkKit \/ LateStart \/ LateRecord \/ AgainFinal \/ AgainMark \/ AgainPost
  BY <1>3 DEF FinalKit, MarkKit, LateStart, LateRecord, AgainFinal, AgainMark, AgainPost, Main, Aside
<1>4. CASE LatePost \/ FinalCard \/ DropCard \/ Handled \/ Release
  BY <1>4 DEF LatePost, FinalCard, DropCard, Handled, Release, Main, Aside
<1>5. CASE FailKit \/ DropKit \/ FailStart \/ FailCard \/ FailPost \/ SaidMark
  BY <1>5 DEF FailKit, DropKit, FailStart, FailCard, FailPost, SaidMark, Main, Aside
<1>6. CASE Boot
  BY <1>6 DEF Boot, WriteState, ChildDies
<1>7. ASSUME NEW k \in Turns, LateCommit(k) \/ WriteState(k) \/ ChildDies(k) PROVE UNCHANGED bubble
  BY <1>7 DEF LateCommit, WriteState, ChildDies
<1>8. CASE \/ BootCot \/ BootCotDrop \/ BootKit \/ BootKitDrop \/ CapCard \/ CapPost \/ CapMark
           \/ BootKitMark \/ BootBump \/ BootCard \/ BootCardDrop
  BY <1>8 DEF BootCot, BootCotDrop, BootKit, BootKitDrop, CapCard, CapPost, CapMark, BootKitMark,
     BootBump, BootCard, BootCardDrop, Booting
<1> QED
  BY <1>1, <1>2, <1>3, <1>4, <1>5, <1>6, <1>7, <1>8 DEF Next

LEMMA BubbleTypeStep ==
  ASSUME BubbleType, Next
  PROVE  BubbleType'
<1>1. CASE UNCHANGED bubble
  BY <1>1 DEF BubbleType
<1>2. CASE CreateBubble
  BY <1>2 DEF CreateBubble, BubbleType
<1>3. CASE Crash
  BY <1>3 DEF Crash, BubbleType, NoBubble
<1>4. ASSUME NEW k \in Turns, BubbleMade(k) PROVE BubbleType'
  BY <1>4 DEF BubbleMade, BubbleType
<1>5. ASSUME NEW k \in Turns, WriteCot(k) PROVE BubbleType'
  BY <1>5 DEF WriteCot, BubbleType
<1>6. ASSUME NEW k \in Turns, CompleteBubble(k) PROVE BubbleType'
  BY <1>6 DEF CompleteBubble, BubbleType
<1>7. ASSUME NEW k \in Turns, ReadCot(k) \/ DropCot(k) PROVE BubbleType'
  BY <1>7 DEF ReadCot, DropCot, BubbleType
<1> QED
  BY <1>1, <1>2, <1>3, <1>4, <1>5, <1>6, <1>7, BubbleStep

\* cot.json names a bubble that is not completed.
CotOpen == \A k \in Turns : cotFile # None /\ cotFile.turn = k => bubble[k].end # "gone"
\* A bubble's parts in order.
InOrder(b) ==
  /\ b.at \in {"none", "creating"} => b.end = "none"
  /\ b.end \in {"mine", "gone"} => b.write = "settled"

LEMMA OrderStep ==
  ASSUME BubbleType, BubblesOrdered, Next
  PROVE  \A k \in Turns : InOrder(bubble'[k])
<1> USE DEF InOrder
<1>0. \A k \in Turns : InOrder(bubble[k])
  BY DEF BubblesOrdered
<1>1. CASE UNCHANGED bubble
  BY <1>0, <1>1
<1>2. CASE CreateBubble
  BY <1>0, <1>2 DEF CreateBubble, BubbleType, NoBubble
<1>3. CASE Crash
  BY <1>3 DEF Crash, NoBubble
<1>4. ASSUME NEW j \in Turns, BubbleMade(j) PROVE \A k \in Turns : InOrder(bubble'[k])
  BY <1>0, <1>4 DEF BubbleMade, BubbleType
<1>5. ASSUME NEW j \in Turns, WriteCot(j) PROVE \A k \in Turns : InOrder(bubble'[k])
  BY <1>0, <1>5 DEF WriteCot, BubbleType
<1>6. ASSUME NEW j \in Turns, CompleteBubble(j) PROVE \A k \in Turns : InOrder(bubble'[k])
  BY <1>0, <1>6 DEF CompleteBubble, BubbleType
<1>7. ASSUME NEW j \in Turns, ReadCot(j) \/ DropCot(j) PROVE \A k \in Turns : InOrder(bubble'[k])
  BY <1>0, <1>7 DEF ReadCot, DropCot, BubbleType, WriteSettled
<1> QED
  BY <1>1, <1>2, <1>3, <1>4, <1>5, <1>6, <1>7, BubbleStep

LEMMA CotOpenStep ==
  ASSUME BubbleType, FileType, Found, BubblesOrdered, Next
  PROVE  CotOpen'
<1> USE DEF CotOpen
<1>0. CotOpen
  BY DEF BubblesOrdered
<1>1. CASE UNCHANGED cotFile
  <2>1. CASE UNCHANGED bubble
    BY <1>0, <1>1, <2>1
  <2>2. CASE CreateBubble
    BY <1>0, <1>1, <2>2 DEF CreateBubble, BubbleType
  <2>3. CASE Crash
    BY <2>3 DEF Crash, NoBubble
  <2>4. ASSUME NEW j \in Turns, BubbleMade(j) \/ WriteCot(j) PROVE CotOpen'
    BY <1>0, <1>1, <2>4 DEF BubbleMade, WriteCot, BubbleType
  <2>5. ASSUME NEW j \in Turns, CompleteBubble(j) PROVE CotOpen'
    BY <1>0, <1>1, <2>5 DEF CompleteBubble, BubbleType
  <2>6. ASSUME NEW j \in Turns, ReadCot(j) PROVE CotOpen'
    BY <1>0, <1>1, <2>6 DEF ReadCot, BubbleType
  <2>7. ASSUME NEW j \in Turns, DropCot(j) PROVE CotOpen'
    <3>1. \A k \in Turns : bubble'[k].end = "gone" => cotFile' = None \/ bubble[k].end = "gone"
      BY <2>7 DEF DropCot, PutCot, BubbleType
    <3> QED
      BY <1>0, <1>1, <3>1
  <2> QED
    BY <2>1, <2>2, <2>3, <2>4, <2>5, <2>6, <2>7, BubbleStep
<1>2. CASE cotFile' = None
  BY <1>2
<1>3. ASSUME NEW j \in Turns, WriteCot(j), cotFile' = [turn |-> j, retry |-> 0] PROVE CotOpen'
  <2>1. bubble[j].end # "gone"
    BY <1>3 DEF WriteCot, BubblesOrdered
  <2> QED
    BY <1>3, <2>1 DEF WriteCot, BubbleType
<1>4. CASE at = "cotBump" /\ cotFile' = Tried(cotFile) /\ UNCHANGED bubble
  <2>1. cotFile \in CotRecs /\ cotFile # None
    BY <1>4 DEF FileType, Found
  <2>2. cotFile' # None => cotFile'.turn = cotFile.turn
    BY <1>4, <2>1 DEF Tried, CotRecs
  <2> QED
    BY <1>0, <1>4, <2>1, <2>2
<1> QED
  BY <1>1, <1>2, <1>3, <1>4, CotStep

LEMMA BubblesOrderedStep ==
  ASSUME BubbleType, FileType, Found, BubblesOrdered, Next
  PROVE  BubblesOrdered'
BY OrderStep, CotOpenStep DEF BubblesOrdered, CotOpen, InOrder

-----------------------------------------------------------------------------
(* What the platform shows.                                                *)

\* How the boot comes to work on a ledger.
LEMMA BootEntry ==
  ASSUME Next
  PROVE  /\ at' \in KitSteps => at \in KitSteps \/ (KitPending /\ UNCHANGED kitFile)
         /\ at' = "kitBump" =>
              at = "kitBump" \/ (at' = KitFailed /\ UNCHANGED kitFile)
         /\ at' = "cotBump" => at = "cotBump" \/ (cotFile # None /\ UNCHANGED cotFile)
         /\ at' = "cardBump" => at = "cardBump" \/ (cardFile # None /\ UNCHANGED cardFile /\ Fault)
<1> USE DEF KitSteps
<1>1. CASE \/ \E kit \in BOOLEAN : StartTurn(kit)
           \/ OpenCard \/ SayNoCard \/ OpenKit \/ RecordKit \/ RecordCard \/ StreamKit \/ EndRun \/ Throw
  BY <1>1 DEF StartTurn, OpenCard, SayNoCard, OpenKit, RecordKit, RecordCard, StreamKit, EndRun, Throw
<1>2. CASE FinalKit \/ MarkKit \/ LateStart \/ LateRecord \/ AgainFinal \/ AgainMark \/ AgainPost
  BY <1>2 DEF FinalKit, MarkKit, LateStart, LateRecord, AgainFinal, AgainMark, AgainPost, Unposted
<1>3. CASE LatePost \/ FinalCard \/ DropCard \/ Handled \/ Release
  BY <1>3 DEF LatePost, FinalCard, DropCard, Handled, Release, Unshown
<1>4. CASE FailKit \/ DropKit \/ FailStart \/ FailCard \/ FailPost \/ SaidMark
  BY <1>4 DEF FailKit, DropKit, FailStart, FailCard, FailPost, SaidMark
<1>5. CASE CreateBubble \/ Boot \/ Crash
  BY <1>5 DEF CreateBubble, Boot, Crash, Cards
<1>6. ASSUME NEW k \in Turns, LateCommit(k) \/ ReadCot(k) \/ DropCot(k) \/ WriteState(k) \/ ChildDies(k)
      PROVE  at' = at
  BY <1>6 DEF LateCommit, ReadCot, DropCot, WriteState, ChildDies, Cards
<1>7. ASSUME NEW k \in Turns, BubbleMade(k) \/ WriteCot(k) \/ CompleteBubble(k) PROVE at' = at
  BY <1>7 DEF BubbleMade, WriteCot, CompleteBubble, Cards
<1>8. CASE BootCot \/ BootKit \/ BootCard
  BY <1>8 DEF BootCot, BootKit, KitFailed, BootCard, files
<1>9. CASE \/ BootCotDrop \/ BootKitDrop \/ CapCard \/ CapPost \/ CapMark \/ BootKitMark \/ BootBump
           \/ BootCardDrop
  BY <1>9 DEF BootCotDrop, BootKitDrop, CapCard, CapPost, CapMark, BootKitMark, KitFailed, BootBump,
     BootCardDrop, files
<1> QED
  BY <1>1, <1>2, <1>3, <1>4, <1>5, <1>6, <1>7, <1>8, <1>9 DEF Next

\* While the boot works on cardkit.json nobody else writes it.
LEMMA KitSteady ==
  ASSUME RecFollows, at \in KitSteps, at' \in KitSteps, Next
  PROVE  UNCHANGED kitFile
<1>1. ~StreamsNow /\ ~SettlesKit /\ ~Retries /\ ~GivesUp
  BY DEF StreamsNow, SettlesKit, Retries, GivesUp, KitSteps
<1>2. ~CommitsLate
  BY DEF CommitsLate, RecFollows, Reset
<1> QED
  BY <1>1, <1>2, KitStep

\* What the boot has found stays while it works on it.
LEMMA FoundStep ==
  ASSUME Found, RecFollows, BubbleType, Next
  PROVE  Found'
<1>1. ASSUME at' \in KitSteps PROVE kitFile' # None /\ kitFile'.status = "streaming"
  <2>1. CASE at \in KitSteps
    BY <1>1, <2>1, KitSteady DEF Found
  <2>2. CASE at \notin KitSteps
    BY <1>1, <2>2, BootEntry DEF KitPending
  <2> QED
    BY <2>1, <2>2
<1>2. ASSUME at' = "cotBump" PROVE cotFile' # None
  <2>1. CASE at = "cotBump"
    <3>1. \A k \in Turns : ~DropCot(k) /\ ~WriteCot(k)
      BY <2>1 DEF Found, Reset, DropCot, WriteCot, NoBubble
    <3> QED
      BY <1>2, <2>1, <3>1, CotStep DEF Found
  <2>2. CASE at # "cotBump"
    BY <1>2, <2>2, BootEntry
  <2> QED
    BY <2>1, <2>2
<1>3. ASSUME at' = "cardBump" PROVE cardFile' # None
  BY <1>3, BootEntry, CardStep DEF Found
<1>4. ASSUME at' \in Reset, NEW k \in Turns PROVE bubble'[k] = [NoBubble EXCEPT !.at = "lost"]
  <2>1. CASE Crash
    BY <2>1 DEF Crash
  <2>2. CASE at \in Reset /\ ~Crash
    <3>1. bubble[k] = [NoBubble EXCEPT !.at = "lost"] /\ ~CreateBubble
      BY <2>2 DEF Found, CreateBubble, Reset, KitSteps
    <3>2. ASSUME NEW j \in Turns
          PROVE  ~BubbleMade(j) /\ ~WriteCot(j) /\ ~CompleteBubble(j) /\ ~ReadCot(j) /\ ~DropCot(j)
      <4>1. bubble[j] = [NoBubble EXCEPT !.at = "lost"]
        BY <2>2 DEF Found
      <4> QED
        BY <4>1 DEF NoBubble, BubbleMade, WriteCot, CompleteBubble, ReadCot, DropCot
    <3> QED
      BY <2>2, <3>1, <3>2, BubbleStep
  <2>3. at \in Reset \/ Crash
    <3>1. at' # "open"
      BY <1>4 DEF Reset, KitSteps
    <3>2. ~(\E kit \in BOOLEAN : StartTurn(kit)) /\ ~OpenKit
      BY <3>1 DEF StartTurn, OpenKit
    <3> QED
      BY <1>4, <3>1, <3>2, OpenStep
  <2> QED
    BY <2>1, <2>2, <2>3
<1> QED
  BY <1>1, <1>2, <1>3, <1>4 DEF Found

\* Never the answer of an earlier turn, unless its agent is a stray.
Timely(k, what) ==
  /\ what \in [is : Kinds, of : Nat]
  /\ what.is = "answer" => what.of >= k \/ what.of \in strays
ShowsTimely == \E kind, k, what : Timely(k, what) /\ Show(<<kind, k>>, what)

LEMMA Words ==
  \A k : Timely(k, Open) /\ Timely(k, Failed) /\ Timely(k, Cut)
BY DEF Timely, Open, Failed, Cut, Kinds

LEMMA ShownStep ==
  ASSUME Counts, FileType, Found, CardDated, KitDated, RunDated, Next
  PROVE  UNCHANGED shown \/ ShowsTimely
<1>0. ASSUME NEW kind, NEW k, \/ Show(<<kind, k>>, Open) \/ Show(<<kind, k>>, Failed)
      PROVE  ShowsTimely
  BY <1>0, Words DEF ShowsTimely
<1>a. ASSUME at \in {"kit", "againFinal", "card"} PROVE Timely(n, Reply)
  <2>1. n \in Nat /\ state.turn \in Nat
    BY SurfacesAssumption DEF Counts
  <2>2. CASE state.count > h.since
    <3>1. n <= state.turn \/ state.turn \in strays
      BY <1>a, <2>2 DEF RunDated, After, Resting, Reset, KitSteps
    <3> QED
      BY <2>1, <2>2, <3>1 DEF Timely, Reply, Answer, Kinds
  <2>3. CASE ~(state.count > h.since)
    BY <2>1, <2>3 DEF Timely, Reply, Answer, Kinds
  <2> QED
    BY <2>2, <2>3
<1>1. CASE \E kit \in BOOLEAN : StartTurn(kit)
  BY <1>1 DEF StartTurn
<1>2. CASE SayNoCard \/ RecordKit \/ RecordCard \/ StreamKit \/ EndRun \/ Throw
  BY <1>2 DEF SayNoCard, RecordKit, RecordCard, StreamKit, EndRun, Throw
<1>3. CASE OpenCard \/ OpenKit \/ LateStart
  BY <1>0, <1>3 DEF OpenCard, OpenKit, LateStart
<1>4. CASE FinalKit \/ AgainFinal \/ FinalCard
  BY <1>a, <1>4 DEF FinalKit, AgainFinal, FinalCard, ShowsTimely
<1>5. CASE MarkKit \/ LateRecord \/ AgainMark \/ AgainPost \/ LatePost \/ DropCard \/ Handled \/ Release
  BY <1>5 DEF MarkKit, LateRecord, AgainMark, AgainPost, LatePost, DropCard, Handled, Release
<1>6. CASE FailKit \/ FailStart \/ FailCard
  BY <1>0, <1>6 DEF FailKit, FailStart, FailCard
<1>7. CASE DropKit \/ FailPost \/ SaidMark \/ CreateBubble \/ Crash \/ Boot
  BY <1>7 DEF DropKit, FailPost, SaidMark, CreateBubble, Crash, Boot
<1>8. ASSUME NEW k \in Turns, \/ LateCommit(k) \/ WriteCot(k) \/ ReadCot(k) \/ DropCot(k)
                              \/ WriteState(k) \/ ChildDies(k)
      PROVE  UNCHANGED shown
  BY <1>8 DEF LateCommit, WriteCot, ReadCot, DropCot, WriteState, ChildDies
<1>9. ASSUME NEW k \in Turns, BubbleMade(k) PROVE UNCHANGED shown \/ ShowsTimely
  BY <1>0, <1>9 DEF BubbleMade
<1>10. ASSUME NEW k \in Turns, CompleteBubble(k) PROVE UNCHANGED shown \/ ShowsTimely
  <2>1. Timely(k, Answer(k))
    BY DEF Timely, Answer, Kinds, Turns
  <2> QED
    BY <1>10, <2>1 DEF CompleteBubble, ShowsTimely
<1>11. CASE BootCot
  BY <1>0, <1>11 DEF BootCot
<1>12. CASE \/ BootCotDrop \/ BootKitDrop \/ CapCard \/ CapPost \/ CapMark \/ BootKitMark \/ BootBump
            \/ BootCardDrop
  BY <1>12 DEF BootCotDrop, BootKitDrop, CapCard, CapPost, CapMark, BootKitMark, BootBump, BootCardDrop
<1>13. CASE BootKit
  <2>1. ASSUME KitPending PROVE Timely(kitFile.turn, Says(kitFile))
    <3>1. /\ kitFile.since < state.count => kitFile.turn <= state.turn \/ state.turn \in strays
          /\ kitFile.turn \in Nat
          /\ kitFile.since \in Nat /\ state.count \in Nat /\ state.turn \in Nat
      BY <2>1 DEF KitPending, KitDated, FileType, KitRecs, Counts, After
    <3>2. CASE kitFile.since < state.count
      <4>1. Says(kitFile) = Answer(state.turn)
        BY <3>1, <3>2 DEF Says, Fresh
      <4> QED
        BY <3>1, <3>2, <4>1 DEF Answer, Timely, Kinds
    <3>3. CASE ~(kitFile.since < state.count)
      BY <3>1, <3>3, Words DEF Says, Fresh
    <3> QED
      BY <3>2, <3>3
  <2> QED
    BY <1>13, <2>1 DEF BootKit, ShowsTimely
<1>14. CASE BootCard
  <2>1. ASSUME cardFile # None PROVE Timely(cardFile.turn, Says(cardFile))
    <3>1. /\ cardFile.since < state.count => cardFile.turn <= state.turn \/ state.turn \in strays
          /\ cardFile.turn \in Nat
          /\ cardFile.since \in Nat /\ state.count \in Nat /\ state.turn \in Nat
      BY <2>1 DEF CardDated, FileType, CardRecs, Counts, After
    <3>2. CASE cardFile.since < state.count
      <4>1. Says(cardFile) = Answer(state.turn)
        BY <3>1, <3>2 DEF Says, Fresh
      <4> QED
        BY <3>1, <3>2, <4>1 DEF Answer, Timely, Kinds
    <3>3. CASE ~(cardFile.since < state.count)
      BY <3>1, <3>3, Words DEF Says, Fresh
    <3> QED
      BY <3>2, <3>3
  <2> QED
    BY <1>14, <2>1 DEF BootCard, ShowsTimely
<1> QED
  BY <1>1, <1>2, <1>3, <1>4, <1>5, <1>6, <1>7, <1>8, <1>9, <1>10, <1>11, <1>12, <1>13, <1>14 DEF Next

LEMMA NoOldAnswerStep ==
  ASSUME Counts, FileType, ShownType, Found, CardDated, KitDated, RunDated, NoOldAnswer, Next
  PROVE  ShownType' /\ NoOldAnswer'
<1>0. strays \subseteq strays'
  BY ClockStep
<1>1. CASE UNCHANGED shown
  BY <1>0, <1>1 DEF ShownType, NoOldAnswer
<1>2. ASSUME NEW kind, NEW k, NEW what, Timely(k, what), Show(<<kind, k>>, what)
      PROVE  ShownType' /\ NoOldAnswer'
  <2>1. ShownType'
    BY <1>2 DEF ShownType, Show, Timely
  <2>2. ASSUME NEW s \in Surfaces, shown'[s].is = "answer"
        PROVE  shown'[s].of >= s[2] \/ shown'[s].of \in strays'
    <3>1. CASE s = <<kind, k>>
      BY <1>0, <1>2, <2>2, <3>1 DEF Show, ShownType, Timely
    <3>2. CASE s # <<kind, k>>
      BY <1>0, <1>2, <2>2, <3>2 DEF Show, ShownType, NoOldAnswer
    <3> QED
      BY <3>1, <3>2
  <2> QED
    BY <2>1, <2>2 DEF NoOldAnswer
<1> QED
  BY <1>1, <1>2, ShownStep DEF ShowsTimely

-----------------------------------------------------------------------------
(* The inductive invariant.                                                *)

IInv == /\ Types /\ Started /\ Found /\ Strayed /\ CardDated /\ KitDated /\ RecDated
        /\ RunDated /\ RecFollows /\ RecFallen /\ BubblesOrdered /\ NoOldAnswer

LEMMA InitIInv == Init => IInv
<1> SUFFICES ASSUME Init PROVE IInv
  OBVIOUS
<1>1. Types
  BY InitTypes
<1>2. Started /\ Found /\ Strayed /\ RunDated
  BY DEF Init, Started, Resting, Found, Reset, KitSteps, Strayed, RunDated
<1>3. CardDated /\ KitDated /\ RecDated /\ RecFollows /\ RecFallen
  BY DEF Init, CardDated, KitDated, RecDated, RecFollows, RecFallen, NoRecord, Reset, KitSteps
<1>4. BubblesOrdered
  BY DEF Init, BubblesOrdered, NoBubble
<1>5. NoOldAnswer
  BY DEF Init, NoOldAnswer, Blank
<1> QED
  BY <1>1, <1>2, <1>3, <1>4, <1>5 DEF IInv

LEMMA NextIInv == IInv /\ [Next]_vars => IInv'
<1>1. ASSUME IInv, Next PROVE IInv'
  <2>1. Counts' /\ HandleType' /\ RecType' /\ FileType' /\ BubbleType'
    <3>1. state.count \in Nat
      BY <1>1 DEF IInv, Types, Counts
    <3> QED
      BY <1>1, <3>1, CountsStep, HandleStep, RecTypeStep, FileTypeStep, BubbleTypeStep DEF IInv, Types
  <2>2. ShownType' /\ NoOldAnswer'
    BY <1>1, NoOldAnswerStep DEF IInv, Types
  <2>3. Started' /\ Found' /\ RecFollows' /\ RecFallen'
    BY <1>1, StartedStep, FoundStep, RecFollowsStep, RecFallenStep DEF IInv, Types
  <2>4. CardDated' /\ KitDated' /\ RecDated' /\ BubblesOrdered'
    BY <1>1, CardDatedStep, KitDatedStep, RecDatedStep, BubblesOrderedStep DEF IInv, Types
  <2>5. Strayed' /\ RunDated'
    BY <1>1, StrayedStep, RunDatedStep DEF IInv, Types
  <2> QED
    BY <2>1, <2>2, <2>3, <2>4, <2>5 DEF IInv, Types
<1>2. ASSUME IInv, UNCHANGED vars PROVE IInv'
  <2> USE <1>2 DEF vars, files, IInv
  <2>1. Types'
    BY DEF Types, Counts, HandleType, RecType, FileType, ShownType, BubbleType
  <2>2. Started' /\ Found' /\ Strayed'
    BY DEF Started, Found, Strayed
  <2>4. CardDated' /\ KitDated' /\ RecDated' /\ RunDated'
    BY DEF CardDated, KitDated, RecDated, RunDated, After
  <2>3. RecFollows' /\ RecFallen' /\ BubblesOrdered' /\ NoOldAnswer'
    BY DEF RecFollows, RecFallen, BubblesOrdered, NoOldAnswer
  <2> QED
    BY <2>1, <2>2, <2>3, <2>4
<1> QED
  BY <1>1, <1>2

\* The invariant of every behaviour, which the theorems below rest on.
THEOREM SurfacesInvariant == Spec => []IInv
BY InitIInv, NextIInv, PTL DEF Spec

\* Whatever crashes, fails or is retried, no card or bubble shows the answer of
\* an earlier turn, except of one whose agent outlived a crash into a later turn:
\* a boot trusts state.json only when it is newer than the ledger
\* (isStateFreshForCard), and nothing dates a ledger later than its turn.
THEOREM NeverAnOldAnswer == Spec => []NoOldAnswer
BY SurfacesInvariant, PTL DEF IInv

\* cot.json never outlives the bubble it names, however slow the write was and
\* however early the bubble ended (cotPersistWriteSettled), unless the file could
\* not be removed.
THEOREM NoLedgerOutlivesItsBubble == Spec => []NoStaleLedger
<1>1. IInv => NoStaleLedger
  <2> SUFFICES ASSUME IInv, cotFile # None PROVE bubble[cotFile.turn].end # "gone"
    BY DEF NoStaleLedger
  <2>1. cotFile.turn \in Turns
    BY DEF IInv, Types, FileType, CotRecs
  <2> QED
    BY <2>1 DEF IInv, BubblesOrdered
<1> QED
  BY <1>1, SurfacesInvariant, PTL

\* A settled CardKit ledger is never a streaming one again: not
\* by a late commit of its own turn, and not by a boot.
THEOREM AFallbackIsFinal == Spec => FallbackStays
<1> DEFINE Keeps == kitFile # None /\ kitFile.status # "streaming" /\ kitFile' # None
                      /\ kitFile'.turn = kitFile.turn => kitFile'.status # "streaming"
<1>1. IInv /\ [Next]_vars => [Keeps]_vars
  <2> SUFFICES ASSUME IInv, Next, kitFile # None, kitFile.status # "streaming",
                      kitFile' # None, kitFile'.turn = kitFile.turn
               PROVE  kitFile'.status # "streaming"
    OBVIOUS
  <2>1. ~StreamsNow
    BY DEF StreamsNow, IInv, RecFollows, RecFallen, KitRec
  <2>2. ~CommitsLate
    BY DEF CommitsLate, IInv, RecFallen, KitRec
  <2>3. ~Retries /\ ~GivesUp
    BY DEF Retries, GivesUp, IInv, Found, KitSteps
  <2>4. SettlesKit => kitFile'.status # "streaming"
    BY DEF SettlesKit, KitRec
  <2> QED
    BY <2>1, <2>2, <2>3, <2>4, KitStep
<1> QED
  BY <1>1, SurfacesInvariant, PTL DEF Spec, FallbackStays

-----------------------------------------------------------------------------
(* What lets a ledger go, and how many failures it takes to tell nobody.   *)

Wordless == {"absent", "open"}
FailSteps == {"failKit", "failKitDrop", "failStart", "failCard", "failPost", "failDrop"}

\* A ledger names a turn, and has attempts left while it is there.
Named ==
  /\ kitFile # None => kitFile.turn \in Turns
  /\ cardFile # None => cardFile.turn \in Turns /\ cardFile.retry <= RetryCap
  /\ at = "kitBump" => kitFile.retry + 1 <= RetryCap

\* A step that drops a ledger has shown its card's end.
DropsShown ==
  /\ at \in {"kitMark", "kitDrop"} => shown[<<"kit", n>>].is \notin Wordless
  /\ at \in {"againMark", "againDrop"} => shown[<<"late", n>>].is \notin Wordless
  /\ at \in {"saidMark", "saidCard", "saidKit"} => n \in told
  /\ at \in {"card", "cardDrop", "lateRec"} => h.card \in {"card", "late"}
  /\ at = "cardDrop" => shown[<<h.card, n>>].is \notin Wordless
  /\ at \in FailSteps => settled[n] = "released"
  /\ at = "kitBootMark" => shown[<<"kit", kitFile.turn>>].is \notin Wordless
  /\ at = "kitBootDrop" => ~Unsettled("kit")
  /\ at \in {"capMark", "postMark"} => kitFile.turn \in told
  /\ at = "cardBootDrop" =>
       cardFile # None /\ shown[<<cardFile.what, cardFile.turn>>].is \notin Wordless

\* The steps that only a turn with a CardKit card takes.
WithKit == {"kit", "kitMark", "again", "againRec", "againFinal", "againMark", "againPost", "failKit"}

Settles ==
  /\ settled \in [Turns -> {"no", "handled", "released"}]
  /\ \A k \in Turns : k > n => settled[k] = "no"
  /\ \A k \in Turns : k = n /\ settled[k] = "handled" => at \in Resting
  /\ at \in WithKit => h.kit
  /\ at \in {"late", "lateRec", "latePost"} => ~h.kit
  /\ at \notin Resting /\ h.kit => kitRec[n].status # "none"
  /\ \A k \in salvage : k \in Turns /\ kitRec[k].status # "none"

Told(k) == Answered(k) \/ k \in told
KitKept  == kitFile # None /\ kitFile.status = "streaming" /\ kitFile.turn = n
CardKept == cardFile # None /\ cardFile.turn = n
\* A salvage of an earlier turn that may still write over the ledger.
OldSalvage == \E k \in salvage : k < n /\ kitRec[k].status = "streaming"

\* The failures that led here, at the least, since the CardKit card was opened.
Failures ==
  IF at \in {"open", "kit", "kitMark"} THEN 0
  ELSE IF at \in {"again", "againRec", "againFinal", "againMark"} THEN 1 ELSE 2

OnKit ==
  \/ at \in {"kit", "kitMark", "again", "againRec", "againFinal", "againMark", "againPost"}
  \/ at = "open" /\ h.kit /\ lane # "record"

\* Where a turn may be whose salvage still has a call in flight.
LateSteps ==
  {"again", "againRec", "againFinal", "againMark", "againPost", "saidMark", "saidCard", "saidKit",
   "done", "idle", "failStart", "failCard", "failPost", "failDrop"}

TallyAll ==
  /\ budget.faults <= 4 /\ (OldSalvage => budget.faults <= 2)
  /\ at \in {"failing", "failKit"} => budget.faults <= 3
TallyKit ==
  OnKit =>
    /\ budget.faults + Failures <= 4 /\ (OldSalvage => budget.faults + Failures <= 2)
    /\ ~KitKept => budget.faults + Failures <= 3
    /\ ~KitKept /\ ~CardKept /\ ~(at = "open" /\ lane \in {"instead", "ledger"}) =>
         budget.faults + Failures <= 2
TallyDone ==
  \A k \in Turns : k = n /\ (at = "done" \/ settled[k] = "handled") =>
    \/ Told(n)
    \/ /\ KitKept \/ (CardKept /\ budget.faults = 0 /\ at # "cardBump")
       /\ ~OldSalvage /\ budget.faults <= 1
TallySalvage ==
  \A k \in salvage : k = n /\ kitRec[k].status = "streaming" =>
    at \in LateSteps /\ budget.faults + Failures <= 4
Tally == TallyAll /\ TallyKit /\ TallyDone /\ TallySalvage

LEMMA Placed ==
  ASSUME IInv, at \notin Resting
  PROVE  n \in Turns
BY SurfacesAssumption DEF IInv, Types, Counts, Started, Turns

LEMMA NamedStep ==
  ASSUME IInv, Named, Next
  PROVE  Named'
<1>1. at \notin Resting => n \in Turns
  BY Placed
<1>2. cardFile' # None => cardFile'.turn \in Turns /\ cardFile'.retry <= RetryCap
  <2>1. ASSUME cardFile' \in {CardRec("card"), CardRec("late")}, at \in {"open", "againRec", "lateRec"}
        PROVE  cardFile'.turn \in Turns /\ cardFile'.retry <= RetryCap
    BY <1>1, <2>1, SurfacesAssumption DEF CardRec, Resting, Reset, KitSteps
  <2>2. ASSUME at = "cardBump", cardFile' = Tried(cardFile), cardFile' # None
        PROVE  cardFile # None /\ cardFile'.turn = cardFile.turn /\ cardFile'.retry <= RetryCap
    <3>1. cardFile \in CardRecs /\ cardFile # None
      BY <2>2 DEF IInv, Types, FileType, Found
    <3> QED BY <2>2, <3>1, SurfacesAssumption DEF Tried, CardRecs
  <2> QED BY <2>1, <2>2, CardStep DEF Named
<1>3. kitFile' # None => kitFile'.turn \in Turns
  <2>1. StreamsNow \/ SettlesKit => kitFile'.turn \in Turns
    BY <1>1 DEF StreamsNow, SettlesKit, KitRec, Resting, Reset, KitSteps
  <2>2. CommitsLate => kitFile'.turn \in Turns
    BY DEF CommitsLate, KitRec
  <2>3. ASSUME Retries \/ GivesUp, kitFile' # None PROVE kitFile'.turn \in Turns
    <3>1. kitFile \in KitRecs /\ kitFile # None
      BY <2>3 DEF IInv, Types, FileType, Retries, GivesUp, Found, KitSteps
    <3> QED BY <2>3, <3>1 DEF Retries, GivesUp, Tried, KitRecs, Named
  <2> QED BY <2>1, <2>2, <2>3, KitStep DEF Named
<1>4. ASSUME at' = "kitBump" PROVE kitFile'.retry + 1 <= RetryCap
  <2>1. CASE at = "kitBump"
    BY <1>4, <2>1, KitSteady DEF Named, KitSteps, IInv
  <2>2. CASE at' = KitFailed /\ UNCHANGED kitFile
    <3>1. kitFile \in KitRecs
      BY <1>4, <2>2, FoundStep DEF IInv, Types, FileType, Found, KitSteps
    <3> QED BY <1>4, <2>2, <3>1, SurfacesAssumption DEF KitFailed, KitRecs
  <2> QED BY <1>4, <2>1, <2>2, BootEntry
<1> QED BY <1>2, <1>3, <1>4 DEF Named

LEMMA DropsShownStep ==
  ASSUME IInv, Named, Settles, DropsShown, Next
  PROVE  DropsShown'
<1>0. /\ h \in Handles
      /\ shown \in [Surfaces -> [is : Kinds, of : Nat]]
      /\ at \notin Resting => n \in Turns
  BY Placed DEF IInv, Types, HandleType, ShownType
<1>a. ASSUME NEW k \in Turns, NEW kind \in {"card", "late", "kit"} PROVE <<kind, k>> \in Surfaces
  BY <1>a DEF Surfaces
<1>b. ASSUME NEW s \in Surfaces, NEW what, Show(s, what)
      PROVE  shown'[s] = what /\ \A r \in Surfaces : r # s => shown'[r] = shown[r]
  BY <1>0, <1>b DEF Show
<1>c. Reply.is = "answer"
  BY DEF Reply, Answer
<1>d. at = "kitBootDrop" => ~CommitsLate
  BY DEF CommitsLate, IInv, RecFollows, Reset
<1> USE DEF DropsShown, Wordless, FailSteps
<1>1. ASSUME at' \in {"idle", "open", "done", "failing", "again", "againRec", "againFinal", "againPost",
                      "late", "latePost", "kit", "down", "cot", "cotDrop", "cotBump", "kitBoot",
                      "kitBump", "kitCap", "capFinal", "capPost", "cardBoot", "cardBump"}
      PROVE  DropsShown'
  BY <1>1
<1>2. CASE \/ \E kit \in BOOLEAN : StartTurn(kit)
           \/ OpenCard \/ SayNoCard \/ OpenKit \/ RecordKit \/ StreamKit \/ RecordCard \/ Throw
  BY <1>1, <1>2 DEF StartTurn, OpenCard, SayNoCard, OpenKit, RecordKit, StreamKit, RecordCard, Throw
<1>3. CASE EndRun
  BY <1>0, <1>3 DEF EndRun, Handles
<1>4. CASE FinalKit
  <2>1. CASE Fine /\ Show(<<"kit", n>>, Reply) /\ at' = "kitMark" /\ UNCHANGED salvage
    <3>1. n \in Turns /\ n' = n
      BY <1>0, <1>4 DEF FinalKit, Resting, Reset, KitSteps
    <3> QED BY <1>a, <1>b, <1>c, <2>1, <3>1
  <2>2. CASE at' = "again"
    BY <1>1, <2>2
  <2> QED BY <1>4, <2>1, <2>2 DEF FinalKit
<1>5. CASE MarkKit \/ AgainMark
  BY <1>1, <1>5 DEF MarkKit, AgainMark, Main
<1>6. CASE LateStart \/ LateRecord
  BY <1>0, <1>1, <1>6 DEF LateStart, LateRecord, Main, Handles
<1>7. CASE AgainFinal
  <2>1. CASE Fine /\ Show(<<"late", n>>, Reply) /\ at' = "againMark"
    <3>1. n \in Turns /\ n' = n
      BY <1>0, <1>7 DEF AgainFinal, Resting, Reset, KitSteps, Main
    <3> QED BY <1>a, <1>b, <1>c, <2>1, <3>1
  <2>2. CASE at' = "againPost"
    BY <1>1, <2>2
  <2> QED BY <1>7, <2>1, <2>2 DEF AgainFinal
<1>8. CASE AgainPost \/ SaidMark
  BY <1>1, <1>8 DEF AgainPost, Unposted, SaidMark, Main
<1>9. CASE LatePost \/ Handled
  BY <1>1, <1>9 DEF LatePost, Unshown, Handled
<1>10. CASE FinalCard
  <2>1. CASE Fine /\ Show(<<h.card, n>>, Reply) /\ at' = "cardDrop"
    <3>1. n \in Turns /\ n' = n /\ h' = h /\ h.card \in {"card", "late"}
      BY <1>0, <1>10 DEF FinalCard, Resting, Reset, KitSteps, Main
    <3>2. shown'[<<h.card, n>>] = Reply
      BY <1>a, <1>b, <2>1, <3>1
    <3> QED BY <1>c, <2>1, <3>1, <3>2
  <2>2. CASE at' = "failing"
    BY <1>1, <2>2
  <2> QED BY <1>10, <2>1, <2>2 DEF FinalCard
<1>11. CASE DropCard
  BY <1>1, <1>11 DEF DropCard, Main
<1>12. CASE DropKit
  <2>1. n \in Turns /\ settled[n] # "handled" /\ UNCHANGED <<n, settled>>
    BY <1>0, <1>12 DEF DropKit, Resting, Reset, KitSteps, Settles, Main
  <2>2. settled[n] \in {"no", "handled", "released"}
    BY <2>1 DEF Settles
  <2> QED BY <1>1, <1>12, <2>1, <2>2 DEF DropKit
<1>13. CASE Release
  <2>1. at' \in {"failCard", "failKit", "idle", "failPost"} /\ n' = n /\ settled' = [settled EXCEPT ![n] = "released"]
    BY <1>13 DEF Release
  <2>2. settled'[n] = "released"
    BY <1>0, <1>13, <2>1 DEF Release, Resting, Reset, KitSteps, Settles
  <2> QED BY <2>1, <2>2
<1>14. CASE FailKit \/ FailStart \/ FailCard \/ FailPost
  BY <1>14 DEF FailKit, FailStart, FailCard, FailPost, Main
<1>15. ASSUME UNCHANGED <<at, n, h, shown, told, settled, cardFile>>, \/ UNCHANGED kitFile
                                                                      \/ at \notin KitSteps \cup {"kitBootDrop"}
       PROVE  DropsShown'
  BY <1>15 DEF KitSteps, Unsettled, Ledger
<1>16. CASE CreateBubble
  BY <1>15, <1>16 DEF CreateBubble, Cards, files
<1>17. ASSUME NEW k \in Turns, \/ WriteCot(k) \/ ReadCot(k) \/ DropCot(k) \/ WriteState(k)
                               \/ ChildDies(k)
       PROVE  DropsShown'
  BY <1>15, <1>17 DEF WriteCot, ReadCot, DropCot, WriteState, ChildDies, Cards, files, PutCot
<1>18. ASSUME NEW k \in Turns, BubbleMade(k) \/ CompleteBubble(k) PROVE DropsShown'
  <2>1. \A kind \in {"card", "late", "kit"}, j \in Turns : shown'[<<kind, j>>] = shown[<<kind, j>>]
    <3>1. UNCHANGED shown \/ \E what : Show(<<"bubble", k>>, what)
      BY <1>18 DEF BubbleMade, CompleteBubble
    <3>2. <<"bubble", k>> \in Surfaces
      BY DEF Surfaces
    <3> QED BY <1>a, <1>b, <3>1, <3>2
  <2>2. UNCHANGED <<at, n, h, told, settled, cardFile, kitFile>>
    BY <1>18 DEF BubbleMade, CompleteBubble, Cards, files
  <2>3. at = "cardBootDrop" => cardFile.what \in {"card", "late"} /\ cardFile.turn \in Turns
    BY DEF IInv, Types, FileType, CardRecs, Named
  <2>4. at = "kitBootMark" => kitFile.turn \in Turns
    BY DEF Named, IInv, Found, KitSteps
  <2> QED BY <1>0, <2>1, <2>2, <2>3, <2>4 DEF Resting, Reset, KitSteps, Unsettled, Ledger
<1>19. ASSUME NEW k \in Turns, LateCommit(k) PROVE DropsShown'
  <2>1. UNCHANGED <<at, n, h, shown, told, settled>> /\ Commit(k)
    BY <1>19 DEF LateCommit
  <2>2. cardFile' = cardFile /\ (at \in KitSteps \cup {"kitBootDrop"} => kitFile' = kitFile)
    BY <2>1 DEF Commit, PutKit, files, IInv, RecFollows, Reset
  <2> QED BY <1>15, <2>1, <2>2
<1>20. CASE Crash \/ Boot
  BY <1>1, <1>20 DEF Crash, Boot
<1>21. CASE BootCot \/ BootCotDrop \/ BootBump \/ BootKitDrop \/ CapPost \/ BootCardDrop
  <2>1. CASE CapPost
    BY <1>1, <2>1 DEF CapPost, files
  <2> QED BY <1>1, <1>21, <2>1 DEF BootCot, BootCotDrop, BootBump, BootKitDrop, BootCardDrop
<1>22. CASE CapCard
  BY <1>1, <1>22 DEF CapCard, files
<1>23. CASE CapMark
  BY <1>1, <1>23 DEF CapMark
<1>24. CASE BootKit
  <2>1. CASE at' \in {"cardBoot", "kitBump", "kitCap"}
    BY <1>1, <2>1
  <2>2. CASE /\ KitPending /\ Show(<<"kit", kitFile.turn>>, Says(kitFile)) /\ at' = "kitBootMark"
             /\ UNCHANGED files
    <3>1. kitFile # None /\ kitFile.turn \in Turns
      BY <2>2 DEF KitPending, Named
    <3>2. kitFile' = kitFile /\ Says(kitFile).is \notin Wordless
      BY <2>2 DEF files, Says, Answer, Cut
    <3> QED BY <1>a, <1>b, <2>2, <3>1, <3>2
  <2> QED BY <1>24, <2>1, <2>2 DEF BootKit, KitFailed
<1>25. CASE BootKitMark
  <2>1. CASE at' \in {"kitBump", "kitCap"}
    BY <1>1, <2>1
  <2>2. CASE KitEnds("finalized", kitFile.retry) /\ at' = "kitBootDrop"
    BY <2>2 DEF KitEnds, PutKit, Unsettled, Ledger
  <2> QED BY <1>25, <2>1, <2>2 DEF BootKitMark, KitFailed
<1>26. CASE BootCard
  <2>1. CASE at' \in {"idle", "cardBump"}
    BY <1>1, <2>1
  <2>2. CASE /\ cardFile # None /\ Show(<<cardFile.what, cardFile.turn>>, Says(cardFile))
             /\ at' = "cardBootDrop" /\ UNCHANGED files
    <3>1. cardFile # None /\ cardFile.turn \in Turns /\ cardFile.what \in {"card", "late"}
      BY <2>2 DEF Named, IInv, Types, FileType, CardRecs
    <3>2. cardFile' = cardFile /\ Says(cardFile).is \notin Wordless
      BY <2>2 DEF files, Says, Answer, Cut
    <3>3. shown'[<<cardFile.what, cardFile.turn>>] = Says(cardFile)
      BY <1>a, <1>b, <2>2, <3>1
    <3> QED BY <2>2, <3>1, <3>2, <3>3
  <2> QED BY <1>26, <2>1, <2>2 DEF BootCard
<1> QED
  BY <1>2, <1>3, <1>4, <1>5, <1>6, <1>7, <1>8, <1>9, <1>10, <1>11, <1>12, <1>13, <1>14, <1>16,
     <1>17, <1>18, <1>19, <1>20, <1>21, <1>22, <1>23, <1>24, <1>25, <1>26 DEF Next

\* The steps that let a ledger go.
LEMMA LedgerGone ==
  ASSUME IInv, Named, Next
  PROVE  /\ cardFile # None /\ cardFile' = None =>
              DropCard \/ BootCardDrop \/ (at = "cardBump" /\ cardFile.retry = RetryCap)
         /\ Unsettled("kit") /\ ~Unsettled("kit")' =>
              MarkKit \/ AgainMark \/ SaidMark \/ DropKit \/ BootKitDrop \/ BootKitMark \/ CapMark
<1>0. CardRec("card") # None /\ CardRec("late") # None
      /\ (\A k \in Turns : KitRec(k, "streaming") # None)
  <2>1. CardRec("card") \in CardRecs /\ CardRec("late") \in CardRecs
    BY DEF CardRec, CardRecs, IInv, Types, Counts
  <2>2. \A k \in Turns : KitRec(k, "streaming") \in KitRecs
    BY DEF KitRec, KitRecs, IInv, Types, RecType, Turns
  <2> QED BY <2>1, <2>2, SurfacesAssumption DEF CardRecs, KitRecs
<1>p. at \notin Resting => n \in Turns
  BY Placed
<1> USE DEF PutCard, PutKit, PutCot, files, Unsettled, Ledger
<1>1. CASE \E kit \in BOOLEAN : StartTurn(kit)
  BY <1>1 DEF StartTurn
<1>2. CASE OpenCard \/ SayNoCard \/ OpenKit \/ EndRun \/ Throw
  BY <1>2 DEF OpenCard, SayNoCard, OpenKit, EndRun, Throw
<1>3. CASE RecordCard \/ LateRecord
  BY <1>0, <1>3 DEF RecordCard, LateRecord
<1>4. CASE RecordKit \/ StreamKit
  BY <1>0, <1>4, <1>p DEF RecordKit, StreamKit, KitRec, Resting, Reset, KitSteps
<1>5. CASE \/ FinalKit \/ LateStart \/ AgainFinal \/ AgainPost \/ LatePost \/ FinalCard \/ Handled
           \/ Release
  BY <1>5 DEF FinalKit, LateStart, AgainFinal, AgainPost, LatePost, FinalCard, Handled, Release
<1>6. CASE FailKit \/ FailStart \/ FailCard \/ FailPost \/ CreateBubble \/ Crash \/ Boot
  BY <1>6 DEF FailKit, FailStart, FailCard, FailPost, CreateBubble, Crash, Boot
<1>7. ASSUME NEW k \in Turns, LateCommit(k)
      PROVE  cardFile' = cardFile /\ (kitFile' = kitFile \/ kitFile' = KitRec(k, "streaming"))
  BY <1>7 DEF LateCommit, Commit
<1>8. ASSUME NEW k \in Turns, \/ WriteCot(k) \/ ReadCot(k) \/ DropCot(k) \/ BubbleMade(k)
                              \/ CompleteBubble(k) \/ WriteState(k) \/ ChildDies(k)
      PROVE  UNCHANGED <<cardFile, kitFile>>
  BY <1>8 DEF WriteCot, ReadCot, DropCot, BubbleMade, CompleteBubble, WriteState, ChildDies
<1>9. CASE BootCot \/ BootCotDrop \/ BootKit \/ CapCard \/ CapPost \/ BootCard
  BY <1>9 DEF BootCot, BootCotDrop, BootKit, CapCard, CapPost, BootCard
<1>10. CASE BootBump
  <2>1. CASE at = "cotBump"
    BY <1>10, <2>1 DEF BootBump
  <2>2. CASE at = "kitBump"
    <3>1. kitFile \in KitRecs /\ kitFile.status = "streaming" /\ kitFile.retry + 1 <= RetryCap
      BY <2>2 DEF IInv, Types, FileType, Found, KitSteps, Named
    <3>2. Tried(kitFile) = [kitFile EXCEPT !.retry = @ + 1]
      BY <3>1, SurfacesAssumption DEF Tried, KitRecs
    <3>3. Tried(kitFile) \in KitRecs /\ Tried(kitFile).status = "streaming"
      BY <3>1, <3>2 DEF KitRecs
    <3>4. Tried(kitFile) # None
      BY <3>3, SurfacesAssumption DEF KitRecs
    <3> QED BY <1>10, <2>2, <3>1, <3>3, <3>4 DEF BootBump
  <2>3. CASE at = "cardBump"
    <3>1. cardFile \in CardRecs /\ cardFile.retry <= RetryCap
      BY <2>3 DEF IInv, Types, FileType, Found, Named
    <3>2. ASSUME cardFile.retry # RetryCap PROVE Tried(cardFile) # None
      <4>1. Tried(cardFile) = [cardFile EXCEPT !.retry = @ + 1]
        BY <3>1, <3>2, SurfacesAssumption DEF Tried, CardRecs
      <4>2. Tried(cardFile) \in CardRecs
        BY <3>1, <4>1 DEF CardRecs
      <4> QED BY <4>2, SurfacesAssumption DEF CardRecs
    <3> QED BY <1>10, <2>3, <3>2 DEF BootBump
  <2> QED BY <1>10, <2>1, <2>2, <2>3 DEF BootBump
<1>11. CASE \E k \in Turns : LateCommit(k)
  <2>1. \A k \in Turns : KitRec(k, "streaming").status = "streaming"
    BY DEF KitRec
  <2> QED BY <1>0, <1>7, <1>11, <2>1
<1>12. CASE MarkKit \/ AgainMark \/ SaidMark \/ DropKit \/ BootKitDrop \/ BootKitMark \/ CapMark
  BY <1>12 DEF MarkKit, AgainMark, SaidMark, DropKit, BootKitDrop, BootKitMark, CapMark, KitEnds
<1>13. CASE DropCard \/ BootCardDrop
  BY <1>13 DEF DropCard, BootCardDrop
<1> QED
  BY <1>1, <1>2, <1>3, <1>4, <1>5, <1>6, <1>8, <1>9, <1>10, <1>11, <1>12, <1>13 DEF Next

\* What excuses a ledger f of turn k that is let go.
Excused(f, k) ==
  \/ Answered(k) \/ k \in told' \/ settled[k] = "released" \/ k < n
  \/ f = "card" /\ cardFile.retry = RetryCap
Excuses ==
  \A f \in {"card", "kit"} :
    Unsettled(f) /\ shown[CardOf(f)] = Open /\ ~Unsettled(f)' => Excused(f, Ledger(f).turn)

LEMMA LedgerStep ==
  ASSUME IInv, Named, DropsShown, Next
  PROVE  Excuses
<1>1. at \in {"kitMark", "kitDrop", "againMark", "againDrop", "cardDrop"} => Answered(n)
  BY DEF DropsShown, Answered, Wordless
<1>2. Open.is \in Wordless
  BY DEF Open, Wordless
<1>3. ASSUME Unsettled("card"), shown[CardOf("card")] = Open, ~Unsettled("card")'
      PROVE  Excused("card", cardFile.turn)
  <2>1. cardFile # None /\ cardFile' = None /\ CardOf("card") = <<cardFile.what, cardFile.turn>>
    BY <1>3 DEF Unsettled, Ledger, CardOf
  <2>2. cardFile.turn <= n /\ cardFile.turn \in Turns /\ n \in Nat
    BY <2>1 DEF Named, IInv, CardDated, Types, Counts
  <2>3. cardFile.turn = n \/ cardFile.turn < n
    BY <2>2 DEF Turns
  <2>4. CASE DropCard
    <3>1. Answered(n) \/ n \in told' \/ settled[n] = "released"
      BY <1>1, <2>4 DEF DropCard, DropsShown, FailSteps
    <3> QED BY <2>3, <3>1 DEF Excused
  <2>5. CASE cardFile.retry = RetryCap
    BY <2>5 DEF Excused
  <2>6. CASE BootCardDrop
    BY <1>2, <1>3, <2>1, <2>6 DEF BootCardDrop, DropsShown
  <2> QED BY <2>1, <2>4, <2>5, <2>6, LedgerGone
<1>4. ASSUME Unsettled("kit"), shown[CardOf("kit")] = Open, ~Unsettled("kit")'
      PROVE  Excused("kit", kitFile.turn)
  <2>1. kitFile # None /\ CardOf("kit") = <<"kit", kitFile.turn>>
    BY <1>4 DEF Unsettled, Ledger, CardOf
  <2>2. kitFile.turn <= n /\ kitFile.turn \in Turns /\ n \in Nat
    BY <2>1 DEF Named, IInv, KitDated, Types, Counts
  <2>3. kitFile.turn = n \/ kitFile.turn < n
    BY <2>2 DEF Turns
  <2>4. CASE MarkKit \/ AgainMark \/ SaidMark \/ DropKit
    <3>1. Answered(n) \/ n \in told' \/ settled[n] = "released"
      BY <1>1, <2>4 DEF MarkKit, AgainMark, SaidMark, DropKit, DropsShown, FailSteps
    <3> QED BY <2>3, <3>1 DEF Excused
  <2>5. CASE BootKitDrop
    BY <1>4, <2>5 DEF BootKitDrop, DropsShown
  <2>6. CASE BootKitMark
    BY <1>2, <1>4, <2>1, <2>6 DEF BootKitMark, DropsShown
  <2>7. CASE CapMark
    BY <2>7 DEF CapMark, DropsShown, Excused
  <2> QED BY <1>4, <2>4, <2>5, <2>6, <2>7, LedgerGone
<1> QED BY <1>3, <1>4 DEF Excuses, Ledger

-----------------------------------------------------------------------------
(* Messages settle once the turn is over.                                  *)

\* What a step may do to the messages and to the salvages under way.
LEMMA SettledStep ==
  ASSUME Next
  PROVE  \/ UNCHANGED <<n, settled>>
         \/ at = "done" /\ Handled
         \/ at = "failing" /\ at' \notin {"kit"} /\ UNCHANGED n /\ settled' = [settled EXCEPT ![n] = "released"]
         \/ \E kit \in BOOLEAN : StartTurn(kit)
<1>1. CASE OpenCard \/ SayNoCard \/ OpenKit \/ RecordKit \/ RecordCard \/ StreamKit \/ EndRun \/ Throw
  BY <1>1 DEF OpenCard, SayNoCard, OpenKit, RecordKit, RecordCard, StreamKit, EndRun, Throw
<1>2. CASE FinalKit \/ MarkKit \/ LateStart \/ LateRecord \/ AgainFinal \/ AgainMark \/ AgainPost
  BY <1>2 DEF FinalKit, MarkKit, LateStart, LateRecord, AgainFinal, AgainMark, AgainPost, Main
<1>3. CASE LatePost \/ FinalCard \/ DropCard \/ Handled \/ Release
  BY <1>3 DEF LatePost, FinalCard, DropCard, Handled, Release, Main
<1>4. CASE FailKit \/ DropKit \/ FailStart \/ FailCard \/ FailPost \/ SaidMark
  BY <1>4 DEF FailKit, DropKit, FailStart, FailCard, FailPost, SaidMark, Main
<1>5. CASE CreateBubble \/ Boot \/ Crash
  BY <1>5 DEF CreateBubble, Boot, Crash, Cards
<1>6. ASSUME NEW k \in Turns, LateCommit(k) \/ ReadCot(k) \/ DropCot(k) \/ WriteState(k) \/ ChildDies(k)
      PROVE  UNCHANGED <<n, settled>>
  BY <1>6 DEF LateCommit, ReadCot, DropCot, WriteState, ChildDies, Cards
<1>7. ASSUME NEW k \in Turns, BubbleMade(k) \/ WriteCot(k) \/ CompleteBubble(k)
      PROVE  UNCHANGED <<n, settled>>
  BY <1>7 DEF BubbleMade, WriteCot, CompleteBubble, Cards
<1>8. CASE \/ BootCot \/ BootCotDrop \/ BootKit \/ BootKitDrop \/ CapCard \/ CapPost \/ CapMark
           \/ BootKitMark \/ BootBump \/ BootCard \/ BootCardDrop
  BY <1>8 DEF BootCot, BootCotDrop, BootKit, BootKitDrop, CapCard, CapPost, CapMark, BootKitMark,
     BootBump, BootCard, BootCardDrop, Booting
<1> QED BY <1>1, <1>2, <1>3, <1>4, <1>5, <1>6, <1>7, <1>8 DEF Next

LEMMA SalvageStep ==
  ASSUME Next
  PROVE  salvage' \subseteq salvage \/ ((FinalKit \/ FailKit) /\ salvage' = salvage \cup {n})
<1>1. CASE \/ OpenCard \/ SayNoCard \/ OpenKit \/ RecordKit \/ RecordCard \/ StreamKit \/ EndRun
           \/ Throw
           \/ \E kit \in BOOLEAN : StartTurn(kit)
  BY <1>1 DEF OpenCard, SayNoCard, OpenKit, RecordKit, RecordCard, StreamKit, EndRun, Throw, StartTurn
<1>2. CASE MarkKit \/ LateStart \/ LateRecord \/ AgainFinal \/ AgainMark \/ AgainPost
  BY <1>2 DEF MarkKit, LateStart, LateRecord, AgainFinal, AgainMark, AgainPost, Main, Aside
<1>3. CASE LatePost \/ FinalCard \/ DropCard \/ Handled \/ Release
  BY <1>3 DEF LatePost, FinalCard, DropCard, Handled, Release, Main, Aside
<1>4. CASE DropKit \/ FailStart \/ FailCard \/ FailPost \/ SaidMark
  BY <1>4 DEF DropKit, FailStart, FailCard, FailPost, SaidMark, Main, Aside
<1>5. CASE CreateBubble \/ Boot \/ Crash
  BY <1>5 DEF CreateBubble, Boot, Crash, Cards
<1>6. ASSUME NEW k \in Turns, LateCommit(k) \/ ReadCot(k) \/ DropCot(k) \/ WriteState(k) \/ ChildDies(k)
      PROVE  salvage' \subseteq salvage
  BY <1>6 DEF LateCommit, ReadCot, DropCot, WriteState, ChildDies, Cards
<1>7. ASSUME NEW k \in Turns, BubbleMade(k) \/ WriteCot(k) \/ CompleteBubble(k)
      PROVE  salvage' \subseteq salvage
  BY <1>7 DEF BubbleMade, WriteCot, CompleteBubble, Cards
<1>8. CASE \/ BootCot \/ BootCotDrop \/ BootKit \/ BootKitDrop \/ CapCard \/ CapPost \/ CapMark
           \/ BootKitMark \/ BootBump \/ BootCard \/ BootCardDrop
  BY <1>8 DEF BootCot, BootCotDrop, BootKit, BootKitDrop, CapCard, CapPost, CapMark, BootKitMark,
     BootBump, BootCard, BootCardDrop, Booting
<1>9. CASE FinalKit \/ FailKit
  BY <1>9 DEF FinalKit, FailKit
<1> QED BY <1>1, <1>2, <1>3, <1>4, <1>5, <1>6, <1>7, <1>8, <1>9 DEF Next

\* The steps of a turn with and without a CardKit card.
LEMMA KitShape ==
  ASSUME IInv, Settles, Next
  PROVE  /\ at' \in WithKit => h'.kit
         /\ at' \in {"late", "lateRec", "latePost"} => ~h'.kit
<1>0. h \in Handles
  BY DEF IInv, Types, HandleType
<1> USE DEF Settles, WithKit
<1>1. CASE \/ OpenCard \/ SayNoCard \/ OpenKit \/ RecordKit \/ RecordCard \/ StreamKit \/ Throw
           \/ \E kit \in BOOLEAN : StartTurn(kit)
  BY <1>1 DEF OpenCard, SayNoCard, OpenKit, RecordKit, RecordCard, StreamKit, Throw, StartTurn
<1>2. CASE EndRun
  BY <1>2 DEF EndRun
<1>3. CASE FinalKit \/ MarkKit \/ LateRecord \/ AgainFinal \/ AgainMark \/ AgainPost
  BY <1>3 DEF FinalKit, MarkKit, LateRecord, AgainFinal, AgainMark, AgainPost, Unposted
<1>4. CASE LateStart
  BY <1>0, <1>4 DEF LateStart, Handles
<1>5. CASE LatePost \/ FinalCard \/ DropCard \/ Handled \/ Release
  BY <1>5 DEF LatePost, FinalCard, DropCard, Handled, Release, Unshown
<1>6. CASE FailKit \/ DropKit \/ FailStart \/ FailCard \/ FailPost \/ SaidMark
  BY <1>6 DEF FailKit, DropKit, FailStart, FailCard, FailPost, SaidMark
<1>7. CASE CreateBubble
  BY <1>7 DEF CreateBubble, Cards
<1>8. CASE Boot \/ Crash
  BY <1>8 DEF Boot, Crash
<1>9. ASSUME NEW k \in Turns, \/ LateCommit(k) \/ ReadCot(k) \/ DropCot(k) \/ WriteState(k)
                              \/ ChildDies(k) \/ BubbleMade(k) \/ WriteCot(k) \/ CompleteBubble(k)
      PROVE  UNCHANGED <<at, h>>
  BY <1>9 DEF LateCommit, ReadCot, DropCot, WriteState, ChildDies, BubbleMade, WriteCot,
     CompleteBubble, Cards
<1>10. CASE BootCot \/ BootCotDrop \/ BootKit \/ BootKitMark \/ BootKitDrop \/ BootBump
  BY <1>10 DEF BootCot, BootCotDrop, BootKit, BootKitMark, BootKitDrop, BootBump, KitFailed
<1>11. CASE CapCard \/ CapPost \/ CapMark \/ BootCard \/ BootCardDrop
  BY <1>11 DEF CapCard, CapPost, CapMark, BootCard, BootCardDrop
<1> QED BY <1>1, <1>2, <1>3, <1>4, <1>5, <1>6, <1>7, <1>8, <1>9, <1>10, <1>11 DEF Next

\* A turn with a CardKit handle has a record in its closure.
LEMMA KitRecorded ==
  ASSUME IInv, Settles, Next, at' \notin Resting, h'.kit
  PROVE  kitRec'[n'].status # "none"
<1>0. /\ kitRec \in [Turns -> [status : {"none", "streaming", "settled"}, since : Nat]]
      /\ Counts /\ HandleType /\ RecType /\ n \in Nat
  BY DEF IInv, Types, RecType, Counts
<1>1. ~\E kit \in BOOLEAN : StartTurn(kit)
  BY DEF StartTurn, NoHandles
<1>2. at \notin Resting /\ n' = n
  BY <1>0, <1>1, RestStep, ClockStep
<1>3. n \in Turns
  BY <1>2, Placed
<1>4. ~Crash
  BY DEF Crash, Resting, Reset
<1>5. CASE OpenKit
  <2>1. kitRec' = [kitRec EXCEPT ![n] = [status |-> "streaming", since |-> state.count]]
    <3>1. ~h.kit
      BY <1>5 DEF OpenKit, IInv, RecFollows
    <3>2. h' # h /\ h' # [h EXCEPT !.card = "card"]
      BY <1>0, <3>1 DEF HandleType, Handles
    <3> QED BY <1>5, <3>2 DEF OpenKit
  <2>2. kitRec'[n] = [status |-> "streaming", since |-> state.count]
    BY <1>0, <1>3, <2>1
  <2> QED BY <1>2, <2>2
<1>6. CASE ~OpenKit
  <2>1. h.kit
    BY <1>0, <1>6, HandleStep
  <2>2. kitRec[n].status # "none"
    BY <1>2, <2>1 DEF Settles
  <2>3. kitRec' = kitRec \/ SettleRecord
    BY <1>0, <1>4, <1>6, RecStep
  <2> QED BY <1>0, <1>2, <1>3, <2>2, <2>3 DEF SettleRecord
<1> QED BY <1>5, <1>6

LEMMA SettlesStep ==
  ASSUME IInv, Settles, Next
  PROVE  Settles'
<1>1. settled \in [Turns -> {"no", "handled", "released"}] /\ n \in Nat /\ n' \in Nat
  BY CountsStep DEF Settles, IInv, Types, Counts
<1>2. at \notin Resting => n \in Turns
  BY Placed
<1>3. /\ settled' \in [Turns -> {"no", "handled", "released"}]
      /\ \A k \in Turns : k > n' => settled'[k] = "no"
      /\ \A k \in Turns : k = n' /\ settled'[k] = "handled" => at' \in Resting
  <2>1. CASE UNCHANGED <<n, settled>>
    <3>1. at \in Resting => at' \in Resting \/ \E kit \in BOOLEAN : StartTurn(kit)
      BY RestStep
    <3>2. (\E kit \in BOOLEAN : StartTurn(kit)) => n' # n
      BY <1>1 DEF StartTurn
    <3> QED BY <2>1, <3>1, <3>2 DEF Settles
  <2>2. CASE at = "done" /\ Handled
    <3>1. n \in Turns /\ n' = n /\ settled' = [settled EXCEPT ![n] = "handled"] /\ at' = "idle"
      BY <1>2, <2>2 DEF Handled, Resting, Reset, KitSteps
    <3> QED BY <1>1, <3>1 DEF Settles, Resting, Turns
  <2>3. CASE at = "failing" /\ UNCHANGED n /\ settled' = [settled EXCEPT ![n] = "released"]
    <3>1. n \in Turns
      BY <1>2, <2>3 DEF Resting, Reset, KitSteps
    <3> QED BY <1>1, <2>3, <3>1 DEF Settles, Turns
  <2>4. CASE \E kit \in BOOLEAN : StartTurn(kit)
    <3>1. n' = n + 1 /\ settled' = settled
      BY <2>4 DEF StartTurn
    <3> QED BY <1>1, <3>1 DEF Settles, Turns
  <2> QED BY <2>1, <2>2, <2>3, <2>4, SettledStep
<1>4. \A k \in salvage' : k \in Turns /\ kitRec'[k].status # "none"
  <2> SUFFICES ASSUME NEW k \in salvage' PROVE k \in Turns /\ kitRec'[k].status # "none"
    OBVIOUS
  <2>1. k \in Turns /\ kitRec[k].status # "none"
    <3>1. FinalKit \/ FailKit => n \in Turns /\ kitRec[n].status # "none"
      <4>1. FinalKit \/ FailKit => at \in WithKit /\ at \notin Resting
        BY DEF FinalKit, FailKit, WithKit, Resting, Reset, KitSteps
      <4> QED BY <1>2, <4>1 DEF Settles
    <3> QED BY <3>1, SalvageStep DEF Settles
  <2>2. kitRec \in [Turns -> [status : {"none", "streaming", "settled"}, since : Nat]]
    BY DEF IInv, Types, RecType
  <2>3. CASE OpenKit
    BY <2>1, <2>2, <2>3 DEF OpenKit
  <2>4. CASE SettleRecord
    BY <2>1, <2>2, <2>4 DEF SettleRecord
  <2>5. ~Crash
    BY DEF Crash
  <2> QED BY <2>1, <2>3, <2>4, <2>5, RecStep DEF IInv, Types
<1> QED BY <1>3, <1>4, KitShape, KitRecorded DEF Settles

-----------------------------------------------------------------------------
(* Counting the failures of a turn that told nobody.                       *)

LEMMA FaultsStep ==
  ASSUME Counts, Next
  PROVE  budget.faults \in Nat /\ budget'.faults \in Nat /\ budget'.faults <= budget.faults
<1>0. budget \in [turns : Nat, crashes : Nat, faults : Nat, bubbles : BOOLEAN]
  BY DEF Counts
<1>1. ASSUME Fine \/ Fault PROVE budget'.faults \in Nat /\ budget'.faults <= budget.faults
  BY <1>0, <1>1 DEF Fine, Fault
<1>2. CASE \E kit \in BOOLEAN : StartTurn(kit)
  BY <1>0, <1>2 DEF StartTurn
<1>3. CASE OpenCard \/ SayNoCard \/ OpenKit \/ RecordKit \/ RecordCard
  BY <1>0, <1>1, <1>3 DEF OpenCard, SayNoCard, OpenKit, RecordKit, RecordCard
<1>4. CASE StreamKit \/ EndRun
  BY <1>0, <1>4 DEF StreamKit, EndRun
<1>5. CASE Throw \/ FinalKit \/ MarkKit \/ LateStart \/ LateRecord \/ AgainFinal
  BY <1>0, <1>1, <1>5 DEF Throw, FinalKit, MarkKit, LateStart, LateRecord, AgainFinal
<1>6. CASE AgainMark \/ AgainPost \/ LatePost \/ FinalCard \/ DropCard \/ Handled
  BY <1>0, <1>1, <1>6 DEF AgainMark, AgainPost, LatePost, FinalCard, DropCard, Handled
<1>7. CASE Release \/ FailKit \/ DropKit \/ FailStart \/ FailCard \/ FailPost \/ SaidMark
  BY <1>0, <1>1, <1>7 DEF Release, FailKit, DropKit, FailStart, FailCard, FailPost, SaidMark
<1>8. CASE CreateBubble \/ Boot
  BY <1>0, <1>8 DEF CreateBubble, Boot
<1>12. CASE Crash
  <2>1. budget' = [budget EXCEPT !.crashes = @ - 1]
    BY <1>12 DEF Crash
  <2> QED BY <1>0, <2>1
<1>9. ASSUME NEW k \in Turns, LateCommit(k) \/ ReadCot(k) \/ WriteState(k) \/ ChildDies(k)
      PROVE  budget' = budget
  BY <1>9 DEF LateCommit, ReadCot, WriteState, ChildDies
<1>10. ASSUME NEW k \in Turns, BubbleMade(k) \/ WriteCot(k) \/ CompleteBubble(k) \/ DropCot(k)
       PROVE  Fine \/ Fault
  BY <1>10 DEF BubbleMade, WriteCot, CompleteBubble, DropCot
<1>11. CASE \/ BootCot \/ BootCotDrop \/ BootKit \/ BootKitDrop \/ CapCard \/ CapPost \/ CapMark
            \/ BootKitMark \/ BootBump \/ BootCard \/ BootCardDrop
  BY <1>0, <1>1, <1>11 DEF BootCot, BootCotDrop, BootKit, BootKitDrop, CapCard, CapPost, CapMark,
     BootKitMark, BootBump, BootCard, BootCardDrop
<1> QED
  BY <1>0, <1>1, <1>2, <1>3, <1>4, <1>5, <1>6, <1>7, <1>8, <1>9, <1>10, <1>11, <1>12 DEF Next

\* Only a new turn makes a salvage an earlier turn's.
LEMMA OldStep ==
  ASSUME IInv, Settles, Next, OldSalvage'
  PROVE  \/ OldSalvage /\ n' = n
         \/ /\ \E kit \in BOOLEAN : StartTurn(kit)
            /\ OldSalvage \/ \E k \in salvage : k = n /\ kitRec[k].status = "streaming"
<1>1. PICK k \in salvage' : k < n' /\ kitRec'[k].status = "streaming"
  BY DEF OldSalvage
<1>2. kitRec \in [Turns -> [status : {"none", "streaming", "settled"}, since : Nat]] /\ n \in Nat
  BY DEF IInv, Types, RecType, Counts
<1>3. CASE \E kit \in BOOLEAN : StartTurn(kit)
  <2>1. n' = n + 1 /\ salvage' = salvage /\ kitRec' = kitRec
    BY <1>3 DEF StartTurn
  <2>2. k \in Nat /\ (k < n \/ k = n)
    BY <1>1, <1>2, <2>1 DEF Settles, Turns
  <2> QED BY <1>1, <1>3, <2>1, <2>2 DEF OldSalvage
<1>4. CASE ~\E kit \in BOOLEAN : StartTurn(kit)
  <2>1. n' = n
    BY <1>4, SettledStep DEF Handled
  <2>2. k \in salvage
    BY <1>1, <1>2, <2>1, SalvageStep
  <2>3. k \in Turns /\ k # n
    BY <1>1, <1>2, <2>1, <2>2 DEF Settles
  <2>4. ~Crash
    BY <1>1 DEF Crash
  <2>5. kitRec'[k] = kitRec[k]
    BY <1>2, <2>3, <2>4, RecStep DEF OpenKit, SettleRecord, IInv, Types
  <2> QED BY <1>1, <2>1, <2>2, <2>5 DEF OldSalvage
<1> QED BY <1>3, <1>4


\* A turn fails because a call has failed.
LEMMA FailingEntry ==
  ASSUME Next, at' \in {"failing", "failKit"}
  PROVE  at \in {"failing", "failKit"} \/ Fault
<1>1. CASE \/ OpenCard \/ SayNoCard \/ OpenKit \/ RecordKit \/ RecordCard \/ StreamKit \/ EndRun
           \/ Throw \/ \E kit \in BOOLEAN : StartTurn(kit)
  BY <1>1 DEF OpenCard, SayNoCard, OpenKit, RecordKit, RecordCard, StreamKit, EndRun, Throw, StartTurn
<1>2. CASE FinalKit \/ MarkKit \/ LateStart \/ LateRecord \/ AgainFinal \/ AgainMark \/ AgainPost
  BY <1>2 DEF FinalKit, MarkKit, LateStart, LateRecord, AgainFinal, AgainMark, AgainPost, Unposted
<1>3. CASE LatePost \/ FinalCard \/ DropCard \/ Handled \/ Release
  BY <1>3 DEF LatePost, FinalCard, DropCard, Handled, Release, Unshown
<1>4. CASE FailKit \/ DropKit \/ FailStart \/ FailCard \/ FailPost \/ SaidMark
  BY <1>4 DEF FailKit, DropKit, FailStart, FailCard, FailPost, SaidMark
<1>5. CASE CreateBubble \/ Boot \/ Crash
  BY <1>5 DEF CreateBubble, Boot, Crash, Cards
<1>6. ASSUME NEW k \in Turns, \/ LateCommit(k) \/ ReadCot(k) \/ DropCot(k) \/ WriteState(k)
                              \/ ChildDies(k) \/ BubbleMade(k) \/ WriteCot(k) \/ CompleteBubble(k)
      PROVE  at' = at
  BY <1>6 DEF LateCommit, ReadCot, DropCot, WriteState, ChildDies, BubbleMade, WriteCot,
     CompleteBubble, Cards
<1>7. CASE BootCot \/ BootCotDrop \/ BootKit \/ BootKitMark \/ BootKitDrop \/ BootBump
  BY <1>7 DEF BootCot, BootCotDrop, BootKit, BootKitMark, BootKitDrop, BootBump, KitFailed
<1>8. CASE CapCard \/ CapPost \/ CapMark \/ BootCard \/ BootCardDrop
  BY <1>8 DEF CapCard, CapPost, CapMark, BootCard, BootCardDrop
<1> QED BY <1>1, <1>2, <1>3, <1>4, <1>5, <1>6, <1>7, <1>8 DEF Next

LEMMA TallyAllStep ==
  ASSUME IInv, Settles, Tally, Next
  PROVE  TallyAll'
<1>1. budget.faults \in Nat /\ budget'.faults \in Nat /\ budget'.faults <= budget.faults
      /\ (Fault => budget'.faults = budget.faults - 1)
  BY FaultsStep DEF IInv, Types, Counts, Fault
<1>2. ASSUME NEW k \in salvage, k = n, kitRec[k].status = "streaming", \E kit \in BOOLEAN : StartTurn(kit)
      PROVE  budget.faults <= 2
  <2>1. at = "idle"
    BY <1>2 DEF StartTurn
  <2> QED BY <1>1, <1>2, <2>1 DEF Tally, TallySalvage, Failures
<1>3. ASSUME at' \in {"failing", "failKit"}
      PROVE  at \in {"failing", "failKit"} \/ Fault
  BY <1>3, FailingEntry
<1> QED BY <1>1, <1>2, <1>3, OldStep DEF Tally, TallyAll

\* What the turn writes into a ledger is a record of the turn.
LEMMA Recorded ==
  ASSUME IInv, NEW k \in Turns
  PROVE  /\ KitRec(k, "streaming") # None /\ KitRec(k, "streaming").turn = k
         /\ KitRec(k, "streaming").status = "streaming"
         /\ CardRec("card") # None /\ CardRec("card").turn = n
         /\ CardRec("late") # None /\ CardRec("late").turn = n
<1>1. KitRec(k, "streaming") \in KitRecs
  BY DEF KitRec, KitRecs, IInv, Types, RecType, Turns
<1>2. CardRec("card") \in CardRecs /\ CardRec("late") \in CardRecs
  BY DEF CardRec, CardRecs, IInv, Types, Counts
<1> QED BY <1>1, <1>2, SurfacesAssumption DEF KitRec, CardRec, KitRecs, CardRecs

\* A turn with a CardKit card, up to its last attempt.
LEMMA TallyKitStep ==
  ASSUME IInv, Settles, Tally, Next
  PROVE  TallyKit'
<1>0. /\ h \in Handles
      /\ budget \in [turns : Nat, crashes : Nat, faults : Nat, bubbles : BOOLEAN]
  BY DEF IInv, Types, HandleType, Counts
<1>1. budget.faults \in Nat /\ budget'.faults \in Nat /\ budget'.faults <= budget.faults
      /\ (Fine => budget'.faults = budget.faults)
      /\ (Fault => budget'.faults = budget.faults - 1)
  BY <1>0, FaultsStep DEF IInv, Types, Fine, Fault
<1>2. OldSalvage' => OldSalvage \/ \E kit \in BOOLEAN : StartTurn(kit)
  BY OldStep
<1>3. TallyAll /\ TallyKit
  BY DEF Tally
<1>4. ASSUME at' \notin {"kit", "kitMark", "again", "againRec", "againFinal", "againMark", "againPost"},
             ~(at' = "open" /\ h'.kit /\ lane' # "record")
      PROVE  TallyKit'
  BY <1>4 DEF TallyKit, OnKit
<1>5. ASSUME ~(\E kit \in BOOLEAN : StartTurn(kit)), at' = at, (OnKit' => OnKit),
             KitKept => KitKept', CardKept => CardKept',
             at = "open" => lane' = lane \/ KitKept'
      PROVE  TallyKit'
  BY <1>1, <1>2, <1>3, <1>5 DEF TallyKit, Failures, TallyAll
<1>6. CASE \E kit \in BOOLEAN : StartTurn(kit)
  BY <1>4, <1>6 DEF StartTurn, NoHandles
<1>7. CASE OpenCard
  <2>1. UNCHANGED <<n, at, kitFile, cardFile, salvage, kitRec>> /\ h'.kit = h.kit /\ at = "open"
        /\ (lane' = "ledger" \/ (Fault /\ lane' \in {"done", "say"})) /\ lane \in {"card", "instead"}
    BY <1>0, <1>7 DEF OpenCard, files, Handles
  <2>2. OnKit' => OnKit
    BY <2>1 DEF OnKit
  <2>3. (KitKept' <=> KitKept) /\ (CardKept' <=> CardKept) /\ (OldSalvage' => OldSalvage)
    BY <2>1 DEF KitKept, CardKept, OldSalvage
  <2> QED BY <1>1, <1>3, <2>1, <2>2, <2>3 DEF TallyKit, Failures
<1>8. CASE SayNoCard
  <2>1. UNCHANGED <<n, at, kitFile, cardFile, salvage, kitRec>> /\ h'.kit = h.kit /\ at = "open"
        /\ lane' = "done" /\ lane = "say"
    BY <1>0, <1>8 DEF SayNoCard, files, Handles
  <2>2. OnKit' => OnKit
    BY <2>1 DEF OnKit
  <2>3. (KitKept' <=> KitKept) /\ (CardKept' <=> CardKept) /\ (OldSalvage' => OldSalvage)
    BY <2>1 DEF KitKept, CardKept, OldSalvage
  <2> QED BY <1>1, <1>3, <2>1, <2>2, <2>3 DEF TallyKit, Failures
<1>9. CASE OpenKit
  <2>1. at = "open" /\ lane = "kit"
    BY <1>9 DEF OpenKit
  <2>2. ~h.kit
    BY <2>1 DEF IInv, RecFollows
  <2>3. at' = "open" /\ (lane' = "record" \/ ~h'.kit)
    BY <1>0, <1>9, <2>2 DEF OpenKit, Handles
  <2> QED BY <1>4, <2>3
<1>10. CASE RecordKit
  <2>1. at' = "open" /\ n' = n /\ (Fine \/ Fault) /\ lane' \in {"done", "instead"}
        /\ (lane' = "done" => Fine /\ kitFile' = KitRec(n, "streaming"))
        /\ (lane' = "instead" => Fault)
    BY <1>10 DEF RecordKit, PutKit
  <2>2. lane' = "done" => KitKept'
    <3>1. n \in Turns
      BY <1>10, Placed DEF RecordKit, Resting, Reset, KitSteps
    <3> QED BY <2>1, <3>1, Recorded DEF KitKept
  <2>3. OldSalvage' => OldSalvage
    BY <1>10 DEF RecordKit, OldSalvage
  <2> QED BY <1>1, <1>3, <2>1, <2>2, <2>3 DEF TallyKit, TallyAll, Failures
<1>11. CASE RecordCard
  <2>1. at = "open" /\ lane = "ledger" /\ lane' = "done" /\ UNCHANGED <<at, n, h, kitRec, salvage, kitFile>>
        /\ ((Fine /\ cardFile' = CardRec("card")) \/ (Fault /\ cardFile' = cardFile))
    BY <1>11 DEF RecordCard, PutCard, files
  <2>2. CardKept' \/ (Fault /\ (CardKept' <=> CardKept))
    <3>1. n \in Turns
      BY <2>1, Placed DEF Resting, Reset, KitSteps
    <3> QED BY <2>1, <3>1, Recorded DEF CardKept
  <2>3. (OnKit' => OnKit) /\ (KitKept' <=> KitKept) /\ (OldSalvage' => OldSalvage)
    BY <2>1 DEF KitKept, OnKit, OldSalvage
  <2> QED BY <1>1, <1>3, <2>1, <2>2, <2>3 DEF TallyKit, Failures
<1>12. CASE StreamKit
  <2>1. at = "open" /\ UNCHANGED <<at, n, h, lane, kitRec, salvage>> /\ kitFile' = KitRec(n, "streaming")
    BY <1>12 DEF StreamKit, PutKit
  <2>2. KitKept'
    <3>1. n \in Turns
      BY <2>1, Placed DEF Resting, Reset, KitSteps
    <3> QED BY <2>1, <3>1, Recorded DEF KitKept
  <2>3. (OnKit' => OnKit) /\ (OldSalvage' => OldSalvage)
    BY <2>1 DEF OnKit, OldSalvage
  <2> QED BY <1>1, <1>3, <2>1, <2>2, <2>3 DEF TallyKit, Failures
<1>13. CASE EndRun
  <2>1. at = "open" /\ lane = "done" /\ UNCHANGED <<n, h, lane, kitRec, salvage, kitFile, cardFile>>
        /\ ((at' = "kit" /\ h.kit) \/ at' \in {"late", "card"})
    BY <1>13 DEF EndRun, files
  <2>2. (at' = "kit" => OnKit) /\ (KitKept' <=> KitKept) /\ (CardKept' <=> CardKept)
        /\ (OldSalvage' => OldSalvage)
    BY <2>1 DEF KitKept, CardKept, OnKit, OldSalvage
  <2> QED BY <1>1, <1>3, <1>4, <2>1, <2>2 DEF TallyKit, Failures
<1>14. CASE FinalKit \/ MarkKit \/ AgainFinal \/ AgainMark
  <2>1. CASE at' \in {"kitDrop", "againDrop"}
    BY <1>4, <2>1
  <2>2. CASE at' \notin {"kitDrop", "againDrop"}
    <3>1. /\ \/ at \in {"kit", "kitMark"} /\ at' = "kitMark"
             \/ at \in {"kit", "kitMark"} /\ at' = "again" /\ Fault
             \/ at = "againFinal" /\ at' = "againMark"
             \/ at \in {"againFinal", "againMark"} /\ at' = "againPost" /\ Fault
          /\ UNCHANGED <<n, kitFile, cardFile>>
      BY <1>14, <2>2 DEF FinalKit, MarkKit, AgainFinal, AgainMark, Main, files
    <3>2. (KitKept' <=> KitKept) /\ (CardKept' <=> CardKept) /\ OnKit
      BY <3>1 DEF KitKept, CardKept, OnKit
    <3>3. OldSalvage' => OldSalvage
      BY <1>2, <1>14 DEF FinalKit, MarkKit, AgainFinal, AgainMark, StartTurn
    <3> QED BY <1>1, <1>3, <3>1, <3>2, <3>3 DEF TallyKit, Failures
  <2> QED BY <2>1, <2>2
<1>15. CASE LateStart
  <2>1. CASE at' \in {"lateRec", "latePost"}
    BY <1>4, <2>1
  <2>2. CASE at' \notin {"lateRec", "latePost"}
    <3>1. at = "again" /\ (at' = "againRec" \/ (at' = "againPost" /\ Fault))
          /\ UNCHANGED <<n, kitFile, cardFile, salvage, kitRec>>
      BY <1>0, <1>15, <2>2 DEF LateStart, Main, Aside, files, Settles, WithKit, Handles
    <3>2. (KitKept' <=> KitKept) /\ (CardKept' <=> CardKept) /\ OnKit /\ (OldSalvage' => OldSalvage)
      BY <3>1 DEF KitKept, CardKept, OnKit, OldSalvage
    <3> QED BY <1>1, <1>3, <3>1, <3>2 DEF TallyKit, Failures
  <2> QED BY <2>1, <2>2
<1>16. CASE LateRecord
  <2>1. CASE at' = "card"
    BY <1>4, <2>1
  <2>2. CASE at' # "card"
    <3>1. at = "againRec" /\ at' = "againFinal" /\ UNCHANGED <<n, kitFile, salvage, kitRec>>
          /\ (cardFile' = CardRec("late") \/ cardFile' = cardFile)
      BY <1>16, <2>2 DEF LateRecord, Main, Aside, files, PutCard
    <3>2. n \in Turns
      BY <3>1, Placed DEF Resting, Reset, KitSteps
    <3>3. (KitKept' <=> KitKept) /\ (CardKept => CardKept') /\ OnKit /\ (OldSalvage' => OldSalvage)
      BY <3>1, <3>2, Recorded DEF KitKept, CardKept, OnKit, OldSalvage
    <3> QED BY <1>1, <1>3, <3>1, <3>3 DEF TallyKit, Failures
  <2> QED BY <2>1, <2>2
<1>17. CASE Throw \/ AgainPost \/ LatePost \/ FinalCard \/ DropCard \/ Handled \/ Release
  BY <1>4, <1>17 DEF Throw, AgainPost, Unposted, LatePost, FinalCard, DropCard, Handled, Release,
     Unshown
<1>18. CASE FailKit \/ DropKit \/ FailStart \/ FailCard \/ FailPost \/ SaidMark \/ Crash \/ Boot
  BY <1>4, <1>18 DEF FailKit, DropKit, FailStart, FailCard, FailPost, SaidMark, Crash, Boot
<1>19. CASE \/ BootCot \/ BootCotDrop \/ BootKit \/ BootKitDrop \/ CapCard \/ CapPost \/ CapMark
            \/ BootKitMark \/ BootBump \/ BootCard \/ BootCardDrop
  BY <1>4, <1>19 DEF BootCot, BootCotDrop, BootKit, BootKitDrop, CapCard, CapPost, CapMark,
     BootKitMark, KitFailed, BootBump, BootCard,
     BootCardDrop
<1>20. ASSUME UNCHANGED <<at, n, h, lane, kitFile, cardFile, kitRec, salvage>> PROVE TallyKit'
  <2>1. (KitKept' <=> KitKept) /\ (CardKept' <=> CardKept) /\ (OldSalvage' => OldSalvage)
        /\ (OnKit' => OnKit) /\ Failures' = Failures
    BY <1>20 DEF KitKept, CardKept, OldSalvage, OnKit, Failures
  <2>2. Failures \in 0 .. 3
    BY DEF Failures
  <2> QED BY <1>1, <1>3, <1>20, <2>1, <2>2 DEF TallyKit
<1>21. CASE CreateBubble
  BY <1>20, <1>21 DEF CreateBubble, Cards, files
<1>22. ASSUME NEW k \in Turns, \/ BubbleMade(k) \/ WriteCot(k) \/ CompleteBubble(k) \/ ReadCot(k)
                               \/ DropCot(k) \/ WriteState(k) \/ ChildDies(k)
       PROVE  TallyKit'
  BY <1>20, <1>22 DEF BubbleMade, WriteCot, CompleteBubble, ReadCot, DropCot, WriteState, ChildDies,
     Cards,
     files, PutCot
<1>23. ASSUME NEW k \in Turns, LateCommit(k) PROVE TallyKit'
  <2>1. UNCHANGED <<at, n, h, lane, kitRec, cardFile>> /\ budget' = budget /\ salvage' \subseteq salvage
        /\ (kitFile' = kitFile \/ (kitRec[k].status = "streaming" /\ kitFile' = KitRec(k, "streaming")))
        /\ k \in salvage
    BY <1>23 DEF LateCommit, Commit, PutKit, files
  <2>2. (CardKept' <=> CardKept) /\ (OldSalvage' => OldSalvage) /\ (OnKit' => OnKit) /\ Failures' = Failures
    BY <2>1 DEF CardKept, OldSalvage, OnKit, Failures
  <2>3. Failures \in 0 .. 3
    BY DEF Failures
  <2>4. (KitKept' <=> KitKept) \/ KitKept' \/ OldSalvage
    <3>1. kitRec[k].status = "streaming" => k <= n /\ k \in Nat /\ n \in Nat
      BY DEF IInv, RecDated, Types, Counts, Turns
    <3>2. KitRec(k, "streaming") # None /\ KitRec(k, "streaming").turn = k
          /\ KitRec(k, "streaming").status = "streaming"
      BY Recorded
    <3> QED BY <2>1, <3>1, <3>2 DEF KitKept, OldSalvage
  <2> QED BY <1>1, <1>3, <2>1, <2>2, <2>3, <2>4 DEF TallyKit
<1> QED
  BY <1>6, <1>7, <1>8, <1>9, <1>10, <1>11, <1>12, <1>13, <1>14, <1>15, <1>16, <1>17, <1>18, <1>19,
     <1>21, <1>22, <1>23 DEF Next

\* The steps of a session whose turn is over.
Beside(k) == \/ BubbleMade(k) \/ WriteCot(k) \/ CompleteBubble(k) \/ ReadCot(k) \/ DropCot(k)
             \/ WriteState(k) \/ ChildDies(k)
Boots == \/ Boot \/ BootCot \/ BootCotDrop \/ BootBump \/ BootKit \/ BootKitMark \/ BootKitDrop
         \/ CapCard \/ CapPost \/ CapMark \/ BootCard \/ BootCardDrop

LEMMA OverStep ==
  ASSUME at \in Resting \cup {"done"}, Next
  PROVE  \/ \E kit \in BOOLEAN : StartTurn(kit)
         \/ Handled \/ Crash \/ Boots
         \/ \E k \in Turns : LateCommit(k) \/ Beside(k)
<1> USE DEF Resting, Reset, KitSteps
<1>1. ~OpenCard /\ ~SayNoCard /\ ~OpenKit /\ ~RecordKit /\ ~RecordCard /\ ~StreamKit /\ ~EndRun /\ ~Throw
  BY DEF OpenCard, SayNoCard, OpenKit, RecordKit, RecordCard, StreamKit, EndRun, Throw
<1>2. ~FinalKit /\ ~MarkKit /\ ~LateStart /\ ~LateRecord /\ ~AgainFinal /\ ~AgainMark /\ ~AgainPost
  BY DEF FinalKit, MarkKit, LateStart, LateRecord, AgainFinal, AgainMark, AgainPost
<1>3. ~LatePost /\ ~FinalCard /\ ~DropCard /\ ~Release
  BY DEF LatePost, FinalCard, DropCard, Release
<1>4. ~FailKit /\ ~DropKit /\ ~FailStart /\ ~FailCard /\ ~FailPost /\ ~SaidMark /\ ~CreateBubble
  BY DEF FailKit, DropKit, FailStart, FailCard, FailPost, SaidMark, CreateBubble
<1> QED BY <1>1, <1>2, <1>3, <1>4 DEF Next, Boots, Beside

\* A user who was told stays told: a boot writes over a card, never blanks it.
LEMMA ToldStays ==
  ASSUME IInv, Named, at \in Resting \cup {"done"}, Next, UNCHANGED n, Told(n)
  PROVE  Told(n)'
<1>0. shown \in [Surfaces -> [is : Kinds, of : Nat]]
  BY DEF IInv, Types, ShownType
<1> DEFINE Ends == \A what \in {"card", "late", "kit"} :
                     shown[<<what, n>>].is \notin Wordless => shown'[<<what, n>>].is \notin Wordless
<1>1. ASSUME told \subseteq told', Ends PROVE Told(n)'
  BY <1>1 DEF Told, Answered, Wordless
<1>2. ASSUME told \subseteq told', UNCHANGED shown PROVE Told(n)'
  BY <1>1, <1>2
<1>3. CASE (\E kit \in BOOLEAN : StartTurn(kit)) \/ Handled \/ Crash \/ Boot
  BY <1>2, <1>3 DEF StartTurn, Handled, Crash, Boot
<1>4. CASE \/ BootCotDrop \/ BootBump \/ BootKitMark \/ BootKitDrop \/ CapCard \/ CapPost \/ CapMark
           \/ BootCardDrop
  BY <1>2, <1>4 DEF BootCotDrop, BootBump, BootKitMark, BootKitDrop, CapCard, CapPost, CapMark,
     BootCardDrop
<1>5. ASSUME NEW k \in Turns, \/ LateCommit(k) \/ WriteCot(k) \/ ReadCot(k) \/ DropCot(k)
                              \/ WriteState(k) \/ ChildDies(k)
      PROVE  Told(n)'
  BY <1>2, <1>5 DEF LateCommit, WriteCot, ReadCot, DropCot, WriteState, ChildDies, Cards
<1>6. ASSUME NEW kind, NEW k, NEW what, told \subseteq told', Show(<<kind, k>>, what),
             kind = "bubble" \/ what.is \notin Wordless
      PROVE  Told(n)'
  <2>1. ASSUME NEW r, r \in {"card", "late", "kit"}, shown[<<r, n>>].is \notin Wordless
        PROVE  shown'[<<r, n>>].is \notin Wordless
    <3>1. CASE <<r, n>> = <<kind, k>>
      <4>1. kind = r
        BY <3>1
      <4>2. what.is \notin Wordless
        BY <1>6, <2>1, <4>1
      <4>3. <<r, n>> \in DOMAIN shown => shown'[<<r, n>>] = what
        BY <1>6, <3>1 DEF Show
      <4>4. <<r, n>> \notin DOMAIN shown => shown' = shown
        BY <1>0, <1>6, <3>1 DEF Show
      <4> QED BY <2>1, <4>2, <4>3, <4>4
    <3>2. CASE <<r, n>> # <<kind, k>>
      <4>1. shown'[<<r, n>>] = shown[<<r, n>>]
        BY <1>0, <1>6, <3>2 DEF Show
      <4> QED BY <2>1, <4>1
    <3> QED BY <3>1, <3>2
  <2> QED BY <1>1, <1>6, <2>1
<1>7. ASSUME NEW k \in Turns, BubbleMade(k) \/ CompleteBubble(k) PROVE Told(n)'
  BY <1>2, <1>6, <1>7 DEF BubbleMade, CompleteBubble, Cards
<1>8. \A old : Says(old).is \notin Wordless
  BY DEF Says, Answer, Cut, Wordless
<1>9. CASE BootCot \/ BootKit \/ BootCard
  BY <1>2, <1>6, <1>8, <1>9 DEF BootCot, BootKit, BootCard, Failed, Wordless
<1> QED BY <1>3, <1>4, <1>5, <1>7, <1>9, OverStep DEF Boots, Beside

\* A ledger that would tell the user later stays, or has told.
LEMMA KitStays ==
  ASSUME IInv, Named, DropsShown, at \in Resting \cup {"done"}, Next, UNCHANGED n, n \in Turns,
         ~OldSalvage, KitKept
  PROVE  Told(n)' \/ KitKept'
<1>1. CASE ~Unsettled("kit")'
  <2>0. Unsettled("kit")
    BY DEF KitKept, Unsettled, Ledger
  <2>1. BootKitMark \/ CapMark
    <3>1. ~MarkKit /\ ~AgainMark /\ ~SaidMark /\ ~DropKit
      BY DEF Resting, Reset, KitSteps, MarkKit, AgainMark, SaidMark, DropKit
    <3>2. ~BootKitDrop
      BY <2>0 DEF BootKitDrop, DropsShown
    <3> QED BY <1>1, <2>0, <3>1, <3>2, LedgerGone
  <2>2. Told(n)
    BY <2>1 DEF BootKitMark, CapMark, DropsShown, KitKept, Told, Answered, Wordless
  <2> QED BY <2>2, ToldStays
<1>2. CASE Unsettled("kit")'
  <2>1. kitFile' # None /\ kitFile'.status = "streaming"
    BY <1>2 DEF Unsettled, Ledger
  <2>2. ~StreamsNow /\ ~SettlesKit
    BY DEF StreamsNow, SettlesKit, Resting, Reset, KitSteps
  <2>3. ~GivesUp
    <3>1. kitFile \in KitRecs
      BY DEF KitKept, IInv, Types, FileType
    <3> QED BY <2>1, <3>1 DEF GivesUp
  <2>4. CommitsLate => kitFile'.turn = n
    <3> SUFFICES ASSUME NEW k \in salvage, k \in Turns, kitRec[k].status = "streaming",
                        kitFile' = KitRec(k, "streaming")
                 PROVE  kitFile'.turn = n
      BY DEF CommitsLate
    <3>1. k <= n /\ ~(k < n) /\ k \in Nat /\ n \in Nat
      BY DEF OldSalvage, IInv, RecDated, Types, Counts, Turns
    <3> QED BY <3>1 DEF KitRec
  <2>5. Retries => kitFile'.turn = n
    <3>1. kitFile \in KitRecs /\ kitFile.turn = n
      BY DEF KitKept, IInv, Types, FileType
    <3> QED BY <2>1, <3>1 DEF Retries, Tried, KitRecs
  <2> QED BY <2>1, <2>2, <2>3, <2>4, <2>5, KitStep DEF KitKept
<1> QED BY <1>1, <1>2

LEMMA CardStays ==
  ASSUME IInv, Named, DropsShown, at \in Resting \cup {"done"}, at # "cardBump", Next, UNCHANGED n,
         CardKept
  PROVE  Told(n)' \/ CardKept'
<1>1. ASSUME cardFile' = None PROVE Told(n)'
  <2>1. ~DropCard
    BY DEF Resting, Reset, KitSteps, DropCard
  <2>2. BootCardDrop
    BY <1>1, <2>1, LedgerGone DEF CardKept
  <2>3. cardFile.what \in {"card", "late"}
    BY DEF CardKept, IInv, Types, FileType, CardRecs
  <2>4. Told(n)
    BY <2>2, <2>3 DEF BootCardDrop, DropsShown, CardKept, Told, Answered, Wordless
  <2> QED BY <2>4, ToldStays
<1>2. ASSUME cardFile' # None PROVE CardKept'
  <2>1. cardFile \in CardRecs
    BY DEF CardKept, IInv, Types, FileType
  <2>2. cardFile' = Tried(cardFile) => cardFile'.turn = cardFile.turn
    BY <1>2, <2>1 DEF Tried, CardRecs
  <2> QED BY <1>2, <2>2, CardStep DEF CardKept, Resting, Reset, KitSteps
<1> QED BY <1>1, <1>2

\* The turn ends well: a surface or a post has told, or a ledger will.
LEMMA TallyEnd ==
  ASSUME IInv, Named, Settles, DropsShown, Tally, Next, at' = "done", at # "done"
  PROVE  UNCHANGED n /\ (Told(n)' \/ (/\ KitKept' \/ (CardKept' /\ budget'.faults = 0)
                                      /\ ~OldSalvage' /\ budget'.faults <= 1))
<1>1. budget.faults \in Nat /\ budget'.faults \in Nat /\ budget'.faults <= budget.faults
  BY FaultsStep DEF IInv, Types
<1>2. Fault => budget'.faults = budget.faults - 1
  BY DEF Fault, IInv, Types, Counts
<1>3. AgainPost \/ LatePost \/ DropCard \/ DropKit
  <2>1. ~(\E kit \in BOOLEAN : StartTurn(kit)) /\ ~OpenCard /\ ~SayNoCard /\ ~OpenKit /\ ~RecordKit
    BY DEF StartTurn, OpenCard, SayNoCard, OpenKit, RecordKit
  <2>2. ~RecordCard /\ ~StreamKit /\ ~EndRun /\ ~Throw /\ ~FinalKit /\ ~LateStart /\ ~LateRecord
    BY DEF RecordCard, StreamKit, EndRun, Throw, FinalKit, LateStart, LateRecord
  <2>3. ~MarkKit /\ ~AgainMark /\ ~AgainFinal /\ ~FinalCard /\ ~Handled /\ ~Release /\ ~FailKit /\ ~FailStart
    BY DEF MarkKit, AgainMark, AgainFinal, FinalCard, Handled, Release, FailKit, FailStart
  <2>4. ~FailCard /\ ~FailPost /\ ~SaidMark /\ ~Crash /\ ~CreateBubble
    BY DEF FailCard, FailPost, SaidMark, Crash, CreateBubble, Cards
  <2>5. ~Boot /\ ~BootCot /\ ~BootCotDrop /\ ~BootBump /\ ~BootKit /\ ~BootKitMark /\ ~BootKitDrop
    BY DEF Boot, BootCot, BootCotDrop, BootBump, BootKit, BootKitMark, BootKitDrop, KitFailed
  <2>6. ~CapCard /\ ~CapPost /\ ~CapMark /\ ~BootCard /\ ~BootCardDrop
    BY DEF CapCard, CapPost, CapMark, BootCard, BootCardDrop
  <2>7. ASSUME NEW k \in Turns PROVE ~LateCommit(k) /\ ~Beside(k)
    BY DEF LateCommit, Beside, BubbleMade, WriteCot, CompleteBubble, ReadCot, DropCot, WriteState,
       ChildDies, Cards
  <2> QED BY <2>1, <2>2, <2>3, <2>4, <2>5, <2>6, <2>7 DEF Next, Beside
<1>4. UNCHANGED n
  BY <1>3 DEF AgainPost, LatePost, DropCard, DropKit, Main
<1>5. CASE DropCard \/ DropKit
  <2>1. UNCHANGED <<shown, told>> /\ at \in {"cardDrop", "againDrop", "kitDrop", "saidKit"}
    BY <1>5 DEF DropCard, DropKit
  <2>2. Told(n)
    BY <2>1 DEF DropsShown, Told, Answered, Wordless
  <2>3. Told(n)'
    BY <1>4, <2>1, <2>2 DEF Told, Answered
  <2> QED BY <1>4, <2>3
<1>6. CASE LatePost
  BY <1>4, <1>6 DEF LatePost, Unshown, Told
<1>7. CASE AgainPost
  <2>1. CASE told' = told \cup {n}
    BY <1>4, <2>1 DEF Told
  <2>2. CASE Fault
    <3>1. at = "againPost" /\ OnKit /\ Failures = 2
      BY <1>7 DEF AgainPost, OnKit, Failures
    <3>2. UNCHANGED <<cardFile, kitFile, salvage, kitRec, n>>
      BY <1>4, <1>7 DEF AgainPost, files, Main, Aside
    <3>3. budget.faults >= 1
      BY <2>2, <1>1 DEF Fault
    <3>4. budget.faults + 2 <= 4 /\ (OldSalvage => budget.faults + 2 <= 2)
          /\ (~KitKept => budget.faults + 2 <= 3)
          /\ (~KitKept /\ ~CardKept => budget.faults + 2 <= 2)
      BY <3>1 DEF Tally, TallyKit
    <3>5. ~OldSalvage /\ budget'.faults <= 1
      BY <1>1, <1>2, <2>2, <3>3, <3>4
    <3>6. KitKept \/ (CardKept /\ budget'.faults = 0)
      BY <1>1, <1>2, <2>2, <3>3, <3>4
    <3>7. (KitKept' <=> KitKept) /\ (CardKept' <=> CardKept) /\ (OldSalvage' <=> OldSalvage)
      BY <3>2 DEF KitKept, CardKept, OldSalvage
    <3> QED BY <1>4, <3>5, <3>6, <3>7
  <2> QED BY <1>7, <2>1, <2>2 DEF AgainPost
<1> QED BY <1>3, <1>5, <1>6, <1>7

LEMMA TallyDoneStep ==
  ASSUME IInv, Named, Settles, DropsShown, Tally, Next
  PROVE  TallyDone'
<1>1. budget.faults \in Nat /\ budget'.faults \in Nat /\ budget'.faults <= budget.faults
  BY FaultsStep DEF IInv, Types
<1>2. Fault => budget'.faults = budget.faults - 1
  BY DEF Fault, IInv, Types, Counts
<1>3. CASE at' = "done" /\ at # "done"
  BY <1>3, TallyEnd DEF TallyDone
<1>4. CASE \E kit \in BOOLEAN : StartTurn(kit)
  <2>1. at' = "open" /\ n' = n + 1 /\ n \in Nat /\ settled' = settled
    BY <1>4 DEF StartTurn, IInv, Types, Counts
  <2>2. ASSUME NEW k \in Turns, k = n' PROVE settled'[k] # "handled"
    BY <2>1, <2>2 DEF Settles
  <2> QED BY <2>1, <2>2 DEF TallyDone
<1>5. ASSUME ~(at' = "done" /\ at # "done"), ~\E kit \in BOOLEAN : StartTurn(kit),
             NEW k \in Turns, k = n', at' = "done" \/ settled'[k] = "handled"
      PROVE  Told(n)' \/ (/\ KitKept' \/ (CardKept' /\ budget'.faults = 0 /\ at' # "cardBump")
                          /\ ~OldSalvage' /\ budget'.faults <= 1)
  <2>1. n' = n
    BY <1>5, SettledStep DEF Handled
  <2>2. settled \in [Turns -> {"no", "handled", "released"}]
    BY DEF Settles
  <2>3. at = "done" \/ settled[n] = "handled"
    BY <1>5, <2>1, <2>2, SettledStep
  <2>4. at \in Resting \cup {"done"} /\ n \in Turns
    BY <1>5, <2>1, <2>3 DEF Settles
  <2>5. Told(n) \/ (/\ KitKept \/ (CardKept /\ budget.faults = 0 /\ at # "cardBump")
                    /\ ~OldSalvage /\ budget.faults <= 1)
    BY <2>3, <2>4 DEF Tally, TallyDone
  <2>6. CASE Told(n)
    BY <2>1, <2>4, <2>6, ToldStays
  <2>7. CASE /\ KitKept \/ (CardKept /\ budget.faults = 0 /\ at # "cardBump")
             /\ ~OldSalvage /\ budget.faults <= 1
    <3>1. ~OldSalvage' /\ budget'.faults <= 1
      BY <1>1, <1>5, <2>7, OldStep
    <3>2. KitKept => Told(n)' \/ KitKept'
      BY <2>1, <2>4, <2>7, KitStays
    <3>3. ASSUME CardKept, budget.faults = 0, at # "cardBump"
          PROVE  budget'.faults = 0 /\ at' # "cardBump" /\ (Told(n)' \/ CardKept')
      <4>1. ~Fault
        BY <3>3 DEF Fault
      <4>2. at' # "cardBump"
        BY <3>3, <4>1, BootEntry
      <4> QED BY <1>1, <2>1, <2>4, <3>3, <4>2, CardStays
    <3> QED BY <2>7, <3>1, <3>2, <3>3
  <2> QED BY <2>5, <2>6, <2>7
<1> QED BY <1>3, <1>4, <1>5 DEF TallyDone

\* Between the salvage and the end of its turn every detour costs a failure.
LEMMA LateStep ==
  ASSUME IInv, Settles, Next, at \in LateSteps, UNCHANGED n
  PROVE  \/ at' = at
         \/ SettleRecord
         \/ Crash
         \/ at' \in LateSteps /\ Failures' = Failures
         \/ at' \in LateSteps /\ Failures' = Failures + 1 /\ Fault
<1> USE DEF LateSteps, Failures
<1>1. ~OpenCard /\ ~SayNoCard /\ ~OpenKit /\ ~RecordKit /\ ~RecordCard /\ ~StreamKit /\ ~EndRun /\ ~Throw
  BY DEF OpenCard, SayNoCard, OpenKit, RecordKit, RecordCard, StreamKit, EndRun, Throw
<1>2. ~FinalKit /\ ~LatePost /\ ~FinalCard /\ ~Release /\ ~CreateBubble /\ ~FailKit
  BY DEF FinalKit, LatePost, FinalCard, Release, CreateBubble, FailKit
<1>3. ~Boots
  BY DEF Boots, Boot, BootCot, BootCotDrop, BootBump, BootKit, BootKitMark, BootKitDrop, CapCard,
     CapPost,
     CapMark, BootCard, BootCardDrop
<1>4. ~\E kit \in BOOLEAN : StartTurn(kit)
  BY DEF StartTurn, IInv, Types, Counts
<1>5. CASE MarkKit \/ AgainMark \/ SaidMark
  BY <1>5 DEF MarkKit, AgainMark, SaidMark
<1>6. CASE LateStart
  BY <1>6 DEF LateStart, Settles, WithKit
<1>7. CASE LateRecord \/ AgainFinal
  BY <1>7 DEF LateRecord, AgainFinal
<1>8. CASE AgainPost
  BY <1>8 DEF AgainPost, Unposted
<1>9. CASE DropCard \/ DropKit
  BY <1>9 DEF DropCard, DropKit
<1>10. CASE FailStart \/ FailCard \/ FailPost
  BY <1>10 DEF FailStart, FailCard, FailPost
<1>11. CASE Handled
  BY <1>11 DEF Handled
<1>12. ASSUME NEW k \in Turns, LateCommit(k) \/ Beside(k) PROVE at' = at
  BY <1>12 DEF LateCommit, Beside, BubbleMade, WriteCot, CompleteBubble, ReadCot, DropCot, WriteState,
     ChildDies, Cards
<1> QED
  BY <1>1, <1>2, <1>3, <1>4, <1>5, <1>6, <1>7, <1>8, <1>9, <1>10, <1>11, <1>12 DEF Next, Boots, Beside

LEMMA TallySalvageStep ==
  ASSUME IInv, Settles, Tally, Next
  PROVE  TallySalvage'
<1>1. budget.faults \in Nat /\ budget'.faults \in Nat /\ budget'.faults <= budget.faults
      /\ (Fault => budget'.faults = budget.faults - 1)
  BY FaultsStep DEF IInv, Types, Counts, Fault
<1>2. kitRec \in [Turns -> [status : {"none", "streaming", "settled"}, since : Nat]] /\ n \in Nat
  BY DEF IInv, Types, RecType, Counts
<1> SUFFICES ASSUME NEW k \in salvage', k = n', kitRec'[k].status = "streaming"
             PROVE  at' \in LateSteps /\ budget'.faults + Failures' <= 4
  BY DEF TallySalvage
<1>3. CASE \E kit \in BOOLEAN : StartTurn(kit)
  <2>1. n' = n + 1 /\ k \in salvage
    BY <1>3 DEF StartTurn
  <2>2. k \in Turns /\ kitRec[k].status # "none"
    BY <2>1 DEF Settles
  <2>3. k <= n
    BY <2>2 DEF IInv, RecDated
  <2> QED BY <1>2, <2>1, <2>3
<1>4. CASE FinalKit /\ Fault /\ at' = "again"
  <2>1. OnKit /\ Failures' = 1
    BY <1>4 DEF FinalKit, OnKit, Failures
  <2>2. budget.faults <= 4 /\ budget.faults >= 1
    BY <1>1, <1>4 DEF Tally, TallyAll, Fault
  <2> QED BY <1>1, <1>4, <2>1, <2>2 DEF LateSteps
<1>5. CASE FailKit /\ Fault /\ at' = "failStart"
  <2>1. at = "failKit" /\ Failures' = 2
    BY <1>5 DEF FailKit, Failures
  <2>2. budget.faults <= 3 /\ budget.faults >= 1
    BY <1>1, <1>5, <2>1 DEF Tally, TallyAll, Fault
  <2> QED BY <1>1, <1>5, <2>1, <2>2 DEF LateSteps
<1>6. CASE /\ ~\E kit \in BOOLEAN : StartTurn(kit)
           /\ ~(FinalKit /\ Fault /\ at' = "again") /\ ~(FailKit /\ Fault /\ at' = "failStart")
  <2>1. k \in salvage /\ k = n
    <3>1. n' = n
      BY <1>6, SettledStep DEF Handled
    <3> QED BY <1>6, <3>1, SalvageStep DEF FinalKit, FailKit
  <2>2. k \in Turns /\ kitRec[k].status # "none"
    BY <2>1 DEF Settles
  <2>3. ~OpenKit
    <3>1. OpenKit => kitRec[n].status = "none"
      BY DEF OpenKit, IInv, RecFollows
    <3> QED BY <2>1, <2>2, <3>1
  <2>4. ~SettleRecord
    BY <1>2, <2>1, <2>2 DEF SettleRecord
  <2>5. ~Crash
    BY DEF Crash
  <2>6. kitRec[k].status = "streaming"
    BY <2>3, <2>4, <2>5, RecStep DEF IInv, Types
  <2>7. at \in LateSteps /\ budget.faults + Failures <= 4
    BY <2>1, <2>6 DEF Tally, TallySalvage
  <2>8. Failures \in 0 .. 3
    BY DEF Failures
  <2>9. at' = at => Failures' = Failures
    BY DEF Failures
  <2>10. \/ at' \in LateSteps /\ Failures' = Failures
         \/ at' \in LateSteps /\ Failures' = Failures + 1 /\ Fault
    BY <1>6, <2>1, <2>4, <2>5, <2>7, <2>9, LateStep
  <2> QED BY <1>1, <2>7, <2>8, <2>10
<1> QED BY <1>3, <1>4, <1>5, <1>6

-----------------------------------------------------------------------------
(* The ledgers.                                                            *)

LedgerInv == IInv /\ Named /\ DropsShown /\ Settles

LEMMA InitLedger == Init => LedgerInv
<1> SUFFICES ASSUME Init PROVE LedgerInv
  OBVIOUS
<1>1. Named /\ DropsShown
  BY DEF Init, Named, DropsShown, FailSteps
<1>2. Settles
  BY DEF Init, Settles, Resting, WithKit
<1> QED BY <1>1, <1>2, InitIInv DEF LedgerInv

LEMMA NextLedger == LedgerInv /\ [Next]_vars => LedgerInv'
<1>1. ASSUME LedgerInv, Next PROVE LedgerInv'
  <2>1. IInv'
    BY <1>1, NextIInv DEF LedgerInv
  <2>2. Named' /\ Settles'
    BY <1>1, NamedStep, SettlesStep DEF LedgerInv
  <2>3. DropsShown'
    BY <1>1, DropsShownStep DEF LedgerInv
  <2> QED BY <2>1, <2>2, <2>3 DEF LedgerInv
<1>2. ASSUME LedgerInv, UNCHANGED vars PROVE LedgerInv'
  <2> USE <1>2 DEF LedgerInv
  <2>1. IInv'
    BY NextIInv
  <2>2. UNCHANGED <<at, n, h, shown, told, settled, salvage, kitRec, cardFile, kitFile>>
    BY DEF vars, files
  <2>3. Named' /\ Settles'
    BY <2>2 DEF Named, Settles
  <2>4. DropsShown'
    BY <2>2 DEF DropsShown, Unsettled, Ledger
  <2> QED BY <2>1, <2>3, <2>4
<1> QED BY <1>1, <1>2

\* A ledger whose card still spins is let go only when the user was told, the
\* message was released, the retries ran out or a later turn took the slot:
\* every delete of card.json and cardkit.json, in the turn, in handleOne's
\* catch and in the boot.
THEOREM NoCardIsAbandoned == Spec => LedgerKept
<1>1. LedgerInv /\ [Next]_vars => [Excuses]_vars
  BY LedgerStep DEF LedgerInv
<1> QED BY <1>1, InitLedger, NextLedger, PTL DEF Spec, LedgerKept, Excuses, Excused

LEMMA InitTally == Init /\ (\A b \in Budgets : b.faults <= 4) => Tally
<1> SUFFICES ASSUME Init, \A b \in Budgets : b.faults <= 4 PROVE Tally
  OBVIOUS
<1>1. budget.faults <= 4 /\ ~OldSalvage
  BY DEF Init, OldSalvage
<1>2. ~OnKit /\ TallySalvage
  BY DEF Init, OnKit, TallySalvage
<1>3. TallyDone
  BY DEF Init, TallyDone
<1>4. at = "idle"
  BY DEF Init
<1> QED BY <1>1, <1>2, <1>3, <1>4 DEF Tally, TallyAll, TallyKit

LEMMA NextTally == LedgerInv /\ Tally /\ [Next]_vars => Tally'
<1>1. ASSUME LedgerInv, Tally, Next PROVE Tally'
  <2>1. TallyAll' /\ TallyKit' /\ TallySalvage'
    BY <1>1, TallyAllStep, TallyKitStep, TallySalvageStep DEF LedgerInv
  <2>2. TallyDone'
    BY <1>1, TallyDoneStep DEF LedgerInv
  <2> QED BY <2>1, <2>2 DEF Tally
<1>2. ASSUME Tally, UNCHANGED vars PROVE Tally'
  <2>1. UNCHANGED <<at, n, h, lane, kitRec, salvage, shown, told, settled, cardFile, kitFile, budget>>
    BY <1>2 DEF vars, files
  <2>2. (OldSalvage' <=> OldSalvage) /\ Failures' = Failures /\ (OnKit' <=> OnKit)
    BY <2>1 DEF OldSalvage, Failures, OnKit
  <2>3. (KitKept' <=> KitKept) /\ (CardKept' <=> CardKept) /\ (Told(n)' <=> Told(n))
    BY <2>1 DEF KitKept, CardKept, Told, Answered
  <2>4. TallyAll' /\ TallyKit' /\ TallySalvage'
    BY <1>2, <2>1, <2>2, <2>3 DEF Tally, TallyAll, TallyKit, TallySalvage
  <2>5. TallyDone'
    BY <1>2, <2>1, <2>2, <2>3 DEF Tally, TallyDone
  <2> QED BY <2>4, <2>5 DEF Tally
<1> QED BY <1>1, <1>2

LEMMA TallyTold ==
  ASSUME LedgerInv, Tally
  PROVE  UserTold
<1> SUFFICES ASSUME NEW k \in Turns, settled[k] = "handled", ~(k < n)
             PROVE  \/ Answered(k) \/ k \in told
                    \/ \E f \in {"card", "kit"} : Unsettled(f) /\ Ledger(f).turn = k
  BY DEF UserTold
<1>1. k = n
  BY DEF LedgerInv, Settles, IInv, Types, Counts, Turns
<1>2. Told(n) \/ KitKept \/ CardKept
  BY <1>1 DEF Tally, TallyDone
<1>3. KitKept => Unsettled("kit") /\ Ledger("kit").turn = k
  BY <1>1 DEF KitKept, Unsettled, Ledger
<1>4. CardKept => Unsettled("card") /\ Ledger("card").turn = k
  BY <1>1 DEF CardKept, Unsettled, Ledger
<1> QED BY <1>1, <1>2, <1>3, <1>4 DEF Told

\* With at most four failing calls no user of a handled message is left alone:
\* the surfaces and ledgers of handleOne cover for each other so far, and the
\* fifth failure in a row is the one that is only logged.
THEOREM NobodyIsForgotten == Spec => []UserTold
<1> DEFINE Few == \A b \in Budgets : b.faults <= 4
<1>1. CASE Few
  <2>1. Init => Tally
    BY <1>1, InitTally
  <2>2. Spec => [](LedgerInv /\ Tally)
    BY <2>1, InitLedger, NextLedger, NextTally, PTL DEF Spec
  <2> QED BY <2>2, TallyTold, PTL
<1>2. CASE ~Few
  <2>1. LedgerInv => UserTold
    BY <1>2 DEF UserTold
  <2> QED BY <2>1, InitLedger, NextLedger, PTL DEF Spec
<1> QED BY <1>1, <1>2

-----------------------------------------------------------------------------
(* The stream of one card.                                                 *)

Pcs == {"no", "wait", "card", "settings", "text", "footer", "stop", "over"}
Calls == [ch : Channels, op : {"create", "write"}, text : Int]

StreamTypes ==
  /\ asked \in [Buffers -> Int] /\ known \in [Channels -> Int] /\ card \in [Channels -> Int]
  /\ made \subseteq Channels /\ queued \subseteq Channels /\ chain \in Seq(Channels)
  /\ node = Idle \/ node \in Calls
  /\ timers \subseteq {"answer", "cot"} /\ missed \subseteq Channels
  /\ eager \in BOOLEAN /\ closed \in BOOLEAN /\ rebuilt \in {0} \cup Finals
  /\ fin \in [Finals -> [pc : Pcs, text : Int, returned : BOOLEAN]]

\* Texts are counted up from 0, and a queued node is on the chain.
Growing ==
  /\ \A i \in Finals : fin[i].pc = "no"
  /\ \A b \in Buffers : asked[b] >= 0
  /\ \A ch \in queued : \E i \in DOMAIN chain : chain[i] = ch
  /\ known["cot"] \in 0 .. asked["cot"] /\ (node.ch = "cot" => node.text \in 0 .. asked["cot"])
\* Nothing is under way for the answer before its first text.
FirstText ==
  IF eager THEN Newest("answer", asked) # 0
  ELSE /\ "answer" \notin queued \cup timers /\ node.ch # "answer" /\ known["answer"] = 0
       /\ \A i \in DOMAIN chain : chain[i] # "answer"

\* What the handle believes of the card is so, or no text equals it.
Believed(ch) ==
  \/ node.ch = ch \/ card[ch] = known[ch]
  \/ ch = "answer" /\ known[ch] = 0
  \/ ch = "status" /\ known[ch] = Unknown
  \/ ch = "cot" /\ (ch \in missed \/ known[ch] < asked[ch])

\* The newest text of a channel is due, on its way or shown.
Carried(ch) ==
  \/ ch \in missed \cup timers \cup queued
  \/ node.ch = ch /\ node.text = Newest(ch, asked)
  \/ node.ch # ch /\ card[ch] = Newest(ch, asked)

Streams ==
  ~closed => Growing /\ FirstText /\ \A ch \in Channels : Believed(ch) /\ Carried(ch)

LEMMA InitStreams == StreamInit => StreamTypes /\ Streams
<1> SUFFICES ASSUME StreamInit PROVE StreamTypes /\ Streams
  OBVIOUS
<1> USE DEF StreamInit, Channels, Buffers, Idle, NotFinal, Finals, Pcs
<1>0. fin \in [Finals -> [pc : Pcs, text : Int, returned : BOOLEAN]]
  OBVIOUS
<1>1. StreamTypes
  <2>1. chain \in Seq(Channels) /\ node = Idle
    OBVIOUS
  <2>2. made \subseteq Channels /\ queued \subseteq Channels /\ timers \subseteq {"answer", "cot"}
        /\ missed \subseteq Channels /\ eager \in BOOLEAN /\ closed \in BOOLEAN
        /\ rebuilt \in {0} \cup Finals
    OBVIOUS
  <2>3. asked \in [Buffers -> Int] /\ known \in [Channels -> Int] /\ card \in [Channels -> Int]
    OBVIOUS
  <2> HIDE DEF StreamInit, Channels, Buffers, Idle, NotFinal, Finals, Pcs
  <2> QED BY <1>0, <2>1, <2>2, <2>3 DEF StreamTypes
<1>2. Growing /\ FirstText
  BY DEF Growing, FirstText
<1>3. \A ch \in Channels : Believed(ch) /\ Carried(ch)
  BY DEF Believed, Carried, Newest
<1> QED BY <1>1, <1>2, <1>3 DEF Streams

LEMMA TextPut ==
  ASSUME NEW a \in [Buffers -> Int], NEW b, NEW text \in Nat
  PROVE  [a EXCEPT ![b] = text] \in [Buffers -> Int]
<1>1. text \in Int
  OBVIOUS
<1>2. SUFFICES ASSUME NEW k \in Buffers PROVE (IF k = b THEN text ELSE a[k]) \in Int
  OBVIOUS
<1> QED BY <1>1

LEMMA NewestType ==
  ASSUME NEW a \in [Buffers -> Int], NEW ch \in Channels
  PROVE  Newest(ch, a) \in Int
BY DEF Newest, Buffers, Channels

\* Only the answer's text depends on two buffers.
LEMMA NewestElse ==
  ASSUME NEW a, NEW b, NEW ch \in Channels, b[ch] = a[ch], b["progress"] = a["progress"]
  PROVE  Newest(ch, b) = Newest(ch, a)
BY DEF Newest

LEMMA PatchType ==
  ASSUME NEW ch \in Channels, NEW a, queued \subseteq Channels, chain \in Seq(Channels),
         Patch(ch, a, queued, chain)
  PROVE  queued' \subseteq Channels /\ chain' \in Seq(Channels)
BY DEF Patch

\* What a patch queues is on the chain.
LEMMA PatchQueues ==
  ASSUME NEW ch \in Channels, NEW a, chain \in Seq(Channels),
         \A k \in queued : \E i \in DOMAIN chain : chain[i] = k,
         Patch(ch, a, queued, chain)
  PROVE  /\ \A k \in queued' : \E i \in DOMAIN chain' : chain'[i] = k
         /\ queued \subseteq queued' /\ queued' \subseteq queued \cup {ch}
         /\ Newest(ch, a) \notin {0, known[ch]} => ch \in queued'
         /\ \A i \in DOMAIN chain' : chain'[i] = ch \/ \E j \in DOMAIN chain : chain'[i] = chain[j]
<1>1. CASE Newest(ch, a) \notin {0, known[ch]} /\ ch \notin queued
  <2>1. queued' = queued \cup {ch} /\ chain' = Append(chain, ch)
    BY <1>1 DEF Patch
  <2>2. /\ Len(chain') = Len(chain) + 1 /\ chain'[Len(chain) + 1] = ch /\ Len(chain) \in Nat
        /\ \A i \in DOMAIN chain : i \in DOMAIN chain' /\ chain'[i] = chain[i]
        /\ Len(chain) + 1 \in DOMAIN chain'
        /\ \A i \in DOMAIN chain' : i = Len(chain) + 1 \/ i \in DOMAIN chain
    BY <2>1
  <2> QED BY <2>1, <2>2
<1>2. CASE ~(Newest(ch, a) \notin {0, known[ch]} /\ ch \notin queued)
  BY <1>2 DEF Patch
<1> QED BY <1>1, <1>2

LEMMA SayStep ==
  ASSUME StreamTypes, Streams, NEW b \in {"answer", "progress"}, NEW text \in Texts(b) \ {0},
         Say(b, text)
  PROVE  StreamTypes' /\ Streams'
<1> DEFINE texts == [asked EXCEPT ![b] = text]
<1>1. /\ ~closed /\ asked' = texts /\ eager' = TRUE /\ missed' = missed \ {"answer"}
      /\ UNCHANGED <<known, made, node, closed, fin, card, rebuilt, failures>>
      /\ IF eager \/ "answer" \in timers
         THEN timers' = timers \cup {"answer"} /\ UNCHANGED <<queued, chain>>
         ELSE Patch("answer", texts, queued, chain) /\ UNCHANGED timers
  BY DEF Say
<1>2. text \in Nat /\ text # 0
  BY StreamAssumption DEF Texts, Buffers, Channels
<1>3. texts \in [Buffers -> Int] /\ Newest("answer", texts) # 0
      /\ \A ch \in {"status", "cot"} : texts[ch] = asked[ch] /\ Newest(ch, texts) = Newest(ch, asked)
      /\ \A k \in Buffers : Growing => texts[k] >= 0
  BY <1>2 DEF StreamTypes, Newest, Buffers, Channels, Growing
<1> HIDE DEF texts
<1>4. Growing /\ FirstText /\ \A ch \in Channels : Believed(ch) /\ Carried(ch)
  BY <1>1 DEF Streams
<1>5. /\ queued' \subseteq Channels /\ chain' \in Seq(Channels)
      /\ \A k \in queued' : \E i \in DOMAIN chain' : chain'[i] = k
      /\ queued \subseteq queued' /\ "answer" \in timers' \cup queued' /\ timers \subseteq timers'
  <2>1. CASE eager \/ "answer" \in timers
    BY <1>1, <1>4, <2>1 DEF StreamTypes, Growing
  <2>2. CASE ~(eager \/ "answer" \in timers)
    <3>1. Patch("answer", texts, queued, chain) /\ timers' = timers /\ known["answer"] = 0
      BY <1>1, <1>4, <2>2 DEF FirstText
    <3>2. chain \in Seq(Channels) /\ queued \subseteq Channels /\ "answer" \in Channels
          /\ \A k \in queued : \E i \in DOMAIN chain : chain[i] = k
      BY <1>4 DEF StreamTypes, Growing, Channels
    <3> QED BY <1>3, <3>1, <3>2, PatchType, PatchQueues
  <2> QED BY <2>1, <2>2
<1>6. StreamTypes'
  BY <1>1, <1>3, <1>5 DEF StreamTypes
<1>7. Growing' /\ FirstText'
  BY <1>1, <1>3, <1>4, <1>5 DEF Growing, FirstText
<1>8. ASSUME NEW ch \in Channels PROVE Believed(ch)' /\ Carried(ch)'
  BY <1>1, <1>3, <1>4, <1>5 DEF Believed, Carried, Channels
<1> QED BY <1>6, <1>7, <1>8 DEF Streams

\* A status line, and what the same event adds to the panel.
LEMMA StatusStep ==
  ASSUME StreamTypes, Streams, NEW text \in Nat, NEW more \in Nat, Status(text, more)
  PROVE  StreamTypes' /\ Streams'
<1>1. /\ ~closed /\ asked' = [asked EXCEPT !["status"] = text, !["cot"] = @ + more]
      /\ timers' = (IF more > 0 THEN timers \cup {"cot"} ELSE timers)
      /\ queued' = queued \cup {"status"}
      /\ chain' = (IF "status" \in queued THEN chain ELSE Append(chain, "status"))
      /\ missed' = missed \ (IF more > 0 THEN {"status", "cot"} ELSE {"status"})
      /\ UNCHANGED <<known, made, node, eager, closed, fin, card, rebuilt, failures>>
  BY DEF Status
<1>2. Growing /\ FirstText /\ \A ch \in Channels : Believed(ch) /\ Carried(ch)
  BY <1>1 DEF Streams
<1>3. /\ asked' \in [Buffers -> Int] /\ \A b \in Buffers : asked'[b] >= 0
      /\ asked'["cot"] = asked["cot"] + more /\ Newest("answer", asked') = Newest("answer", asked)
      /\ Newest("cot", asked') = asked["cot"] + more /\ Newest("cot", asked) = asked["cot"]
      /\ asked["cot"] \in Int /\ known["cot"] \in Int
  <2>1. asked \in [Buffers -> Int] /\ known["cot"] \in Int /\ \A b \in Buffers : asked[b] >= 0
    BY <1>2 DEF StreamTypes, Growing, Channels
  <2>2. asked["cot"] \in Nat
    BY <2>1 DEF Buffers, Channels
  <2>3. asked["cot"] + more \in Nat
    BY <2>2
  <2>4. asked' = [asked EXCEPT !["status"] = text, !["cot"] = asked["cot"] + more]
    BY <1>1
  <2>5. \A b \in Buffers : asked'[b] = IF b = "status" THEN text
                                      ELSE IF b = "cot" THEN asked["cot"] + more ELSE asked[b]
    BY <2>1, <2>4 DEF Buffers, Channels
  <2>6. asked' \in [Buffers -> Int]
    <3> DEFINE mid == [asked EXCEPT !["status"] = text]
    <3>1. mid \in [Buffers -> Int]
      BY <2>1, TextPut
    <3>2. asked' = [mid EXCEPT !["cot"] = asked["cot"] + more]
      BY <2>4
    <3> HIDE DEF mid
    <3> QED BY <2>3, <3>1, <3>2, TextPut
  <2>7. \A b \in Buffers : asked'[b] >= 0
    BY <2>1, <2>3, <2>5
  <2> QED BY <2>1, <2>2, <2>5, <2>6, <2>7 DEF Newest, Buffers, Channels
<1>4. chain' \in Seq(Channels) /\ \A k \in queued' : \E i \in DOMAIN chain' : chain'[i] = k
  <2>1. CASE "status" \in queued
    BY <1>1, <1>2, <2>1 DEF Growing, StreamTypes
  <2>2. CASE "status" \notin queued
    <3>1. chain' = Append(chain, "status") /\ chain \in Seq(Channels) /\ "status" \in Channels
      BY <1>1, <2>2 DEF StreamTypes, Channels
    <3>2. chain' \in Seq(Channels) /\ Len(chain') = Len(chain) + 1 /\ Len(chain) \in Nat
          /\ chain'[Len(chain) + 1] = "status" /\ Len(chain) + 1 \in DOMAIN chain'
          /\ \A i \in DOMAIN chain : i \in DOMAIN chain' /\ chain'[i] = chain[i]
      BY <3>1
    <3> QED BY <1>1, <1>2, <3>2 DEF Growing
  <2> QED BY <2>1, <2>2
<1>5. StreamTypes'
  BY <1>1, <1>3, <1>4 DEF StreamTypes, Channels
<1>6. Growing' /\ FirstText'
  <2>1. node.ch = "cot" => node.text \in Int
    BY DEF StreamTypes, Idle, Calls
  <2>2. known'["cot"] \in 0 .. asked'["cot"] /\ (node'.ch = "cot" => node'.text \in 0 .. asked'["cot"])
    BY <1>1, <1>2, <1>3, <2>1 DEF Growing
  <2>3. FirstText'
    BY <1>1, <1>2, <1>3 DEF FirstText
  <2> QED BY <1>1, <1>2, <1>3, <1>4, <2>2, <2>3 DEF Growing
<1>7. Believed("answer")' /\ Believed("status")' /\ Carried("answer")' /\ Carried("status")'
  BY <1>1, <1>2, <1>3 DEF Believed, Carried, Channels
<1>8. Believed("cot")' /\ Carried("cot")'
  BY <1>1, <1>2, <1>3 DEF Believed, Carried, Channels, Growing
<1> QED BY <1>5, <1>6, <1>7, <1>8 DEF Streams, Channels

LEMMA ThinkStep ==
  ASSUME StreamTypes, Streams, Think
  PROVE  StreamTypes' /\ Streams'
<1>1. /\ ~closed /\ asked' = [asked EXCEPT !["cot"] = @ + 1]
      /\ timers' = timers \cup {"cot"} /\ missed' = missed \ {"cot"}
      /\ UNCHANGED <<known, made, queued, chain, node, eager, closed, fin, card, rebuilt, failures>>
  BY DEF Think
<1>2. Growing /\ FirstText /\ \A ch \in Channels : Believed(ch) /\ Carried(ch)
  BY <1>1 DEF Streams
<1>3. /\ asked' \in [Buffers -> Int] /\ \A b \in Buffers : asked'[b] >= 0
      /\ asked'["cot"] = asked["cot"] + 1 /\ Newest("answer", asked') = Newest("answer", asked)
      /\ Newest("status", asked') = Newest("status", asked)
      /\ asked["cot"] \in Int /\ known["cot"] \in Int /\ (node.ch = "cot" => node.text \in Int)
  BY <1>1, <1>2 DEF StreamTypes, Growing, Newest, Buffers, Channels, Idle, Calls
<1>4. StreamTypes'
  BY <1>1, <1>3 DEF StreamTypes
<1>5. Growing' /\ FirstText'
  BY <1>1, <1>2, <1>3 DEF Growing, FirstText
<1>6. \A ch \in Channels : Believed(ch)' /\ Carried(ch)'
  BY <1>1, <1>2, <1>3 DEF Believed, Carried, Channels, Growing
<1> QED BY <1>4, <1>5, <1>6 DEF Streams

LEMMA FireStep ==
  ASSUME StreamTypes, Streams, NEW ch \in {"answer", "cot"}, Fire(ch)
  PROVE  StreamTypes' /\ Streams'
<1>1. /\ ch \in timers /\ timers' = timers \ {ch} /\ Patch(ch, asked, queued, chain)
      /\ missed' = (IF Overtaken(ch, asked) THEN missed \cup {ch} ELSE missed)
      /\ UNCHANGED <<asked, known, made, node, eager, closed, fin, card, rebuilt, failures>>
      /\ ch \in Channels
  BY DEF Fire, Channels
<1>2. chain \in Seq(Channels) /\ queued \subseteq Channels
  BY DEF StreamTypes
<1>3. queued' \subseteq Channels /\ chain' \in Seq(Channels)
  BY <1>1, <1>2, PatchType
<1>4. StreamTypes'
  BY <1>1, <1>3 DEF StreamTypes, Overtaken
<1>5. ASSUME ~closed PROVE Growing' /\ FirstText' /\ \A c \in Channels : Believed(c)' /\ Carried(c)'
  <2>1. Growing /\ FirstText /\ \A c \in Channels : Believed(c) /\ Carried(c)
    BY <1>5 DEF Streams
  <2>2. /\ \A k \in queued' : \E i \in DOMAIN chain' : chain'[i] = k
        /\ queued \subseteq queued' /\ queued' \subseteq queued \cup {ch}
        /\ Newest(ch, asked) \notin {0, known[ch]} => ch \in queued'
        /\ \A i \in DOMAIN chain' : chain'[i] = ch \/ \E j \in DOMAIN chain : chain'[i] = chain[j]
    BY <1>1, <1>2, <2>1, PatchQueues DEF Growing
  <2>3. Growing' /\ FirstText'
    BY <1>1, <2>1, <2>2 DEF Growing, FirstText
  <2>4. ASSUME NEW c \in Channels PROVE Believed(c)'
    BY <1>1, <2>1, <2>2 DEF Believed, Channels
  <2>5. ASSUME NEW c \in Channels, c # ch PROVE Carried(c)'
    BY <1>1, <2>1, <2>2, <2>5 DEF Carried, Channels
  <2>6. Carried(ch)'
    <3>1. CASE ch \in queued' \/ Overtaken(ch, asked)
      BY <1>1, <3>1 DEF Carried
    <3>2. CASE ~(ch \in queued' \/ Overtaken(ch, asked))
      <4>1. Newest(ch, asked) = 0 \/ Newest(ch, asked) = known[ch]
        BY <2>2, <3>2
      <4>2. Newest(ch, asked) = 0 => ch = "cot" /\ asked["cot"] = 0 /\ known["cot"] = 0
        BY <1>1, <2>1 DEF FirstText, Newest, Growing
      <4> QED BY <1>1, <2>1, <3>2, <4>1, <4>2 DEF Carried, Believed, Overtaken, Newest, FirstText,
         Growing, StreamTypes, Channels, Buffers
    <3> QED BY <3>1, <3>2
  <2> QED BY <2>3, <2>4, <2>5, <2>6
<1> QED BY <1>1, <1>4, <1>5 DEF Streams

\* A node takes its text when it starts; a skipped one belongs to a closed handle.
LEMMA NodeStartStep ==
  ASSUME StreamTypes, Streams, StartNode
  PROVE  StreamTypes' /\ Streams'
<1> SUFFICES ASSUME NEW ch, ch = Head(chain), NEW text, text = Newest(ch, asked)
             PROVE  StreamTypes' /\ Streams'
  OBVIOUS
<1>1. /\ node = Idle /\ chain # << >> /\ ~closed
      /\ chain' = Tail(chain) /\ queued' = queued \ {ch}
      /\ node' = (IF ch \notin made THEN Call(ch, "create", text)
                  ELSE IF text = known[ch] THEN Idle ELSE Call(ch, "write", text))
      /\ made' = (IF ch = "cot" THEN made \cup {ch} ELSE made)
      /\ UNCHANGED <<asked, known, timers, eager, closed, fin, card, rebuilt, missed, failures>>
  BY DEF StartNode, Unqueued
<1>2. Growing /\ FirstText /\ \A c \in Channels : Believed(c) /\ Carried(c)
  BY <1>1 DEF Streams
<1>3. chain \in Seq(Channels) /\ asked \in [Buffers -> Int]
  BY DEF StreamTypes
<1>4. ch \in Channels /\ Tail(chain) \in Seq(Channels)
  BY <1>1, <1>3
<1>5. text \in Int
  BY <1>3, <1>4, NewestType
<1>6. \A k \in queued' : \E i \in DOMAIN chain' : chain'[i] = k
  <2> SUFFICES ASSUME NEW k \in queued, k # ch PROVE \E i \in DOMAIN Tail(chain) : Tail(chain)[i] = k
    BY <1>1
  <2>1. PICK i \in DOMAIN chain : chain[i] = k
    BY <1>2 DEF Growing
  <2>2. i - 1 \in DOMAIN Tail(chain) /\ Tail(chain)[i - 1] = k
    BY <1>1, <1>3, <2>1
  <2> QED BY <2>2
<1>7. node' = Idle \/ (node' \in Calls /\ node'.ch = ch /\ node'.text = text)
  BY <1>1, <1>4, <1>5 DEF Call, Calls
<1>8. StreamTypes'
  <2>1. made' \subseteq Channels /\ queued' \subseteq Channels
    BY <1>1, <1>4 DEF StreamTypes
  <2> QED BY <1>1, <1>4, <1>7, <2>1 DEF StreamTypes
<1>9. Growing'
  <2>1. ch = "cot" => text \in 0 .. asked["cot"]
    BY <1>2, <1>3 DEF Growing, Newest, Buffers, Channels
  <2>2. node'.ch = "cot" => node'.text \in 0 .. asked["cot"]
    BY <1>7, <2>1 DEF Idle
  <2> QED BY <1>1, <1>2, <1>6, <2>2 DEF Growing
<1>10. ch = "answer" => eager
  <2>1. 1 \in DOMAIN chain /\ chain[1] = ch
    BY <1>1, <1>3
  <2> QED BY <1>2, <2>1 DEF FirstText
<1>11. FirstText'
  <2>1. \A i \in DOMAIN chain' : \E j \in DOMAIN chain : chain'[i] = chain[j]
    <3> SUFFICES ASSUME NEW i \in DOMAIN chain' PROVE \E j \in DOMAIN chain : chain'[i] = chain[j]
      OBVIOUS
    <3>1. i + 1 \in DOMAIN chain /\ chain'[i] = chain[i + 1]
      BY <1>1, <1>3
    <3> QED BY <3>1
  <2> QED BY <1>1, <1>2, <1>7, <1>10, <2>1 DEF FirstText, Idle
<1>12. ASSUME NEW c \in Channels, c # ch PROVE Believed(c)' /\ Carried(c)'
  <2>1. Newest(c, asked') = Newest(c, asked) /\ node.ch # c /\ node'.ch # c
    BY <1>1, <1>7, <1>12 DEF Idle, Channels
  <2>2. c \in queued => c \in queued'
    BY <1>1, <1>12
  <2>3. Believed(c)'
    BY <1>1, <1>2, <2>1 DEF Believed
  <2>4. Carried(c)'
    BY <1>1, <1>2, <2>1, <2>2 DEF Carried
  <2> QED BY <2>3, <2>4
<1>13. Believed(ch)' /\ Carried(ch)'
  <2>1. text = Newest(ch, asked) /\ text = Newest(ch, asked')
    BY <1>1
  <2>2. CASE node'.ch = ch /\ node'.text = text
    BY <2>1, <2>2 DEF Believed, Carried
  <2>3. CASE node' = Idle
    <3>1. text = known[ch]
      BY <1>1, <2>3 DEF Call, Idle
    <3>2. Believed(ch) /\ node.ch # ch
      BY <1>1, <1>2, <1>4 DEF Idle, Channels
    <3>3. ch = "answer" => text # 0
      BY <1>2, <1>10, <2>1 DEF FirstText
    <3>4. ch = "status" => text # Unknown
      BY <1>2, <2>1 DEF Growing, Newest, Unknown, Buffers, Channels
    <3>5. ch = "cot" => text = asked["cot"] /\ ~(known["cot"] < asked["cot"])
      BY <1>2, <2>1, <3>1 DEF Growing, Newest
    <3>6. card[ch] = known[ch] \/ ch \in missed
      BY <3>1, <3>2, <3>3, <3>4, <3>5 DEF Believed
    <3> QED BY <1>1, <2>1, <2>3, <3>1, <3>2, <3>6 DEF Believed, Carried
  <2> QED BY <1>7, <2>2, <2>3
<1> QED BY <1>1, <1>8, <1>9, <1>11, <1>12, <1>13 DEF Streams

LEMMA NodeOkStep ==
  ASSUME StreamTypes, Streams, NodeSucceeds
  PROVE  StreamTypes' /\ Streams'
<1> SUFFICES ASSUME NEW ch, ch = node.ch, NEW text, text = Newest(ch, asked)
             PROVE  StreamTypes' /\ Streams'
  OBVIOUS
<1>1. /\ node # Idle /\ card' = [card EXCEPT ![ch] = node.text]
      /\ known' = [known EXCEPT ![ch] = node.text] /\ made' = made \cup {ch}
      /\ node' = (IF node.op = "create" /\ ~closed /\ text # node.text
                  THEN Call(ch, "write", text) ELSE Idle)
      /\ UNCHANGED <<asked, queued, chain, timers, eager, closed, fin, rebuilt, missed>>
  BY DEF NodeSucceeds, Outcome, Landed
<1>2. node \in Calls /\ ch \in Channels /\ node.text \in Int /\ asked \in [Buffers -> Int]
  BY <1>1 DEF StreamTypes, Calls
<1>3. text \in Int
  BY <1>2, NewestType
<1>4. node' = Idle \/ (node' \in Calls /\ node'.ch = ch /\ node'.text = text)
  BY <1>1, <1>2, <1>3 DEF Call, Calls
<1>5. StreamTypes'
  BY <1>1, <1>2, <1>4 DEF StreamTypes
<1>6. ASSUME ~closed PROVE Growing' /\ FirstText' /\ \A c \in Channels : Believed(c)' /\ Carried(c)'
  <2>1. Growing /\ FirstText /\ \A c \in Channels : Believed(c) /\ Carried(c)
    BY <1>6 DEF Streams
  <2>2. known' \in [Channels -> Int] /\ card' \in [Channels -> Int]
        /\ known'[ch] = node.text /\ card'[ch] = node.text
        /\ \A c \in Channels \ {ch} : known'[c] = known[c] /\ card'[c] = card[c]
    BY <1>1, <1>2 DEF StreamTypes
  <2>3. ch = "cot" => text = asked["cot"] /\ asked["cot"] \in Nat
    BY <1>2, <2>1 DEF Growing, Newest, Buffers, Channels
  <2>4. Growing'
    <3>1. known'["cot"] \in 0 .. asked["cot"]
      BY <2>1, <2>2 DEF Growing, Channels
    <3>2. node'.ch = "cot" => node'.text \in 0 .. asked["cot"]
      BY <1>4, <2>3 DEF Idle
    <3> QED BY <1>1, <2>1, <3>1, <3>2 DEF Growing
  <2>5. FirstText'
    BY <1>1, <1>4, <2>1, <2>2 DEF FirstText, Idle, Channels
  <2>6. ASSUME NEW c \in Channels, c # ch PROVE Believed(c)' /\ Carried(c)'
    <3>1. Newest(c, asked') = Newest(c, asked) /\ node.ch # c /\ node'.ch # c
      BY <1>1, <1>4, <2>6 DEF Idle, Channels
    <3>2. known'[c] = known[c] /\ card'[c] = card[c]
      BY <2>2, <2>6
    <3>3. Believed(c)'
      BY <1>1, <2>1, <3>1, <3>2 DEF Believed
    <3>4. Carried(c)'
      BY <1>1, <2>1, <3>1, <3>2 DEF Carried
    <3> QED BY <3>3, <3>4
  <2>7. Believed(ch)' /\ Carried(ch)'
    <3>1. text = Newest(ch, asked')
      BY <1>1
    <3>2. node'.ch # ch => ch \in missed \cup timers \cup queued \/ node.text = text
      BY <1>1, <1>2, <2>1 DEF Carried, Call
    <3>3. Believed(ch)'
      BY <2>2 DEF Believed
    <3>4. CASE node' = Idle
      BY <1>1, <1>2, <2>2, <3>1, <3>2, <3>3, <3>4 DEF Carried, Idle, Channels
    <3>5. CASE node'.ch = ch /\ node'.text = text
      BY <3>1, <3>3, <3>5 DEF Carried
    <3> QED BY <1>4, <3>3, <3>4, <3>5
  <2> QED BY <2>4, <2>5, <2>6, <2>7
<1> QED BY <1>1, <1>5, <1>6 DEF Streams

LEMMA NodeFailStep ==
  ASSUME StreamTypes, Streams, NEW landed \in BOOLEAN, NodeFails(landed)
  PROVE  StreamTypes' /\ Streams'
<1> SUFFICES ASSUME NEW ch, ch = node.ch
             PROVE  StreamTypes' /\ Streams'
  OBVIOUS
<1>1. /\ node # Idle /\ card' = (IF landed THEN [card EXCEPT ![ch] = node.text] ELSE card)
      /\ known' = [known EXCEPT !["answer"] = IF ch = "answer" THEN 0 ELSE @,
                                !["status"] = IF ch = "status" THEN Unknown ELSE @]
      /\ node' = Idle /\ missed' = missed \cup {ch}
      /\ UNCHANGED <<asked, made, queued, chain, timers, eager, closed, fin, rebuilt>>
  BY DEF NodeFails, Outcome, Landed
<1>2. node \in Calls /\ ch \in Channels /\ node.text \in Int /\ known \in [Channels -> Int]
      /\ card \in [Channels -> Int]
  BY <1>1 DEF StreamTypes, Calls
<1>3. /\ known' \in [Channels -> Int]
      /\ known'["answer"] = (IF ch = "answer" THEN 0 ELSE known["answer"])
      /\ known'["status"] = (IF ch = "status" THEN Unknown ELSE known["status"])
      /\ known'["cot"] = known["cot"]
  BY <1>1, <1>2 DEF Channels, Unknown
<1>4. card' \in [Channels -> Int] /\ \A c \in Channels \ {ch} : card'[c] = card[c]
  BY <1>1, <1>2
<1>5. StreamTypes'
  BY <1>1, <1>2, <1>3, <1>4 DEF StreamTypes
<1>6. ASSUME ~closed PROVE Growing' /\ FirstText' /\ \A c \in Channels : Believed(c)' /\ Carried(c)'
  <2>1. Growing /\ FirstText /\ \A c \in Channels : Believed(c) /\ Carried(c)
    BY <1>6 DEF Streams
  <2>2. Growing' /\ FirstText'
    BY <1>1, <1>3, <2>1 DEF Growing, FirstText, Idle
  <2>3. ASSUME NEW c \in Channels PROVE Believed(c)' /\ Carried(c)'
    <3>1. CASE c = ch
      BY <1>1, <1>2, <1>3, <3>1 DEF Believed, Carried, Channels
    <3>2. CASE c # ch
      BY <1>1, <1>3, <1>4, <2>1, <3>2 DEF Believed, Carried, Channels, Idle
    <3> QED BY <3>1, <3>2
  <2> QED BY <2>2, <2>3
<1> QED BY <1>1, <1>5, <1>6 DEF Streams

\* finalize and its salvage: the handle is closed.
LEMMA FinalStreams ==
  ASSUME StreamTypes, Streams, NEW i \in Finals,
         \/ Finalize(i) \/ Rebuild(i) \/ RebuildSucceeds(i) \/ BudgetEnds(i)
         \/ \E landed \in BOOLEAN : RebuildFails(i, landed)
         \/ \E ok, landed \in BOOLEAN : Salvage(i, ok, landed)
         \/ \E ok \in BOOLEAN : SettingsEnd(i, ok)
  PROVE  StreamTypes' /\ Streams'
<1>1. fin[i] \in [pc : Pcs, text : Int, returned : BOOLEAN]
  BY DEF StreamTypes
<1>2. fin[i].pc # "no" => closed
  BY DEF Streams, Growing
<1>3. ASSUME NEW d \in [pc : Pcs, text : Int, returned : BOOLEAN], fin' = [fin EXCEPT ![i] = d]
      PROVE  fin' \in [Finals -> [pc : Pcs, text : Int, returned : BOOLEAN]]
  BY <1>3 DEF StreamTypes
<1>4. ASSUME NEW pc \in Pcs, fin' = [fin EXCEPT ![i] = [fin[i] EXCEPT !.pc = pc]]
      PROVE  fin' \in [Finals -> [pc : Pcs, text : Int, returned : BOOLEAN]]
  <2>1. [fin[i] EXCEPT !.pc = pc] \in [pc : Pcs, text : Int, returned : BOOLEAN]
    BY <1>1
  <2> QED BY <1>3, <1>4, <2>1
<1>5. CASE Finalize(i)
  <2>1. PICK text \in FinalTexts(i) :
          fin' = [fin EXCEPT ![i] = [pc |-> "wait", text |-> text, returned |-> FALSE]]
    BY <1>5 DEF Finalize
  <2>2. text \in Int
    <3>1. Newest("answer", asked) \in Int
      BY NewestType DEF StreamTypes, Channels
    <3> QED BY <3>1 DEF FinalTexts, Fallback, Finals
  <2>3. [pc |-> "wait", text |-> text, returned |-> FALSE] \in [pc : Pcs, text : Int, returned : BOOLEAN]
    BY <2>2 DEF Pcs
  <2>4. fin' \in [Finals -> [pc : Pcs, text : Int, returned : BOOLEAN]]
    BY <1>3, <2>1, <2>3
  <2>5. closed' = TRUE /\ timers' = {}
        /\ UNCHANGED <<asked, known, made, queued, chain, node, eager, card, rebuilt, missed, failures>>
    BY <1>5 DEF Finalize
  <2> QED BY <2>4, <2>5 DEF StreamTypes, Streams
<1>6. CASE Rebuild(i)
  <2>1. fin' = [fin EXCEPT ![i] = [fin[i] EXCEPT !.pc = "card"]] /\ fin[i].pc = "wait"
        /\ UNCHANGED <<asked, known, made, queued, chain, node, timers, eager, closed, card,
                       rebuilt, missed, failures>>
    BY <1>6 DEF Rebuild
  <2>2. fin' \in [Finals -> [pc : Pcs, text : Int, returned : BOOLEAN]]
    BY <1>4, <2>1 DEF Pcs
  <2> QED BY <1>2, <2>1, <2>2 DEF StreamTypes, Streams
<1>7. CASE RebuildSucceeds(i)
  <2>1. /\ fin[i].pc = "card" /\ fin' = [fin EXCEPT ![i] = [fin[i] EXCEPT !.pc = "settings"]]
        /\ asked' = [asked EXCEPT !["answer"] = fin[i].text] /\ rebuilt' = i
        /\ card' = [card EXCEPT !["answer"] = fin[i].text, !["cot"] = asked["cot"]]
        /\ UNCHANGED <<known, made, queued, chain, node, timers, eager, closed, missed, failures>>
    BY <1>7 DEF RebuildSucceeds, Rebuilds
  <2>2. fin' \in [Finals -> [pc : Pcs, text : Int, returned : BOOLEAN]]
    BY <1>4, <2>1 DEF Pcs
  <2>3. asked' \in [Buffers -> Int] /\ card' \in [Channels -> Int]
    BY <1>1, <2>1 DEF StreamTypes, Buffers, Channels
  <2> QED BY <1>2, <2>1, <2>2, <2>3 DEF StreamTypes, Streams
<1>8. CASE BudgetEnds(i)
  <2>1. fin' = [fin EXCEPT ![i] = [fin[i] EXCEPT !.returned = TRUE]] /\ fin[i].pc # "no"
        /\ UNCHANGED <<Streaming, known, made, card, rebuilt, failures>>
    BY <1>8 DEF BudgetEnds
  <2>2. [fin[i] EXCEPT !.returned = TRUE] \in [pc : Pcs, text : Int, returned : BOOLEAN]
    BY <1>1
  <2>3. fin' \in [Finals -> [pc : Pcs, text : Int, returned : BOOLEAN]]
    BY <1>3, <2>1, <2>2
  <2> QED BY <1>2, <2>1, <2>3 DEF StreamTypes, Streams, Streaming
<1>9. ASSUME NEW landed \in BOOLEAN, RebuildFails(i, landed) PROVE StreamTypes' /\ Streams'
  <2>1. PICK pc \in {"text", "footer"} : fin' = [fin EXCEPT ![i] = [fin[i] EXCEPT !.pc = pc]]
    BY <1>9 DEF RebuildFails
  <2>2. fin' \in [Finals -> [pc : Pcs, text : Int, returned : BOOLEAN]]
    BY <1>4, <2>1 DEF Pcs
  <2>3. fin[i].pc = "card" /\ UNCHANGED <<Streaming, known, made>> /\ Rebuilds(i, landed)
    BY <1>9 DEF RebuildFails
  <2>4. card' \in [Channels -> Int] /\ rebuilt' \in {0} \cup Finals
    BY <1>1, <2>3 DEF Rebuilds, StreamTypes, Buffers, Channels
  <2> QED BY <1>2, <2>2, <2>3, <2>4 DEF StreamTypes, Streams, Streaming
<1>10. ASSUME NEW ok \in BOOLEAN, NEW landed \in BOOLEAN, Salvage(i, ok, landed)
       PROVE  StreamTypes' /\ Streams'
  <2>1. PICK pc \in {"footer", "stop"} : fin' = [fin EXCEPT ![i] = [fin[i] EXCEPT !.pc = pc]]
    BY <1>10 DEF Salvage
  <2>2. fin' \in [Finals -> [pc : Pcs, text : Int, returned : BOOLEAN]]
    BY <1>4, <2>1 DEF Pcs
  <2>3. fin[i].pc \in {"text", "footer"} /\ UNCHANGED <<Streaming, rebuilt>>
        /\ known' = (IF ok /\ fin[i].pc = "text" THEN [known EXCEPT !["answer"] = fin[i].text] ELSE known)
        /\ made' = (IF ok /\ fin[i].pc = "text" THEN made \cup {"answer"} ELSE made)
    BY <1>10 DEF Salvage
  <2>4. PICK call \in Calls : Outcome(call, ok, landed)
    <3>1. Call("status", "write", Fallback) \in Calls
      BY DEF Call, Calls, Fallback, Channels
    <3>2. \A op \in {"create", "write"} : Call("answer", op, fin[i].text) \in Calls
      BY <1>1 DEF Call, Calls, Channels
    <3>3. CASE fin[i].pc = "footer"
      BY <1>10, <3>1, <3>3 DEF Salvage
    <3>4. CASE fin[i].pc # "footer" /\ "answer" \in made
      BY <1>10, <3>2, <3>4 DEF Salvage
    <3>5. CASE fin[i].pc # "footer" /\ "answer" \notin made
      BY <1>10, <3>2, <3>5 DEF Salvage
    <3> QED BY <3>3, <3>4, <3>5
  <2>5. card' \in [Channels -> Int]
    BY <2>4 DEF Outcome, Landed, Calls, StreamTypes
  <2>6. known' \in [Channels -> Int] /\ made' \subseteq Channels
    BY <1>1, <2>3 DEF StreamTypes, Channels
  <2> QED BY <1>2, <2>2, <2>3, <2>5, <2>6 DEF StreamTypes, Streams, Streaming
<1>11. ASSUME NEW ok \in BOOLEAN, SettingsEnd(i, ok) PROVE StreamTypes' /\ Streams'
  <2>1. PICK back \in BOOLEAN :
          fin' = [fin EXCEPT ![i] = [fin[i] EXCEPT !.pc = "over", !.returned = back]]
    <3> DEFINE gave == (fin[i].returned \/ fin[i].pc = "stop" \/ ~ok)
    <3>1. fin' = [fin EXCEPT ![i] = [fin[i] EXCEPT !.pc = "over", !.returned = gave]]
      BY <1>11 DEF SettingsEnd
    <3>2. gave \in BOOLEAN
      OBVIOUS
    <3> HIDE DEF gave
    <3> QED BY <3>1, <3>2
  <2>2. [fin[i] EXCEPT !.pc = "over", !.returned = back] \in [pc : Pcs, text : Int, returned : BOOLEAN]
    BY <1>1 DEF Pcs
  <2>3. fin' \in [Finals -> [pc : Pcs, text : Int, returned : BOOLEAN]]
    BY <1>3, <2>1, <2>2
  <2>4. fin[i].pc \in {"settings", "stop"} /\ UNCHANGED <<Streaming, known, made, card, rebuilt>>
    BY <1>11 DEF SettingsEnd
  <2> QED BY <1>2, <2>3, <2>4 DEF StreamTypes, Streams, Streaming
<1> QED BY <1>5, <1>6, <1>7, <1>8, <1>9, <1>10, <1>11

LEMMA StreamsNext ==
  ASSUME StreamTypes, Streams, [StreamNext]_streamVars
  PROVE  StreamTypes' /\ Streams'
<1>1. CASE \E b \in {"answer", "progress"} : \E text \in Texts(b) \ {0} : Say(b, text)
  BY <1>1, SayStep
<1>2. ASSUME NEW text \in Texts("status"), ToolUse(text) \/ IdleMark(text)
      PROVE  StreamTypes' /\ Streams'
  <2>1. text \in Nat
    BY StreamAssumption DEF Texts, Buffers, Channels
  <2> QED BY <1>2, <2>1, StatusStep DEF ToolUse, IdleMark
<1>3. CASE SkipNode
  BY <1>3 DEF SkipNode, StreamTypes, Streams
<1>4. CASE UNCHANGED streamVars
  <2>1. StreamTypes'
    BY <1>4 DEF streamVars, StreamTypes
  <2>2. closed' = closed /\ (Growing => Growing') /\ (FirstText => FirstText')
        /\ \A ch \in Channels : (Believed(ch) => Believed(ch)') /\ (Carried(ch) => Carried(ch)')
    BY <1>4 DEF streamVars, Growing, FirstText, Believed, Carried
  <2> QED BY <2>1, <2>2 DEF Streams
<1>5. CASE Think \/ StartNode \/ NodeSucceeds \/ \E ch \in {"answer", "cot"} : Fire(ch)
  BY <1>5, ThinkStep, NodeStartStep, NodeOkStep, FireStep
<1>6. CASE \E landed \in BOOLEAN : NodeFails(landed)
  BY <1>6, NodeFailStep
<1>7. CASE \E i \in Finals :
             \/ Finalize(i) \/ Rebuild(i) \/ RebuildSucceeds(i) \/ BudgetEnds(i)
             \/ \E landed \in BOOLEAN : RebuildFails(i, landed)
             \/ \E ok, landed \in BOOLEAN : Salvage(i, ok, landed)
             \/ \E ok \in BOOLEAN : SettingsEnd(i, ok)
  BY <1>7, FinalStreams
<1> QED BY <1>1, <1>2, <1>3, <1>4, <1>5, <1>6, <1>7 DEF StreamNext

\* While a card streams it shows the newest text of every channel as soon as no
\* timer and no call is left, for any texts, events and failing calls: a patch
\* is dropped only if its text is known, and what is known is on the card.
THEOREM QuietCardIsCurrent == StreamSpec => []QuietIsCurrent
<1>1. StreamTypes /\ Streams => QuietIsCurrent
  <2> SUFFICES ASSUME StreamTypes, Streams, ~closed, node = Idle, chain = << >>,
                      NEW ch \in Channels \ (timers \cup missed)
               PROVE  card[ch] = Newest(ch, asked)
    BY DEF QuietIsCurrent
  <2>1. ch \notin queued
    BY DEF Streams, Growing
  <2> QED BY <2>1 DEF Streams, Carried, Idle, Channels
<1>2. StreamTypes /\ Streams /\ [StreamNext]_streamVars => (StreamTypes /\ Streams)'
  BY StreamsNext
<1> QED BY <1>1, <1>2, InitStreams, PTL DEF StreamSpec

-----------------------------------------------------------------------------
(* The card after its last finalize.                                       *)

Quieted == node = Idle /\ chain = << >>

Finishes ==
  /\ closed => timers = {}
  /\ \A i \in Finals : /\ fin[i].pc # "no" => closed
                       /\ fin[i].pc \notin {"no", "wait"} => Quieted
  /\ rebuilt # 0 => fin[rebuilt].pc \notin {"no", "wait", "card"}
  /\ rebuilt = 1 /\ fin[2].pc = "no" => card["answer"] = fin[1].text

\* The rebuilt card as the turn's own finalize left it.
Kept == rebuilt # 0 /\ rebuilt' = rebuilt /\ fin[2].pc = "no" => card' = card

LEMMA FinalFinishes ==
  ASSUME StreamTypes, Finishes, NEW i \in Finals,
         \/ Finalize(i) \/ Rebuild(i) \/ RebuildSucceeds(i) \/ BudgetEnds(i)
         \/ \E landed \in BOOLEAN : RebuildFails(i, landed)
         \/ \E ok \in BOOLEAN : SettingsEnd(i, ok)
  PROVE  Finishes' /\ Kept
<1>1. fin \in [Finals -> [pc : Pcs, text : Int, returned : BOOLEAN]] /\ card \in [Channels -> Int]
  BY DEF StreamTypes
<1>2. CASE Finalize(i)
  <2>1. fin' = [fin EXCEPT ![i] = fin'[i]] /\ fin'[i].pc = "wait" /\ fin[i].pc = "no"
        /\ closed' = TRUE /\ timers' = {} /\ UNCHANGED <<chain, node, card, rebuilt>>
    BY <1>1, <1>2 DEF Finalize
  <2> QED BY <1>1, <2>1 DEF Finishes, Quieted, Kept, Finals, StreamTypes
<1>3. CASE Rebuild(i)
  <2>1. fin' = [fin EXCEPT ![i].pc = "card"] /\ fin[i].pc = "wait" /\ Quieted
        /\ UNCHANGED <<chain, node, timers, closed, card, rebuilt>>
    BY <1>3 DEF Rebuild, ChainEnded, Quieted
  <2> QED BY <1>1, <2>1 DEF Finishes, Quieted, Kept, Finals, StreamTypes
<1>4. CASE RebuildSucceeds(i)
  <2>1. fin' = [fin EXCEPT ![i].pc = "settings"] /\ fin[i].pc = "card" /\ rebuilt' = i
        /\ card' = [card EXCEPT !["answer"] = fin[i].text, !["cot"] = asked["cot"]]
        /\ UNCHANGED <<chain, node, timers, closed>>
    BY <1>4 DEF RebuildSucceeds, Rebuilds
  <2> QED BY <1>1, <2>1 DEF Finishes, Quieted, Kept, Finals, StreamTypes, Channels
<1>5. CASE BudgetEnds(i)
  <2>1. fin' = [fin EXCEPT ![i].returned = TRUE]
        /\ UNCHANGED <<chain, node, timers, closed, card, rebuilt>>
    BY <1>5 DEF BudgetEnds, Streaming
  <2> QED BY <1>1, <2>1 DEF Finishes, Quieted, Kept, Finals, StreamTypes
<1>6. ASSUME NEW landed \in BOOLEAN, RebuildFails(i, landed) PROVE Finishes' /\ Kept
  <2>1. PICK pc \in {"text", "footer"} : fin' = [fin EXCEPT ![i].pc = pc]
    BY <1>6 DEF RebuildFails
  <2>2. fin[i].pc = "card" /\ UNCHANGED <<chain, node, timers, closed>>
        /\ IF landed
           THEN rebuilt' = i /\ card' = [card EXCEPT !["answer"] = fin[i].text, !["cot"] = asked["cot"]]
           ELSE UNCHANGED <<rebuilt, card>>
    BY <1>6 DEF RebuildFails, Rebuilds, Streaming
  <2> QED BY <1>1, <2>1, <2>2 DEF Finishes, Quieted, Kept, Finals, StreamTypes, Channels
<1>7. ASSUME NEW ok \in BOOLEAN, SettingsEnd(i, ok) PROVE Finishes' /\ Kept
  <2>1. PICK back : fin' = [fin EXCEPT ![i].pc = "over", ![i].returned = back]
    BY <1>7 DEF SettingsEnd
  <2>2. fin[i].pc \in {"settings", "stop"} /\ UNCHANGED <<chain, node, timers, closed, card, rebuilt>>
    BY <1>7 DEF SettingsEnd, Streaming
  <2> QED BY <1>1, <2>1, <2>2 DEF Finishes, Quieted, Kept, Finals, StreamTypes
<1> QED BY <1>2, <1>3, <1>4, <1>5, <1>6, <1>7

\* A salvage over a card whose rebuild landed after all: the text is the same,
\* and the rebuilt card has no footer.
LEMMA SalvageFinishes ==
  ASSUME StreamTypes, Finishes, NEW i \in Finals, NEW ok \in BOOLEAN, NEW landed \in BOOLEAN,
         Salvage(i, ok, landed)
  PROVE  Finishes' /\ Kept
<1>1. fin \in [Finals -> [pc : Pcs, text : Int, returned : BOOLEAN]] /\ card \in [Channels -> Int]
  BY DEF StreamTypes
<1>2. PICK pc \in {"footer", "stop"} : fin' = [fin EXCEPT ![i].pc = pc]
  BY DEF Salvage
<1>3. fin[i].pc \in {"text", "footer"} /\ UNCHANGED <<chain, node, timers, closed, rebuilt>>
  BY DEF Salvage, Streaming
<1>4. rebuilt = 1 /\ fin[2].pc = "no" => card' = card
  <2> SUFFICES ASSUME rebuilt = 1, fin[2].pc = "no" PROVE card' = card
    OBVIOUS
  <2>1. i = 1 /\ card["answer"] = fin[1].text
    BY <1>3 DEF Finishes, Finals
  <2>2. CASE fin[i].pc = "footer"
    <3>1. Landed(Call("status", "write", Fallback), landed)
      BY <2>2 DEF Salvage, Outcome
    <3> QED BY <3>1 DEF Landed, Accepts, Call
  <2>3. CASE fin[i].pc # "footer" /\ "answer" \in made
    <3>1. Landed(Call("answer", "write", fin[i].text), landed)
      BY <2>3 DEF Salvage, Outcome
    <3> QED BY <1>1, <2>1, <3>1 DEF Landed, Accepts, Call
  <2>4. CASE fin[i].pc # "footer" /\ "answer" \notin made
    <3>1. Landed(Call("answer", "create", fin[i].text), landed)
      BY <2>4 DEF Salvage, Outcome
    <3> QED BY <3>1 DEF Landed, Accepts, Call
  <2> QED BY <2>2, <2>3, <2>4
<1>5. rebuilt # 0 /\ fin[2].pc = "no" => rebuilt = 1
  BY DEF Finishes, StreamTypes, Finals
<1> QED BY <1>1, <1>2, <1>3, <1>4, <1>5 DEF Finishes, Quieted, Kept, Finals, StreamTypes

LEMMA FinishesNext ==
  ASSUME StreamTypes, Finishes, [StreamNext]_streamVars
  PROVE  Finishes' /\ (Kept \/ UNCHANGED streamVars)
<1>1. ASSUME UNCHANGED <<fin, rebuilt, card, closed>>, closed => UNCHANGED <<timers, chain, node>>
      PROVE  Finishes' /\ Kept
  BY <1>1 DEF Finishes, Quieted, Kept
<1>2. CASE \E b \in {"answer", "progress"} : \E text \in Texts(b) \ {0} : Say(b, text)
  BY <1>1, <1>2 DEF Say
<1>3. CASE \E text \in Texts("status") : ToolUse(text) \/ IdleMark(text)
  BY <1>1, <1>3 DEF ToolUse, IdleMark, Status
<1>4. CASE Think \/ StartNode
  BY <1>1, <1>4 DEF Think, StartNode
<1>5. CASE \E ch \in {"answer", "cot"} : Fire(ch)
  BY <1>1, <1>5 DEF Fire, Finishes
<1>6. CASE SkipNode \/ NodeSucceeds \/ \E landed \in BOOLEAN : NodeFails(landed)
  <2>1. ~Quieted /\ UNCHANGED <<fin, rebuilt, closed, timers>>
    BY <1>6 DEF SkipNode, NodeSucceeds, NodeFails, Quieted
  <2>2. rebuilt = 0
    BY <2>1 DEF Finishes, StreamTypes, Finals
  <2> QED BY <2>1, <2>2 DEF Finishes, Kept, Quieted
<1>7. CASE \E i \in Finals :
             \/ Finalize(i) \/ Rebuild(i) \/ RebuildSucceeds(i) \/ BudgetEnds(i)
             \/ \E landed \in BOOLEAN : RebuildFails(i, landed)
             \/ \E ok, landed \in BOOLEAN : Salvage(i, ok, landed)
             \/ \E ok \in BOOLEAN : SettingsEnd(i, ok)
  BY <1>7, FinalFinishes, SalvageFinishes
<1>8. CASE UNCHANGED streamVars
  BY <1>1, <1>8 DEF streamVars
<1> QED BY <1>2, <1>3, <1>4, <1>5, <1>6, <1>7, <1>8 DEF StreamNext

\* No late call of the stream or of the turn's own salvage changes a card that
\* finalize has rebuilt.
THEOREM FinalCardStays == StreamSpec => FinalStays
<1>1. StreamInit => Finishes
  BY DEF StreamInit, Finishes, NotFinal, Finals, Quieted
<1>2. StreamTypes /\ Streams /\ Finishes /\ [StreamNext]_streamVars
        => (StreamTypes /\ Streams /\ Finishes)' /\ [Kept]_streamVars
  BY StreamsNext, FinishesNext
<1>3. StreamInit => StreamTypes /\ Streams
  BY InitStreams
<1> QED BY <1>1, <1>2, <1>3, PTL DEF StreamSpec, FinalStays, Kept
-----------------------------------------------------------------------------
(* The stall patrol of one claim.                                          *)

Counters == [count : Nat, sent : Nat, seen : Nat, escalated : BOOLEAN, pending : Nat]
Claims ==
  [guid : Guids, at : Nat, mode : {"comment", "full"}, failed : BOOLEAN, mention : Nat,
   suppress : Nat, done : BOOLEAN, nudge : Counters]

Marks == [sent : Nat, due : BOOLEAN, heard : BOOLEAN, answered : Nat]
Patrols ==
  [at : {"idle", "lost", "nudge", "escalate"}, guid : Guids \cup {Nothing}, t : Nat,
   active : Nat, due : BOOLEAN]
TurnStates ==
  [at : {"none", "back", "run", "keep", "call"}, how : {"received", "ok", "failed", "threw"},
   received : Nat, guid : Guids \cup {Nothing}, call : {"none", "open", "complete"}]
Allowed ==
  [asks : Nat, claims : Nat, human : Nat, crashes : Nat, peer : Nat, due : Nat, clock : Nat]

\* No instant of the past is later than now.
PatrolTypes ==
  /\ now \in Nat /\ last \in Nat /\ due \in Nat /\ started \in Nat
  /\ recv \in Nat /\ turn \in TurnStates
  /\ rec \in Claims \cup {Nothing}
  /\ patrol \in Patrols
  /\ mark \in Marks
  /\ mark.sent <= now /\ patrol.t <= now
  /\ allowance \in Allowed
  /\ due \in {0, allowance.due}

\* The detector judges a claim only when no wake-up is on its way.
OneOnItsWay == patrol.at # "idle" /\ rec # Nothing => rec.nudge.pending = 0

\* A wake-up is counted, or waits to be counted, only if activity followed it.
CountedHeard ==
  rec # Nothing =>
    /\ rec.nudge.count <= mark.answered
    /\ rec.nudge.pending # 0 /\ Activity > rec.nudge.pending =>
         rec.nudge.count < mark.answered
    /\ rec.nudge.pending # 0 /\ Activity <= rec.nudge.pending => ~mark.heard

\* The task was called overdue by this process for this claim, and not in vain.
Called == mark.due /\ started < mark.sent /\ rec # Nothing /\ rec.at < mark.sent

Spaced == now - mark.sent >= DueFloor

\* The time of that call is on record until DueFloor has passed.
Anchored ==
  Called =>
    /\ PastDue(rec) /\ patrol.at # "lost"
    /\ rec.nudge.pending \in {0, mark.sent}
    /\ rec.nudge.pending = 0 => rec.nudge.sent = mark.sent \/ Spaced
    /\ rec.nudge.escalated => Spaced
    /\ patrol.at \in {"nudge", "escalate"} => patrol.t - mark.sent >= DueFloor

\* What the detector took for overdue is overdue, while it is the same claim.
ReadOverdue ==
  patrol.at = "nudge" /\ patrol.due /\ rec # Nothing /\ rec.at < patrol.t => PastDue(rec)

PatrolInv == PatrolTypes /\ OneOnItsWay /\ CountedHeard /\ Anchored /\ ReadOverdue

LEMMA NoTurnIs == NoTurn \in TurnStates
  BY DEF NoTurn, TurnStates

LEMMA PatrolStarts == PatrolInit => PatrolInv
<1> SUFFICES ASSUME PatrolInit PROVE PatrolInv
  OBVIOUS
<1>1. PatrolTypes
  <2>1. allowance \in [asks : Nat, claims : Nat, human : Nat, crashes : Nat, peer : Nat,
                       due : Nat, clock : 1..MaxTime]
    BY PatrolAssumption DEF PatrolInit
  <2>2. allowance \in Allowed
    BY <2>1 DEF Allowed
  <2> QED BY <2>2, NoTurnIs DEF PatrolInit, PatrolTypes, Asleep, Marks, Patrols
<1>2. rec = Nothing
  BY DEF PatrolInit
<1> QED BY <1>1, <1>2 DEF PatrolInv, OneOnItsWay, CountedHeard, Anchored, Called, ReadOverdue

\* What is spent stays a number.
LEMMA StillAllowed ==
  ASSUME PatrolTypes, NEW what \in {"asks", "claims", "human", "crashes", "peer"},
         Has(what), Spend(what)
  PROVE  allowance'.due = allowance.due /\ allowance' \in Allowed
BY DEF PatrolTypes, Allowed, Has, Spend

\* Activity keeps the wake-up it answers.
LEMMA MarkMoves ==
  ASSUME PatrolTypes
  PROVE  Moved \in Marks /\ Moved.sent = mark.sent /\ Anew \in Marks /\ Anew.sent = mark.sent
<1>1. mark \in Marks
  BY DEF PatrolTypes
<1>2. Anew \in Marks /\ Anew.sent = mark.sent
  BY <1>1 DEF Anew, Marks
<1>3. CASE mark.heard
  BY <1>1, <1>2, <1>3 DEF Moved
<1>4. CASE ~mark.heard
  <2>1. Moved = [mark EXCEPT !.heard = TRUE, !.answered = mark.answered + 1]
    BY <1>4 DEF Moved
  <2>2. mark.answered + 1 \in Nat
    BY <1>1 DEF Marks
  <2> QED BY <1>1, <1>2, <2>1, <2>2 DEF Marks
<1> QED BY <1>3, <1>4

\* A new claim is a claim, made now, with no wake-up behind it.
LEMMA NewClaimIs ==
  ASSUME PatrolTypes, NEW g \in Guids, NEW mode \in {"comment", "full"}
  PROVE  /\ NewClaim(g, mode) \in Claims
         /\ NewClaim(g, mode).at = now /\ NewClaim(g, mode).nudge = NoNudge
BY DEF PatrolTypes, NewClaim, NoNudge, Claims, Counters

\* What a turn may do to the claim: drop it, make one, or keep its wake-ups.
Made == rec' # Nothing /\ rec'.at = now /\ rec'.nudge = NoNudge /\ mark' = Anew
Keeps ==
  rec # Nothing /\ rec' # Nothing /\ rec'.guid = rec.guid /\ rec'.at = rec.at /\ rec'.nudge = rec.nudge

\* The turn's steps: the detector and its clock stand still, and a wake-up is
\* answered when the activity time moves past it.
TurnStep ==
  /\ UNCHANGED <<now, due, started, patrol>>
  /\ allowance'.due = allowance.due
  /\ \/ rec' = Nothing /\ mark' \in {mark, Moved, Anew}
     \/ Made
     \/ Keeps /\ mark' = mark /\ last' = last
     \/ Keeps /\ mark' = Moved /\ last' = now /\ now > rec.nudge.pending

LEMMA ReceiveIs ==
  ASSUME PatrolTypes, Receive, UNCHANGED allowance \/ (Has("asks") /\ Spend("asks"))
  PROVE  PatrolTypes' /\ TurnStep
<1>1. allowance'.due = allowance.due
      /\ allowance' \in Allowed
  BY StillAllowed DEF PatrolTypes
<1>2. /\ UNCHANGED <<now, rec, turn, due, started, patrol>> /\ recv' = now
      /\ (mark' = mark /\ last' = last) \/ (mark' = Moved /\ last' = now)
  BY DEF Receive
<1>3. Moved \in Marks /\ Moved.sent = mark.sent
  BY MarkMoves
<1>4. PatrolTypes'
  BY <1>1, <1>2, <1>3 DEF PatrolTypes
<1>5. rec = Nothing \/ now > rec.nudge.pending
  BY DEF Receive, Unstamped
<1> QED BY <1>1, <1>2, <1>4, <1>5 DEF TurnStep, Keeps

LEMMA BeginIs ==
  ASSUME PatrolTypes, NEW found \in BOOLEAN, Begin(found)
  PROVE  PatrolTypes' /\ TurnStep
<1> DEFINE r == Rooted(found)
<1>1. /\ UNCHANGED <<now, last, recv, due, started, patrol, allowance>>
      /\ turn' = [NoTurn EXCEPT !.at = "back", !.how = "received", !.received = recv]
      /\ rec' = r /\ mark' = IF rec' # rec THEN Anew ELSE mark
  BY DEF Begin
<1>2. r \in Claims \cup {Nothing} /\ (rec # Nothing => r = rec)
      /\ (rec = Nothing /\ r # Nothing => r.at = now /\ r.nudge = NoNudge)
  BY NewClaimIs, PatrolAssumption DEF Rooted, PatrolTypes
<1> HIDE DEF r
<1>3. Anew \in Marks /\ Anew.sent = mark.sent
  BY MarkMoves
<1>t. turn' \in TurnStates
  BY <1>1, NoTurnIs DEF PatrolTypes, TurnStates
<1>4. PatrolTypes'
  BY <1>1, <1>2, <1>3, <1>t DEF PatrolTypes
<1>5. CASE rec' = Nothing
  BY <1>1, <1>4, <1>5 DEF TurnStep
<1>6. CASE rec' # Nothing /\ rec = Nothing
  BY <1>1, <1>2, <1>4, <1>6 DEF TurnStep, Made
<1>7. CASE rec' # Nothing /\ rec # Nothing
  BY <1>1, <1>2, <1>4, <1>7 DEF TurnStep, Keeps
<1> QED BY <1>5, <1>6, <1>7

LEMMA FinishIs ==
  ASSUME PatrolTypes, NEW how \in {"ok", "failed", "threw"}, NEW saved \in BOOLEAN, NEW g \in Guids \cup {Nothing},
         Finish(how, saved, g)
  PROVE  PatrolTypes' /\ TurnStep
<1>1. /\ UNCHANGED <<now, recv, due, started, patrol>> /\ turn' = [turn EXCEPT !.at = "back", !.how = how]
      /\ last' = IF saved THEN now ELSE last
      /\ mark' = IF rec' # rec THEN Anew ELSE IF saved THEN Moved ELSE mark
      /\ rec = Nothing \/ now > rec.nudge.pending
  BY DEF Finish, Unstamped
<1>2. /\ rec' = rec \/ (g \in Guids /\ rec' \in {NewClaim(g, "comment"), NewClaim(g, "full")})
      /\ UNCHANGED allowance \/ (Has("claims") /\ Spend("claims"))
  BY DEF Finish, Declare
<1>3. allowance'.due = allowance.due
      /\ allowance' \in Allowed
  BY <1>2, StillAllowed DEF PatrolTypes
<1>4. rec' = rec \/ (rec' \in Claims /\ rec'.at = now /\ rec'.nudge = NoNudge)
  BY <1>2, NewClaimIs
<1>5. Nothing \notin Claims
  BY PatrolAssumption DEF Claims, Counters
<1>6. \A m \in {Anew, Moved} : m \in Marks /\ m.sent = mark.sent
  BY MarkMoves
<1>7. turn' \in TurnStates
  BY <1>1 DEF PatrolTypes, TurnStates
<1>8. PatrolTypes'
  BY <1>1, <1>3, <1>4, <1>6, <1>7 DEF PatrolTypes
<1>9. CASE rec' # rec
  BY <1>1, <1>3, <1>4, <1>5, <1>8, <1>9 DEF TurnStep, Made
<1>10. CASE rec' = rec
  BY <1>1, <1>3, <1>8, <1>10 DEF TurnStep, Keeps
<1> QED BY <1>9, <1>10

\* How a turn leaves the claim is written on its record, not on its wake-ups.
LEMMA EndedIs ==
  ASSUME PatrolTypes, rec # Nothing, NEW mentions \in BOOLEAN, NEW done \in BOOLEAN
  PROVE  LET e == Ended(rec, mentions, done) IN
         e \in Claims /\ e.guid = rec.guid /\ e.at = rec.at /\ e.nudge = rec.nudge
<1>1. rec \in Claims /\ turn.received \in Nat
  BY DEF PatrolTypes, TurnStates
<1>2. CASE turn.how = "ok"
  <2> DEFINE kept == rec.done \/ done
             to == IF mentions THEN turn.received ELSE 0
  <2>1. Ended(rec, mentions, done) = [rec EXCEPT !.failed = FALSE, !.mention = to, !.done = kept]
    BY <1>2 DEF Ended
  <2>2. kept \in BOOLEAN /\ to \in Nat
    BY <1>1 DEF Claims
  <2> HIDE DEF kept, to
  <2> QED BY <1>1, <2>1, <2>2 DEF Claims
<1>3. CASE turn.how = "received"
  <2>1. Ended(rec, mentions, done) = [rec EXCEPT !.done = FALSE]
    BY <1>3 DEF Ended
  <2> QED BY <1>1, <2>1 DEF Claims
<1>4. CASE turn.how \notin {"ok", "received"}
  <2>1. Ended(rec, mentions, done) = [rec EXCEPT !.failed = TRUE, !.mention = 0]
    BY <1>4 DEF Ended
  <2>2. [rec EXCEPT !.failed = TRUE, !.mention = 0] \in Claims
    BY <1>1 DEF Claims
  <2> QED BY <1>1, <2>1, <2>2 DEF Claims
<1> QED BY <1>2, <1>3, <1>4

\* What the write-back may do: drop the claim, or note the turn on it.
LEMMA WriteBackIs ==
  ASSUME PatrolTypes, UNCHANGED <<now, last, recv, due, started, patrol, mark, allowance>>,
         turn' \in TurnStates,
         \/ rec' \in {rec, Nothing}
         \/ /\ rec # Nothing
            /\ \E mentions, done \in BOOLEAN : rec' = Ended(rec, mentions, done)
  PROVE  PatrolTypes' /\ TurnStep
<1>1. Nothing \notin Claims
  BY PatrolAssumption DEF Claims, Counters
<1>2. rec' \in Claims \cup {Nothing} /\ (rec' = Nothing \/ Keeps)
  BY <1>1, EndedIs DEF PatrolTypes, Keeps
<1>3. PatrolTypes'
  BY <1>2 DEF PatrolTypes
<1> QED BY <1>2, <1>3 DEF TurnStep

\* The turn after a step of its write-back.
LEMMA TurnWrites ==
  ASSUME PatrolTypes,
         \/ WrittenBack \/ turn' = [turn EXCEPT !.at = "call"]
         \/ \E g \in Guids, c \in {"none", "open", "complete"} :
              turn' = [turn EXCEPT !.at = "keep", !.guid = g, !.call = c]
  PROVE  turn' \in TurnStates
BY NoTurnIs DEF PatrolTypes, TurnStates, WrittenBack

WritesBack ==
  \/ \E mentions, done \in BOOLEAN : WriteLocally(mentions, done)
  \/ \E read, done \in BOOLEAN : LookUp(read, done)
  \/ \E mentions \in BOOLEAN : KeepOutcome(mentions)
  \/ \E ok \in BOOLEAN : CallPlatform(ok)

LEMMA BackIs ==
  ASSUME PatrolTypes, WritesBack
  PROVE  PatrolTypes' /\ TurnStep
<1>1. ASSUME NEW mentions \in BOOLEAN, NEW done \in BOOLEAN, WriteLocally(mentions, done)
      PROVE  PatrolTypes' /\ TurnStep
  BY <1>1, TurnWrites, WriteBackIs DEF WriteLocally
<1>2. ASSUME NEW read \in BOOLEAN, NEW done \in BOOLEAN, LookUp(read, done)
      PROVE  PatrolTypes' /\ TurnStep
  <2>1. rec # Nothing /\ rec \in Claims
    BY <1>2 DEF LookUp, Local, PatrolTypes
  <2>2. rec.guid \in Guids /\ CallFor(rec, done) \in {"none", "open", "complete"}
    BY <2>1 DEF Claims, CallFor
  <2>3. turn' \in TurnStates
    BY <1>2, <2>2, TurnWrites DEF LookUp
  <2> QED BY <1>2, <2>3, WriteBackIs DEF LookUp
<1>3. ASSUME NEW mentions \in BOOLEAN, KeepOutcome(mentions) PROVE PatrolTypes' /\ TurnStep
  <2>1. turn' \in TurnStates
    BY <1>3, TurnWrites DEF KeepOutcome
  <2> QED BY <1>3, <2>1, WriteBackIs DEF KeepOutcome
<1>4. ASSUME NEW ok \in BOOLEAN, CallPlatform(ok) PROVE PatrolTypes' /\ TurnStep
  BY <1>4, TurnWrites, WriteBackIs DEF CallPlatform
<1> QED BY <1>1, <1>2, <1>3, <1>4 DEF WritesBack

\* The steps of the thread's turns keep what the detector relies on.
LEMMA TurnStepKeeps ==
  ASSUME PatrolInv, PatrolTypes', TurnStep
  PROVE  PatrolInv'
<1> USE DEF PatrolInv
<1>1. /\ UNCHANGED <<now, due, started, patrol>> /\ mark'.sent = mark.sent /\ mark'.due = mark.due
      /\ mark.answered \in Nat /\ mark.heard \in BOOLEAN
  BY DEF TurnStep, PatrolTypes, Made, Moved, Anew, Marks
<1>2. rec' # Nothing => (rec'.at = now /\ rec'.nudge = NoNudge) \/ Keeps
  BY DEF TurnStep, Made
<1>3. OneOnItsWay'
  BY <1>1, <1>2 DEF OneOnItsWay, Keeps, NoNudge
<1>4. CountedHeard'
  <2>1. CASE rec' = Nothing
    BY <2>1 DEF CountedHeard
  <2>2. CASE Made
    <3>1. rec'.nudge.count = 0 /\ rec'.nudge.pending = 0 /\ mark'.answered = 0
      BY <2>2 DEF Made, NoNudge, Anew, PatrolTypes, Marks
    <3> QED BY <3>1 DEF CountedHeard
  <2>3. CASE Keeps /\ mark' = mark /\ last' = last
    <3>1. Activity' = Activity
      BY <2>3 DEF Activity, Keeps
    <3> QED BY <2>3, <3>1 DEF CountedHeard, Keeps
  <2>4. CASE Keeps /\ mark' = Moved /\ last' = now /\ now > rec.nudge.pending
    <3>1. rec \in Claims /\ rec.nudge.count \in Nat /\ rec.nudge.pending \in Nat /\ now \in Nat
          /\ rec.at \in Nat /\ last \in Nat
      BY <2>4 DEF PatrolTypes, Keeps, Claims, Counters
    <3>2. Activity' = now /\ Activity \in Nat
      BY <2>4, <3>1 DEF Activity
    <3>3. CASE mark.heard
      <4>1. mark' = mark
        BY <2>4, <3>3 DEF Moved
      <4>2. rec.nudge.pending # 0 => rec.nudge.count < mark.answered
        BY <2>4, <3>1, <3>2, <3>3 DEF CountedHeard, Keeps
      <4> QED BY <2>4, <3>1, <3>2, <4>1, <4>2 DEF CountedHeard, Keeps
    <3>4. CASE ~mark.heard
      <4>1. mark'.answered = mark.answered + 1
        BY <2>4, <3>4 DEF Moved, PatrolTypes, Marks
      <4> QED BY <1>1, <2>4, <3>1, <3>2, <4>1 DEF CountedHeard, Keeps
    <3> QED BY <3>3, <3>4
  <2> QED BY <2>1, <2>2, <2>3, <2>4 DEF TurnStep
<1>5. Anchored'
  <2>1. CASE ~Keeps
    <3>1. ~Called'
      BY <1>1, <1>2, <2>1 DEF Called, PatrolTypes, Marks
    <3> QED BY <3>1 DEF Anchored
  <2>2. CASE Keeps
    BY <1>1, <2>2 DEF Anchored, Called, Keeps, PastDue, Spaced
  <2> QED BY <2>1, <2>2
<1>6. ReadOverdue'
  <2>1. patrol.t <= now /\ now \in Nat /\ patrol.t \in Nat
    BY DEF PatrolTypes, Patrols
  <2> QED BY <1>1, <1>2, <2>1 DEF ReadOverdue, Keeps, PastDue
<1> QED BY <1>3, <1>4, <1>5, <1>6

-----------------------------------------------------------------------------
(* The detector's steps.                                                   *)

\* A claim with other wake-ups is a claim.
LEMMA OtherNudge ==
  ASSUME NEW r \in Claims, NEW k \in Counters
  PROVE  LET e == [r EXCEPT !.nudge = k] IN
         /\ e \in Claims /\ e.guid = r.guid /\ e.at = r.at /\ e.nudge = k
         /\ \A i \in Nat : [e EXCEPT !.suppress = i] \in Claims
BY DEF Claims

\* The four kinds of the detector's steps that leave the clock, the due date
\* and the activity alone.
Watcher == UNCHANGED <<now, last, recv, due, started, turn, allowance>>

LEMMA ClaimFacts ==
  ASSUME PatrolTypes, rec # Nothing
  PROVE  /\ rec \in Claims /\ rec.at \in Nat /\ rec.nudge \in Counters
         /\ rec.nudge.count \in Nat /\ rec.nudge.sent \in Nat /\ rec.nudge.seen \in Nat
         /\ rec.nudge.pending \in Nat /\ rec.nudge.escalated \in BOOLEAN /\ Activity \in Nat
BY DEF PatrolTypes, Claims, Counters, Activity

LEMMA MarkFacts ==
  ASSUME PatrolTypes
  PROVE  /\ mark \in Marks /\ mark.sent \in Nat /\ mark.answered \in Nat /\ mark.heard \in BOOLEAN
         /\ mark.due \in BOOLEAN /\ mark.sent <= now /\ now \in Nat /\ started \in Nat
         /\ patrol.t \in Nat /\ patrol.t <= now /\ patrol.due \in BOOLEAN
         /\ patrol.at \in {"idle", "lost", "nudge", "escalate"}
BY DEF PatrolTypes, Marks, Patrols

LEMMA AsleepIs ==
  Asleep \in Patrols /\ Asleep.at = "idle" /\ Asleep.t = 0 /\ Asleep.due = FALSE
BY DEF Asleep, Patrols

LEMMA WatcherTyped ==
  ASSUME PatrolTypes, Watcher, rec' \in Claims \cup {Nothing}, mark' \in Marks,
         mark'.sent <= now, patrol' \in Patrols, patrol'.t <= now
  PROVE  PatrolTypes'
BY DEF PatrolTypes, Watcher

\* The detector forgets the wake-ups: the topic moved, or the task is done.
LEMMA NudgesForgotten ==
  ASSUME PatrolInv, rec # Nothing, Watcher, NEW i \in Nat, mark' = Anew,
         patrol' \in {patrol, Asleep}, patrol'.at = "idle",
         rec' = [rec EXCEPT !.nudge = NoNudge, !.suppress = i], Called => Spaced
  PROVE  PatrolInv'
<1> USE DEF PatrolInv, Watcher
<1>m. /\ mark' \in Marks /\ mark'.sent = mark.sent /\ mark'.due = mark.due
      /\ mark'.answered = 0
  BY MarkMoves, MarkFacts DEF Anew, Marks
<1>1. NoNudge \in Counters
  BY DEF NoNudge, Counters
<1>2. /\ rec' \in Claims /\ rec' # Nothing /\ rec'.guid = rec.guid /\ rec'.at = rec.at
      /\ rec'.nudge = NoNudge
  <2>1. rec \in Claims /\ Nothing \notin Claims
    BY ClaimFacts, PatrolAssumption DEF Claims, Counters
  <2> QED BY <1>1, <2>1 DEF Claims
<1>3. PatrolTypes'
  <2>1. patrol' \in Patrols /\ patrol'.t <= now
    BY AsleepIs DEF PatrolTypes
  <2> QED BY <1>2, <1>m, <2>1, MarkFacts, WatcherTyped
<1>4. OneOnItsWay' /\ CountedHeard' /\ ReadOverdue'
  BY <1>2, <1>m DEF OneOnItsWay, CountedHeard, ReadOverdue, NoNudge, Asleep
<1>5. Anchored'
  BY <1>2, <1>m DEF Anchored, Called, PastDue, Spaced, NoNudge, Asleep
<1> QED BY <1>3, <1>4, <1>5

LEMMA UnescalateKeeps == PatrolInv /\ Unescalate => PatrolInv'
<1> SUFFICES ASSUME PatrolInv, Unescalate PROVE PatrolInv'
  OBVIOUS
<1>1. /\ rec # Nothing /\ Watcher /\ patrol.at = "idle" /\ mark' = Anew /\ patrol' = patrol
      /\ rec' = [rec EXCEPT !.nudge = NoNudge, !.suppress = 0] /\ rec.nudge.escalated
  BY DEF Unescalate, Looks, Others, Watcher
<1>2. Called => Spaced
  BY <1>1 DEF PatrolInv, Anchored
<1> QED BY <1>1, <1>2, NudgesForgotten

\* Where the detector goes on with a claim unchanged, or comes back from it.
LEMMA StandDownKeeps == PatrolInv /\ StandDown => PatrolInv'
<1> SUFFICES ASSUME PatrolInv, StandDown PROVE PatrolInv'
  OBVIOUS
<1> USE DEF PatrolInv
<1>1. Watcher /\ UNCHANGED <<rec, mark>> /\ patrol' = Asleep
  BY DEF StandDown, Others, Watcher
<1>2. PatrolTypes'
  <2>1. rec \in Claims \cup {Nothing} /\ 0 <= now
    BY DEF PatrolTypes
  <2> QED BY <1>1, <2>1, AsleepIs, MarkFacts, WatcherTyped
<1>3. OneOnItsWay' /\ CountedHeard' /\ ReadOverdue'
  BY <1>1, AsleepIs DEF OneOnItsWay, CountedHeard, ReadOverdue, Watcher, Activity
<1>4. Anchored'
  BY <1>1, AsleepIs DEF Anchored, Called, PastDue, Spaced, Watcher
<1> QED BY <1>2, <1>3, <1>4

\* A step that drops the claim and ends the look.
LEMMA FindGoneKeeps == PatrolInv /\ FindGone => PatrolInv'
<1> SUFFICES ASSUME PatrolInv, FindGone PROVE PatrolInv'
  OBVIOUS
<1> USE DEF PatrolInv
<1>1. Watcher /\ UNCHANGED mark /\ rec' = Nothing /\ patrol' = Asleep
  BY DEF FindGone, Others, Watcher
<1>2. PatrolTypes'
  <2>1. 0 <= now
    BY DEF PatrolTypes
  <2> QED BY <1>1, <2>1, AsleepIs, MarkFacts, WatcherTyped
<1> QED BY <1>1, <1>2 DEF OneOnItsWay, CountedHeard, ReadOverdue, Anchored, Called

LEMMA FindCompleteKeeps == PatrolInv /\ FindComplete => PatrolInv'
<1> SUFFICES ASSUME PatrolInv, FindComplete PROVE PatrolInv'
  OBVIOUS
<1>1. Watcher /\ patrol.at = "nudge" /\ patrol' = Asleep
      /\ (rec = Nothing => rec' = Nothing /\ mark' = mark)
      /\ (rec # Nothing =>
            rec' = [rec EXCEPT !.nudge = NoNudge, !.suppress = Activity] /\ mark' = Anew)
  BY DEF FindComplete, Others, Watcher
<1>2. Called => Spaced
  <2>1. Called => patrol.t - mark.sent >= DueFloor
    BY <1>1 DEF PatrolInv, Anchored
  <2> QED BY <2>1, MarkFacts, PatrolAssumption DEF Spaced, PatrolInv
<1>3. CASE rec = Nothing
  <2>1. PatrolTypes' /\ rec' = Nothing
    <3>1. 0 <= now
      BY DEF PatrolInv, PatrolTypes
    <3> QED BY <1>1, <1>3, <3>1, AsleepIs, MarkFacts, WatcherTyped DEF PatrolInv
  <2> QED BY <2>1 DEF PatrolInv, OneOnItsWay, CountedHeard, ReadOverdue, Anchored, Called
<1>4. CASE rec # Nothing
  <2>1. Activity \in Nat
    BY <1>4, ClaimFacts DEF PatrolInv
  <2> QED BY <1>1, <1>2, <1>4, <2>1, AsleepIs, NudgesForgotten
<1> QED BY <1>3, <1>4

\* The step changes the wake-ups of the claim and nothing else of it.
Rewritten(k) ==
  /\ rec # Nothing /\ k \in Counters /\ rec' # Nothing /\ rec' \in Claims
  /\ rec'.guid = rec.guid /\ rec'.at = rec.at /\ rec'.nudge = k

LEMMA RewrittenIs ==
  ASSUME PatrolTypes, rec # Nothing, NEW k \in Counters, rec' = [rec EXCEPT !.nudge = k]
  PROVE  Rewritten(k)
<1>1. Nothing \notin Claims
  BY PatrolAssumption DEF Claims, Counters
<1> QED BY <1>1, ClaimFacts, OtherNudge DEF Rewritten

LEMMA ConfirmKeeps == PatrolInv /\ Confirm => PatrolInv'
<1> SUFFICES ASSUME PatrolInv, Confirm PROVE PatrolInv'
  OBVIOUS
<1> USE DEF PatrolInv
<1> DEFINE k == [count |-> rec.nudge.count + 1, sent |-> rec.nudge.pending, seen |-> Activity,
                 escalated |-> FALSE, pending |-> 0]
<1>1. /\ rec # Nothing /\ patrol.at = "idle" /\ rec.nudge.pending # 0
      /\ Activity > rec.nudge.pending /\ Watcher /\ UNCHANGED <<mark, patrol>>
      /\ rec' = [rec EXCEPT !.nudge = k]
  BY DEF Confirm, Watching, Looks, Others, Watcher, Confirmed
<1>2. k \in Counters
  BY <1>1, ClaimFacts DEF Counters
<1>3. k.count = rec.nudge.count + 1 /\ k.sent = rec.nudge.pending /\ ~k.escalated /\ k.pending = 0
  OBVIOUS
<1> HIDE DEF k
<1>4. Rewritten(k)
  BY <1>1, <1>2, RewrittenIs
<1>5. PatrolTypes'
  BY <1>1, <1>4, MarkFacts, WatcherTyped DEF Rewritten, PatrolTypes
<1>6. CountedHeard'
  <2>1. rec.nudge.count + 1 <= mark.answered
    BY <1>1, ClaimFacts, MarkFacts DEF CountedHeard
  <2> QED BY <1>1, <1>3, <1>4, <2>1 DEF CountedHeard, Rewritten
<1>7. Anchored'
  BY <1>1, <1>3, <1>4 DEF Anchored, Called, PastDue, Spaced, Rewritten, Watcher
<1>8. OneOnItsWay' /\ ReadOverdue'
  BY <1>1, <1>3, <1>4 DEF OneOnItsWay, ReadOverdue, Rewritten
<1> QED BY <1>5, <1>6, <1>7, <1>8

LEMMA GiveUpKeeps == PatrolInv /\ GiveUp => PatrolInv'
<1> SUFFICES ASSUME PatrolInv, GiveUp PROVE PatrolInv'
  OBVIOUS
<1> USE DEF PatrolInv
<1> DEFINE k == [rec.nudge EXCEPT !.pending = 0]
<1>1. /\ rec # Nothing /\ Watcher /\ rec' = [rec EXCEPT !.nudge = k]
      /\ patrol' = [Asleep EXCEPT !.at = "lost", !.active = Activity]
      /\ mark' = [mark EXCEPT !.due = FALSE, !.heard = TRUE]
  BY DEF GiveUp, Watching, Looks, Others, Watcher
<1>2. k \in Counters /\ k.count = rec.nudge.count /\ k.pending = 0
  BY <1>1, ClaimFacts DEF Counters
<1> HIDE DEF k
<1>3. Rewritten(k)
  BY <1>1, <1>2, RewrittenIs
<1>4. mark' \in Marks /\ mark'.sent = mark.sent /\ mark'.answered = mark.answered /\ ~mark'.due
  BY <1>1, MarkFacts DEF Marks
<1>5. patrol' \in Patrols /\ patrol'.t <= now /\ patrol'.at = "lost"
  <2>1. Activity \in Nat /\ 0 <= now
    BY <1>1, ClaimFacts DEF PatrolTypes
  <2>2. patrol' = [at |-> "lost", guid |-> Nothing, t |-> 0, active |-> Activity, due |-> FALSE]
    BY <1>1 DEF Asleep
  <2> QED BY <2>1, <2>2 DEF Patrols
<1>6. PatrolTypes'
  BY <1>1, <1>3, <1>4, <1>5, MarkFacts, WatcherTyped DEF Rewritten
<1>7. OneOnItsWay' /\ CountedHeard' /\ Anchored' /\ ReadOverdue'
  BY <1>1, <1>2, <1>3, <1>4, <1>5
  DEF OneOnItsWay, CountedHeard, Anchored, Called, ReadOverdue, Rewritten
<1> QED BY <1>6, <1>7

LEMMA ThresholdIs ==
  ASSUME PatrolTypes, rec # Nothing
  PROVE  Threshold(rec).why = "due" <=> PastDue(rec)
<1>1. Base(rec).why # "due"
  BY DEF Base
<1> QED BY <1>1 DEF Threshold

\* A judgement is made with no wake-up on its way.
LEMMA JudgeIs ==
  ASSUME PatrolInv, NEW active, Judge(active)
  PROVE  rec # Nothing /\ Watcher /\ rec.nudge.pending = 0
BY DEF Judge, Judging, PatrolInv, OneOnItsWay, Others, Watcher

\* A wake-up or an escalation of an overdue task waits for DueFloor.
LEMMA WakesSpaced ==
  ASSUME PatrolInv, NEW active, Judge(active), Wakes(active) \/ WakesAgain(active), Called
  PROVE  Spaced
<1>1. PastDue(rec) /\ patrol.at # "lost" /\ (rec.nudge.sent = mark.sent \/ Spaced)
  BY JudgeIs DEF PatrolInv, Anchored
<1>2. Threshold(rec).why = "due" /\ CooldownFor("due") = DueFloor
  BY <1>1, JudgeIs, ThresholdIs DEF PatrolInv, CooldownFor
<1>3. mark.sent # 0
  BY MarkFacts DEF PatrolInv, Called
<1>4. CASE Wakes(active)
  BY <1>1, <1>2, <1>3, <1>4 DEF Wakes, Spaced
<1>5. CASE WakesAgain(active)
  BY <1>1, <1>2, <1>5 DEF WakesAgain, Spaced
<1> QED BY <1>4, <1>5

LEMMA ReadTaskKeeps ==
  ASSUME PatrolInv, NEW what \in {"nudge", "escalate"}, NEW active, Judge(active),
         Wakes(active) \/ WakesAgain(active), ReadTask(what, Threshold(rec).why),
         UNCHANGED <<rec, mark>>
  PROVE  PatrolInv'
<1> USE DEF PatrolInv
<1>1. /\ patrol'.at = what /\ patrol'.t = now /\ patrol'.due = (Threshold(rec).why = "due")
      /\ patrol'.guid = rec.guid /\ patrol'.active = 0
  BY DEF ReadTask
<1>2. rec # Nothing /\ Watcher /\ rec.nudge.pending = 0
  BY JudgeIs
<1>3. PatrolTypes'
  <2>1. patrol' \in Patrols /\ patrol'.t <= now
    <3>1. rec.guid \in Guids /\ now \in Nat
      BY <1>2, ClaimFacts, MarkFacts DEF Claims
    <3> QED BY <3>1, MarkFacts DEF ReadTask, Patrols
  <2> QED BY <1>2, <2>1, MarkFacts, ClaimFacts, WatcherTyped
<1>4. OneOnItsWay' /\ CountedHeard'
  BY <1>2 DEF OneOnItsWay, CountedHeard, Watcher, Activity
<1>5. Anchored'
  <2>1. Called => now - mark.sent >= DueFloor
    BY WakesSpaced DEF Spaced
  <2> QED BY <1>1, <1>2, <2>1 DEF Anchored, Called, PastDue, Spaced, Watcher
<1>6. ReadOverdue'
  BY <1>1, <1>2, ThresholdIs DEF ReadOverdue, PastDue, Watcher
<1> QED BY <1>3, <1>4, <1>5, <1>6

LEMMA JudgeKeeps ==
  ASSUME PatrolInv, NEW active, Judge(active)
  PROVE  PatrolInv'
<1>1. CASE /\ Wakes(active) \/ (WakesAgain(active) /\ rec.nudge.count < EscalateAfter)
           /\ ReadTask("nudge", Threshold(rec).why) /\ UNCHANGED <<rec, mark>>
  BY <1>1, ReadTaskKeeps
<1>2. CASE /\ WakesAgain(active) /\ rec.nudge.count >= EscalateAfter
           /\ ReadTask("escalate", Threshold(rec).why) /\ UNCHANGED <<rec, mark>>
  BY <1>2, ReadTaskKeeps
<1>3. CASE rec' = Progressed(rec, Threshold(rec).why) /\ mark' = Anew /\ patrol' = Asleep
  <2> USE DEF PatrolInv
  <2>1. rec # Nothing /\ Watcher /\ rec.nudge.pending = 0
    BY JudgeIs
  <2> DEFINE k == IF Threshold(rec).why = "due" THEN [NoNudge EXCEPT !.sent = rec.nudge.sent]
                  ELSE NoNudge
  <2>2. rec' = [rec EXCEPT !.nudge = k]
    BY <1>3 DEF Progressed
  <2>3. /\ k \in Counters /\ k.count = 0 /\ k.pending = 0 /\ ~k.escalated
        /\ PastDue(rec) => k.sent = rec.nudge.sent
    <3>1. rec.nudge.sent \in Nat
      BY <2>1, ClaimFacts
    <3>2. PastDue(rec) => Threshold(rec).why = "due"
      BY <2>1, ThresholdIs
    <3> QED BY <3>1, <3>2 DEF NoNudge, Counters
  <2> HIDE DEF k
  <2>4. Rewritten(k)
    BY <2>1, <2>2, <2>3, RewrittenIs
  <2>5. mark' \in Marks /\ mark'.sent = mark.sent /\ mark'.due = mark.due /\ mark'.answered = 0
    BY <1>3, MarkMoves, MarkFacts DEF Anew, Marks
  <2>6. PatrolTypes'
    <3>1. 0 <= now
      BY MarkFacts
    <3> QED BY <1>3, <2>1, <2>4, <2>5, <3>1, AsleepIs, MarkFacts, WatcherTyped DEF Rewritten
  <2>7. OneOnItsWay' /\ CountedHeard' /\ ReadOverdue'
    BY <1>3, <2>3, <2>4, <2>5, AsleepIs DEF OneOnItsWay, CountedHeard, ReadOverdue, Rewritten
  <2>8. Anchored'
    BY <1>3, <2>1, <2>3, <2>4, <2>5, AsleepIs
    DEF Anchored, Called, PastDue, Spaced, Rewritten, Watcher
  <2> QED BY <2>6, <2>7, <2>8
<1> QED BY <1>1, <1>2, <1>3 DEF Judge

LEMMA SendNudgeKeeps == PatrolInv /\ SendNudge => PatrolInv'
<1> SUFFICES ASSUME PatrolInv, SendNudge PROVE PatrolInv'
  OBVIOUS
<1> USE DEF PatrolInv
<1> DEFINE heard == rec # Nothing /\ Activity > patrol.t
           t == patrol.t
<1>1. /\ patrol.at = "nudge" /\ Watcher /\ patrol' = Asleep
      /\ mark' = [sent |-> t, due |-> patrol.due, heard |-> heard,
                  answered |-> mark.answered + IF heard THEN 1 ELSE 0]
      /\ rec' = IF rec = Nothing THEN Nothing ELSE Sent(rec, t)
  BY DEF SendNudge, Others, Watcher
<1>2. /\ mark' \in Marks /\ mark'.sent = t /\ mark'.due = patrol.due
      /\ mark'.heard = heard /\ mark'.answered >= mark.answered
      /\ heard => mark'.answered = mark.answered + 1
  <2> DEFINE more == mark.answered + (IF heard THEN 1 ELSE 0)
  <2>1. more \in Nat /\ more >= mark.answered /\ (heard => more = mark.answered + 1)
    BY MarkFacts
  <2>2. heard \in BOOLEAN
    OBVIOUS
  <2>3. mark' = [sent |-> t, due |-> patrol.due, heard |-> heard, answered |-> more]
    BY <1>1
  <2> HIDE DEF heard, more
  <2> QED BY <2>1, <2>2, <2>3, MarkFacts DEF Marks
<1>3. CASE rec = Nothing
  <2>1. PatrolTypes' /\ rec' = Nothing
    <3>1. 0 <= now
      BY MarkFacts
    <3> QED BY <1>1, <1>2, <1>3, <3>1, AsleepIs, MarkFacts, WatcherTyped
  <2> QED BY <2>1 DEF OneOnItsWay, CountedHeard, ReadOverdue, Anchored, Called
<1>4. CASE rec # Nothing
  <2> DEFINE k == [count |-> rec.nudge.count, sent |-> IF rec.nudge.sent = 0 THEN t ELSE rec.nudge.sent,
                   seen |-> rec.nudge.seen, escalated |-> FALSE, pending |-> t]
  <2>1. rec' = [rec EXCEPT !.nudge = k]
    BY <1>1, <1>4 DEF Sent
  <2>2. k \in Counters /\ k.count = rec.nudge.count /\ k.pending = t /\ ~k.escalated
    BY <1>4, ClaimFacts, MarkFacts DEF Counters
  <2> HIDE DEF k
  <2>3. Rewritten(k)
    BY <1>4, <2>1, <2>2, RewrittenIs
  <2>4. PatrolTypes'
    <3>1. 0 <= now
      BY MarkFacts
    <3> QED BY <1>1, <1>2, <2>3, <3>1, AsleepIs, MarkFacts, WatcherTyped DEF Rewritten
  <2>5. CountedHeard'
    <3>1. Activity' = Activity
      BY <1>1, <2>3 DEF Activity, Rewritten, Watcher
    <3>2. rec.nudge.count <= mark.answered
      BY <1>4 DEF CountedHeard
    <3> QED BY <1>2, <1>4, <2>2, <2>3, <3>1, <3>2, ClaimFacts, MarkFacts DEF CountedHeard, Rewritten,
       Marks
  <2>6. OneOnItsWay' /\ ReadOverdue'
    BY <1>1, AsleepIs DEF OneOnItsWay, ReadOverdue
  <2>7. Anchored'
    <3> SUFFICES ASSUME Called' PROVE Anchored'
      BY DEF Anchored
    <3>1. patrol.due /\ rec.at < patrol.t /\ started < t
      BY <1>1, <1>2, <2>3 DEF Called, Rewritten, Watcher
    <3>2. PastDue(rec)'
      BY <1>1, <1>4, <2>3, <3>1 DEF ReadOverdue, PastDue, Rewritten, Watcher
    <3>3. t # 0
      BY <3>1, MarkFacts
    <3> QED BY <1>1, <1>2, <2>2, <2>3, <3>2, <3>3, AsleepIs DEF Anchored, Rewritten
  <2> QED BY <2>4, <2>5, <2>6, <2>7
<1> QED BY <1>3, <1>4

LEMMA PostEscalationKeeps == PatrolInv /\ PostEscalation => PatrolInv'
<1> SUFFICES ASSUME PatrolInv, PostEscalation PROVE PatrolInv'
  OBVIOUS
<1> USE DEF PatrolInv
<1> DEFINE k == [rec.nudge EXCEPT !.escalated = TRUE, !.pending = 0]
<1>1. /\ patrol.at = "escalate" /\ Watcher /\ patrol' = Asleep /\ UNCHANGED mark
      /\ rec' = rec \/ (rec # Nothing /\ rec' = [rec EXCEPT !.nudge = k])
  BY DEF PostEscalation, Others, Watcher
<1>2. CASE rec' = rec
  BY <1>1, <1>2, StandDownKeeps DEF StandDown, PostEscalation
<1>3. CASE rec # Nothing /\ rec' = [rec EXCEPT !.nudge = k]
  <2>1. k \in Counters /\ k.count = rec.nudge.count /\ k.pending = 0 /\ k.sent = rec.nudge.sent
    BY <1>3, ClaimFacts DEF Counters
  <2> HIDE DEF k
  <2>2. Rewritten(k)
    BY <1>3, <2>1, RewrittenIs
  <2>3. PatrolTypes'
    <3>1. 0 <= now
      BY MarkFacts
    <3> QED BY <1>1, <2>2, <3>1, AsleepIs, MarkFacts, WatcherTyped DEF Rewritten
  <2>4. OneOnItsWay' /\ CountedHeard' /\ ReadOverdue'
    BY <1>1, <2>1, <2>2, AsleepIs DEF OneOnItsWay, CountedHeard, ReadOverdue, Rewritten
  <2>5. Anchored'
    <3>1. Called => Spaced
      <4>1. Called => patrol.t - mark.sent >= DueFloor
        BY <1>1 DEF Anchored
      <4> QED BY <4>1, MarkFacts, PatrolAssumption DEF Spaced
    <3> QED BY <1>1, <2>1, <2>2, <3>1, AsleepIs
            DEF Anchored, Called, PastDue, Spaced, Rewritten, Watcher
  <2> QED BY <2>3, <2>4, <2>5
<1> QED BY <1>1, <1>2, <1>3

-----------------------------------------------------------------------------
(* The environment's steps.                                                *)

\* A step that touches neither the claim, the detector nor the clock.
LEMMA ElsewhereKeeps ==
  ASSUME PatrolInv, UNCHANGED <<now, last, recv, rec, turn, due, started, patrol, mark>>,
         allowance' \in Allowed, allowance'.due = allowance.due
  PROVE  PatrolInv'
<1> USE DEF PatrolInv
<1>1. PatrolTypes'
  BY DEF PatrolTypes
<1>2. OneOnItsWay' /\ CountedHeard' /\ ReadOverdue'
  BY DEF OneOnItsWay, CountedHeard, ReadOverdue, Activity, PastDue
<1>3. Anchored'
  BY DEF Anchored, Called, PastDue, Spaced
<1> QED BY <1>1, <1>2, <1>3

LEMMA EnvironmentKeeps ==
  ASSUME PatrolInv,
         \/ PeerReceives \/ \E failed \in BOOLEAN : PeerEnds(failed)
         \/ \E g \in Guids, to \in {"open", "complete", "gone"} : HumanMoves(g, to)
  PROVE  PatrolInv'
<1>1. UNCHANGED <<now, last, recv, rec, turn, due, started, patrol, mark>>
  BY DEF PeerReceives, PeerEnds, HumanMoves
<1>2. \E what \in {"asks", "claims", "human", "crashes", "peer"} : Has(what) /\ Spend(what)
  BY DEF PeerReceives, PeerEnds, HumanMoves
<1> QED BY <1>1, <1>2, StillAllowed, ElsewhereKeeps DEF PatrolInv

LEMMA LearnDueKeeps == PatrolInv /\ LearnDue => PatrolInv'
<1> SUFFICES ASSUME PatrolInv, LearnDue PROVE PatrolInv'
  OBVIOUS
<1> USE DEF PatrolInv
<1>1. /\ due = 0 /\ due' = allowance.due /\ due' \in Nat
      /\ UNCHANGED <<now, last, recv, rec, turn, started, patrol, mark, allowance>>
  BY DEF LearnDue, PatrolTypes, Allowed
<1>2. PatrolTypes'
  BY <1>1 DEF PatrolTypes
<1>3. ~PastDue(rec)
  BY <1>1 DEF PastDue
<1>4. OneOnItsWay' /\ CountedHeard' /\ ReadOverdue'
  BY <1>1, <1>3 DEF OneOnItsWay, CountedHeard, ReadOverdue, Activity
<1>5. Anchored'
  BY <1>1, <1>3 DEF Anchored, Called
<1> QED BY <1>2, <1>4, <1>5

LEMMA RestartKeeps == PatrolInv /\ Restart => PatrolInv'
<1> SUFFICES ASSUME PatrolInv, Restart PROVE PatrolInv'
  OBVIOUS
<1> USE DEF PatrolInv
<1>1. /\ recv' = 0 /\ turn' = NoTurn /\ due' = 0 /\ started' = now /\ patrol' = Asleep
      /\ UNCHANGED <<now, last, rec, mark>>
  BY DEF Restart
<1>2. allowance' \in Allowed /\ allowance'.due = allowance.due
  BY StillAllowed DEF Restart
<1>3. PatrolTypes'
  BY <1>1, <1>2, AsleepIs, NoTurnIs DEF PatrolTypes
<1>4. OneOnItsWay' /\ CountedHeard' /\ ReadOverdue'
  BY <1>1, AsleepIs DEF OneOnItsWay, CountedHeard, ReadOverdue, Activity
<1>5. ~Called'
  BY <1>1, MarkFacts DEF Called
<1> QED BY <1>3, <1>4, <1>5 DEF Anchored

LEMMA ElapseKeeps == PatrolInv /\ Elapse => PatrolInv'
<1> SUFFICES ASSUME PatrolInv, Elapse PROVE PatrolInv'
  OBVIOUS
<1> USE DEF PatrolInv
<1>1. /\ now' = now + 1
      /\ UNCHANGED <<last, recv, rec, turn, due, started, patrol, mark, allowance>>
  BY DEF Elapse
<1>2. PatrolTypes'
  BY <1>1, MarkFacts DEF PatrolTypes
<1>3. OneOnItsWay' /\ CountedHeard'
  BY <1>1 DEF OneOnItsWay, CountedHeard, Activity
<1>4. due \in Nat /\ (PastDue(rec) => PastDue(rec)')
  BY <1>1, MarkFacts DEF PatrolTypes, PastDue, Allowed
<1>5. ReadOverdue'
  BY <1>1, <1>4 DEF ReadOverdue
<1>6. Spaced => Spaced'
  BY <1>1, MarkFacts, PatrolAssumption DEF Spaced
<1>7. Anchored'
  BY <1>1, <1>4, <1>6 DEF Anchored, Called
<1> QED BY <1>2, <1>3, <1>5, <1>7

LEMMA PatrolStep == PatrolInv /\ [PatrolNext]_patrolVars => PatrolInv'
<1> SUFFICES ASSUME PatrolInv, [PatrolNext]_patrolVars PROVE PatrolInv'
  OBVIOUS
<1>1. CASE Ask \/ WakeArrives
  BY <1>1, ReceiveIs, TurnStepKeeps DEF Ask, WakeArrives, PatrolInv
<1>2. CASE \E found \in BOOLEAN : Begin(found)
  BY <1>2, BeginIs, TurnStepKeeps DEF PatrolInv
<1>3. CASE \E how \in {"ok", "failed", "threw"}, saved \in BOOLEAN, g \in Guids \cup {Nothing} :
             Finish(how, saved, g)
  BY <1>3, FinishIs, TurnStepKeeps DEF PatrolInv
<1>4. CASE WritesBack
  BY <1>4, BackIs, TurnStepKeeps DEF PatrolInv
<1>5. CASE Look
  BY <1>5, UnescalateKeeps, ConfirmKeeps, GiveUpKeeps, JudgeKeeps DEF Look
<1>6. CASE Act \/ StandDown
  BY <1>6, SendNudgeKeeps, FindCompleteKeeps, FindGoneKeeps, PostEscalationKeeps, StandDownKeeps
  DEF Act
<1>7. CASE LearnDue \/ Restart \/ Elapse
  BY <1>7, LearnDueKeeps, RestartKeeps, ElapseKeeps
<1>8. CASE \/ PeerReceives \/ \E failed \in BOOLEAN : PeerEnds(failed)
           \/ \E g \in Guids, to \in {"open", "complete", "gone"} : HumanMoves(g, to)
  BY <1>8, EnvironmentKeeps
<1>9. CASE UNCHANGED patrolVars
  BY <1>9, ElsewhereKeeps DEF patrolVars, PatrolInv, PatrolTypes
<1> QED BY <1>1, <1>2, <1>3, <1>4, <1>5, <1>6, <1>7, <1>8, <1>9 DEF PatrolNext, WritesBack

\* Only a judgement that has counted enough answered wake-ups goes to the humans.
Escalates == patrol.at # "escalate" /\ patrol'.at = "escalate" => mark.answered >= EscalateAfter

\* Only SendNudge moves the mark; it does so DueFloor after the last call.
Overdue ==
  mark'.sent # mark.sent /\ mark'.due /\ mark.due
    /\ started < mark.sent /\ rec # Nothing /\ rec.at < mark.sent
    => mark'.sent - mark.sent >= DueFloor

\* What the turns and the environment leave alone: whom the detector tells,
\* and when it last sent a wake-up.
Silent == patrol'.at \in {patrol.at, "idle", "lost", "nudge"} /\ mark'.sent = mark.sent

LEMMA OthersSilent ==
  ASSUME PatrolInv, [PatrolNext]_patrolVars, ~SendNudge, ~ \E active \in 1..MaxTime : Judge(active)
  PROVE  Silent
<1> USE DEF PatrolInv
<1>1. CASE \/ Ask \/ WakeArrives \/ \E found \in BOOLEAN : Begin(found)
           \/ \E how \in {"ok", "failed", "threw"}, saved \in BOOLEAN, g \in Guids \cup {Nothing} :
                Finish(how, saved, g)
           \/ WritesBack
  <2>1. TurnStep
    BY <1>1, ReceiveIs, BeginIs, FinishIs, BackIs DEF Ask, WakeArrives
  <2> QED BY <2>1, MarkMoves DEF TurnStep, Made, Silent
<1>2. CASE Unescalate \/ Confirm
  BY <1>2, MarkMoves DEF Unescalate, Confirm, Silent
<1>3. CASE GiveUp
  BY <1>3, MarkFacts DEF GiveUp, Silent, Marks, Asleep
<1>4. CASE FindComplete \/ FindGone \/ PostEscalation \/ StandDown
  BY <1>4, AsleepIs, MarkMoves DEF FindComplete, FindGone, PostEscalation, StandDown, Silent
<1>5. CASE LearnDue \/ Restart \/ Elapse \/ UNCHANGED patrolVars
  BY <1>5, AsleepIs DEF LearnDue, Restart, Elapse, patrolVars, Silent
<1>6. CASE \/ PeerReceives \/ \E failed \in BOOLEAN : PeerEnds(failed)
           \/ \E g \in Guids, to \in {"open", "complete", "gone"} : HumanMoves(g, to)
  BY <1>6 DEF PeerReceives, PeerEnds, HumanMoves, Silent
<1> QED BY <1>1, <1>2, <1>3, <1>4, <1>5, <1>6 DEF PatrolNext, WritesBack, Look, Act

LEMMA PatrolActs == PatrolInv /\ [PatrolNext]_patrolVars => Escalates /\ Overdue
<1> SUFFICES ASSUME PatrolInv, [PatrolNext]_patrolVars PROVE Escalates /\ Overdue
  OBVIOUS
<1> USE DEF PatrolInv
<1>1. CASE \E active \in 1..MaxTime : Judge(active)
  <2> PICK active \in 1..MaxTime : Judge(active)
    BY <1>1
  <2>1. rec # Nothing
    BY JudgeIs
  <2>2. rec.nudge.count <= mark.answered
    BY <2>1 DEF CountedHeard
  <2>3. patrol'.at = "escalate" => rec.nudge.count >= EscalateAfter
    BY AsleepIs DEF Judge, ReadTask
  <2>4. mark'.sent = mark.sent
    BY MarkMoves DEF Judge
  <2> QED BY <2>1, <2>2, <2>3, <2>4, ClaimFacts, MarkFacts, PatrolAssumption DEF Escalates, Overdue
<1>2. CASE SendNudge
  <2>1. mark'.sent = patrol.t /\ patrol'.at = "idle" /\ patrol.at = "nudge"
    BY <1>2, AsleepIs DEF SendNudge
  <2>2. Called => patrol.t - mark.sent >= DueFloor
    BY <2>1 DEF Anchored
  <2> QED BY <2>1, <2>2 DEF Escalates, Overdue, Called
<1>3. CASE Silent
  BY <1>3 DEF Silent, Escalates, Overdue
<1> QED BY <1>1, <1>2, <1>3, OthersSilent

\* The humans are told only after EscalateAfter wake-ups were each followed by
\* activity of the topic (#pollOne): while nobody speaks no wake-up counts.
THEOREM OnlyAnsweredCount == PatrolSpec => EscalatesAfterAnswered
<1>1. PatrolInv /\ [PatrolNext]_patrolVars => PatrolInv' /\ [Escalates]_patrolVars
  BY PatrolStep, PatrolActs
<1> QED BY <1>1, PatrolStarts, PTL DEF PatrolSpec, EscalatesAfterAnswered, Escalates

\* An overdue task is called overdue at most once in DueFloor, whatever progress,
\* confirmation or reading of the task comes in between (#pollOne, #sendNudge).
THEOREM OverdueIsSpaced == PatrolSpec => DueSpaced
<1>1. PatrolInv /\ [PatrolNext]_patrolVars => PatrolInv' /\ [Overdue]_patrolVars
  BY PatrolStep, PatrolActs
<1> QED BY <1>1, PatrolStarts, PTL DEF PatrolSpec, DueSpaced, Overdue
=============================================================================
