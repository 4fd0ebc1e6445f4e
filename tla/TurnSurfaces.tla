---------------------------- MODULE TurnSurfaces ----------------------------
(***************************************************************************)
(* What the turns of one session show the user, and the ledgers that let a *)
(* later boot finish what a crash left open: the card steps of handleOne   *)
(* (src/src/bridge/handler.ts), card.json, cardkit.json and cot.json, and  *)
(* reconcileOrphanedCards (src/src/bridge/reconcile.ts).                   *)
(*                                                                         *)
(* A turn has a CardKit card or a legacy card, a second ("late") legacy    *)
(* card when the first surface is lost, and a reasoning bubble that lives  *)
(* beside it.  Each ledger is one file of the session's directory, however *)
(* many turns there were.  One action is one call of the platform or one   *)
(* file operation, which may fail; a crash may come between any two.  Each *)
(* turn has an agent, which may outlive the bridge and write state.json    *)
(* later.  Operators marked "mutant" are plausible bugs of the definition  *)
(* below them.                                                             *)
(***************************************************************************)
EXTENDS Naturals, FiniteSets

CONSTANTS
  RetryCap,    \* RETRY_CAP of reconcile.ts
  MaxTurns,    \* bound on the turns of the session
  Budgets,     \* turns, crashes, faults and bubbles a behaviour may have
  None

ASSUME SurfacesAssumption ==
  /\ RetryCap \in Nat /\ MaxTurns \in Nat
  /\ Budgets \subseteq [turns : 0..MaxTurns, crashes : Nat, faults : Nat, bubbles : BOOLEAN]
  /\ None \notin [turn : Nat, what : {"card", "late"}, retry : Nat, since : Nat]
       \cup [turn : Nat, retry : Nat, since : Nat,
             status : {"streaming", "finalized", "fallback_visible"}]

VARIABLES
  at,        \* where the process is: a step of the turn, of the boot, or down
  n,         \* the latest turn
  h,         \* handleOne's card, cardKitProgress, startFailurePostFallbackSent
             \* and preRunUpdatedAt
  lane,      \* the surface steps of the turn still to do
  kitRec,    \* cardKitRecord in every turn's closure: its status and creation
  salvage,   \* turns whose CardKit salvage still has a call in flight
  bubble,    \* every turn's bubble: its create, its ledger write, its end
  shown,     \* what the platform shows on each surface
  told,      \* turns answered by a post or by a recovered card
  settled,   \* every turn's message: handled, or released for a replay
  cardFile,  \* card.json
  kitFile,   \* cardkit.json
  cotFile,   \* cot.json
  state,     \* state.json: whose turn wrote it, and its number among writes
  child,     \* the turns whose agent process is alive
  strays,    \* the turns whose agent has outlived a crash into a later turn
  budget

files == <<cardFile, kitFile, cotFile>>

vars == <<at, n, h, lane, kitRec, salvage, bubble, shown, told, settled, files,
          state, child, strays, budget>>

Turns    == 1..MaxTurns
Surfaces == {"card", "late", "kit", "bubble"} \X Turns
Blank    == [is |-> "absent", of |-> 0]
Open     == [is |-> "open", of |-> 0]
Answer(k) == [is |-> "answer", of |-> k]
Failed   == [is |-> "failed", of |-> 0]
Cut      == [is |-> "interrupted", of |-> 0]

NoHandles == [card |-> None, kit |-> FALSE, posted |-> FALSE, since |-> 0]
NoRecord  == [status |-> "none", since |-> 0]
NoBubble  == [at |-> "none", write |-> "none", end |-> "none"]

Init ==
  /\ at = "idle" /\ n = 0 /\ h = NoHandles /\ lane = "done"
  /\ kitRec = [k \in Turns |-> NoRecord] /\ salvage = {}
  /\ bubble = [k \in Turns |-> NoBubble]
  /\ shown = [s \in Surfaces |-> Blank] /\ told = {}
  /\ settled = [k \in Turns |-> "no"]
  /\ cardFile = None /\ kitFile = None /\ cotFile = None
  /\ state = [turn |-> 0, count |-> 0] /\ child = {} /\ strays = {}
  /\ budget \in Budgets

Fault == budget.faults > 0 /\ budget' = [budget EXCEPT !.faults = @ - 1]
Fine  == UNCHANGED budget

Show(s, what) == shown' = [shown EXCEPT ![s] = what]
PutCard(rec) == cardFile' = rec /\ UNCHANGED <<kitFile, cotFile>>
PutKit(rec)  == kitFile' = rec /\ UNCHANGED <<cardFile, cotFile>>
PutCot(rec)  == cotFile' = rec /\ UNCHANGED <<cardFile, kitFile>>
\* The ledgers are written with the time, which only ever meets state.json's.
CardRec(what) == [turn |-> n, what |-> what, retry |-> 0, since |-> state.count]
KitRec(k, status) ==
  [turn |-> k, retry |-> 0, since |-> kitRec[k].since, status |-> status]

Aside == <<lane, salvage, bubble, state, child, strays>>

-----------------------------------------------------------------------------
(* The surface steps of a turn; the runner may run meanwhile.              *)

\* Rollout gates decide for every turn whether it has a CardKit card.
StartTurn(kit) ==
  /\ at = "idle" /\ budget.turns > 0
  /\ budget' = [budget EXCEPT !.turns = @ - 1]
  /\ at' = "open" /\ n' = n + 1 /\ h' = [NoHandles EXCEPT !.since = state.count]
  /\ child' = child \cup {n + 1} /\ strays' = strays \cup child
  /\ lane' = IF kit THEN "kit" ELSE "card"
  /\ UNCHANGED <<kitRec, salvage, bubble, shown, told, settled, files, state>>

\* The legacy card: the main one, or the one for a CardKit that did not start.
OpenCard ==
  /\ at = "open" /\ lane \in {"card", "instead"}
  /\ \/ /\ Fine /\ h' = [h EXCEPT !.card = "card"] /\ Show(<<"card", n>>, Open)
        /\ lane' = "ledger"
     \/ /\ Fault /\ UNCHANGED <<h, shown>>
        /\ lane' = IF lane = "card" THEN "done" ELSE "say"
  /\ UNCHANGED <<at, n, kitRec, salvage, bubble, told, settled, files, state, child, strays>>

\* startFailurePostFallbackSent.
SayNoCard ==
  /\ at = "open" /\ lane = "say" /\ lane' = "done"
  /\ \/ Fine /\ told' = told \cup {n} /\ h' = [h EXCEPT !.posted = TRUE]
     \/ Fault /\ UNCHANGED <<told, h>>
  /\ UNCHANGED <<at, n, kitRec, salvage, bubble, shown, settled, files, state, child, strays>>

\* A placeholder that was sent but has no card id is adopted as a legacy card.
OpenKit ==
  /\ at = "open" /\ lane = "kit"
  /\ \/ /\ Fine /\ h' = [h EXCEPT !.kit = TRUE] /\ Show(<<"kit", n>>, Open)
        /\ lane' = "record"
        /\ kitRec' = [kitRec EXCEPT ![n] = [status |-> "streaming", since |-> state.count]]
     \/ /\ Fault /\ h' = [h EXCEPT !.card = "card"] /\ Show(<<"card", n>>, Open)
        /\ lane' = "ledger" /\ UNCHANGED kitRec
     \/ Fault /\ lane' = "instead" /\ UNCHANGED <<h, shown, kitRec>>
  /\ UNCHANGED <<at, n, salvage, bubble, told, settled, files, state, child, strays>>

\* A failed write starts a legacy card as well; cardKitProgress stays.
RecordKit ==
  /\ at = "open" /\ lane = "record"
  /\ \/ Fine /\ lane' = "done" /\ PutKit(KitRec(n, "streaming"))
     \/ Fault /\ lane' = "instead" /\ UNCHANGED files
  /\ UNCHANGED <<at, n, h, kitRec, salvage, bubble, shown, told, settled, state, child, strays>>

\* The streamed answer commits its sequence numbers into the ledger.
StreamKit ==
  /\ at = "open" /\ lane = "done" /\ h.kit /\ PutKit(KitRec(n, "streaming"))
  /\ UNCHANGED <<at, n, h, lane, kitRec, salvage, bubble, shown, told, settled,
                 state, child, strays, budget>>

\* writeCardLedger: a write that fails is only logged.
RecordCard ==
  /\ at = "open" /\ lane = "ledger" /\ lane' = "done"
  /\ \/ Fine /\ PutCard(CardRec("card"))
     \/ Fault /\ UNCHANGED files
  /\ UNCHANGED <<at, n, h, kitRec, salvage, bubble, shown, told, settled, state, child, strays>>

\* A turn's agent writes state.json, also when the bridge has died meanwhile or
\* runs a later turn; bounded to as many writes as there were turns.
WriteState(k) ==
  /\ k \in child /\ state.count < n
  /\ state' = [turn |-> k, count |-> state.count + 1]
  /\ UNCHANGED <<at, n, h, lane, kitRec, salvage, bubble, shown, told, settled,
                 files, child, strays, budget>>

EndRun ==
  /\ at = "open" /\ lane = "done" /\ child' = child \ {n}
  /\ at' = IF h.kit THEN "kit" ELSE IF h.card = None THEN "late" ELSE "card"
  /\ UNCHANGED <<n, h, lane, kitRec, salvage, bubble, shown, told, settled, files,
                 state, strays, budget>>

\* A setup step, the runner or the session write throws.
Throw ==
  /\ at = "open" /\ lane \notin {"record", "instead", "say"} /\ Fault
  /\ at' = "failing" /\ child' = child \ {n}
  /\ UNCHANGED <<n, h, lane, kitRec, salvage, bubble, shown, told, settled, files,
                 state, strays>>

-----------------------------------------------------------------------------
(* finalizeCard.                                                           *)

Main == <<n, settled, Aside>>

\* updateCardKitRecord: the closure's record first, then the file.
SettleRecord == kitRec' = [kitRec EXCEPT ![n].status = "settled"]

\* What state.json says, if it was written since the turn's start, or else the
\* text the agent has streamed.
Reply == Answer(IF state.count > h.since THEN state.turn ELSE n)

FinalKit ==
  /\ at = "kit"
  /\ \/ Fine /\ Show(<<"kit", n>>, Reply) /\ at' = "kitMark" /\ UNCHANGED salvage
     \/ Fault /\ at' = "again" /\ salvage' = salvage \cup {n} /\ UNCHANGED shown
  /\ UNCHANGED <<n, h, lane, kitRec, bubble, told, settled, files, state, child, strays>>

MarkKit ==
  /\ at = "kitMark" /\ SettleRecord
  /\ \/ Fine /\ at' = "kitDrop" /\ PutKit(KitRec(n, "finalized"))
     \/ Fault /\ at' = "again" /\ UNCHANGED files
  /\ UNCHANGED <<Main, h, shown, told>>

\* The visible legacy card of a lost CardKit, or the one that never started.
LateStart ==
  /\ at \in {"again", "late"}
  /\ \/ /\ Fine /\ h' = [h EXCEPT !.card = "late"] /\ Show(<<"late", n>>, Open)
        /\ at' = IF h.kit THEN "againRec" ELSE "lateRec"
     \/ Fault /\ at' = (IF h.kit THEN "againPost" ELSE "latePost") /\ UNCHANGED <<h, shown>>
  /\ UNCHANGED <<Main, kitRec, told, files>>

LateRecord ==
  /\ at \in {"againRec", "lateRec"}
  /\ at' = IF at = "againRec" THEN "againFinal" ELSE "card"
  /\ \/ Fine /\ PutCard(CardRec("late"))
     \/ Fault /\ UNCHANGED files
  /\ UNCHANGED <<Main, h, kitRec, shown, told>>

AgainFinal ==
  /\ at = "againFinal"
  /\ \/ Fine /\ Show(<<"late", n>>, Reply) /\ at' = "againMark"
     \/ Fault /\ at' = "againPost" /\ UNCHANGED shown
  /\ UNCHANGED <<Main, h, kitRec, told, files>>

AgainMark ==
  /\ at = "againMark" /\ SettleRecord
  /\ \/ Fine /\ at' = "againDrop" /\ PutKit(KitRec(n, "fallback_visible"))
     \/ Fault /\ at' = "againPost" /\ UNCHANGED files
  /\ UNCHANGED <<Main, h, shown, told>>

\* mutant of Unposted: the ledgers go whether or not the post was sent
UnpostedDropped == "saidCard"
\* With CardKit a turn that could show nothing still ends well.
Unposted == "done"

AgainPost ==
  /\ at = "againPost"
  /\ \/ Fine /\ told' = told \cup {n} /\ at' = "saidMark"
     \/ Fault /\ at' = Unposted /\ UNCHANGED told
  /\ UNCHANGED <<Main, h, kitRec, shown, files>>

\* The post is out; when the record cannot be written the turn fails.
SaidMark ==
  /\ at = "saidMark" /\ SettleRecord
  /\ \/ Fine /\ at' = "saidCard" /\ PutKit(KitRec(n, "fallback_visible"))
     \/ Fault /\ at' = "failing" /\ UNCHANGED files
  /\ UNCHANGED <<Main, h, shown, told>>

\* mutant of Unshown: the lost post is logged and the turn ends well
UnshownLogged == "done"
\* Without CardKit a turn that could show nothing fails.
Unshown == "failing"

LatePost ==
  /\ at = "latePost"
  /\ \/ Fine /\ told' = told \cup {n} /\ at' = "done"
     \/ Fault /\ at' = Unshown /\ UNCHANGED told
  /\ UNCHANGED <<Main, h, kitRec, shown, files>>

FinalCard ==
  /\ at = "card"
  /\ \/ Fine /\ Show(<<h.card, n>>, Reply) /\ at' = "cardDrop"
     \/ Fault /\ at' = "failing" /\ UNCHANGED shown
  /\ UNCHANGED <<Main, h, kitRec, told, files>>

\* deleteCardFile, wherever it is called: a failure is only logged.
DropCard ==
  /\ at \in {"cardDrop", "againDrop", "saidCard", "failDrop"}
  /\ at' = IF at = "saidCard" THEN "saidKit" ELSE IF at = "failDrop" THEN "idle" ELSE "done"
  /\ \/ Fine /\ PutCard(None)
     \/ Fault /\ UNCHANGED files
  /\ UNCHANGED <<Main, h, kitRec, shown, told>>

\* deleteCardKitFile likewise.  After a post finalizeCard goes on, or the catch.
DropKit ==
  /\ at \in {"kitDrop", "saidKit", "failKitDrop"}
  /\ at' = IF at = "failKitDrop" THEN "idle"
           ELSE IF settled[n] = "no" THEN "done"
           ELSE IF h.card = None THEN "idle" ELSE "failDrop"
  /\ \/ Fine /\ PutKit(None)
     \/ Fault /\ UNCHANGED files
  /\ UNCHANGED <<Main, h, kitRec, shown, told>>

Handled ==
  /\ at = "done" /\ at' = "idle" /\ Fine /\ settled' = [settled EXCEPT ![n] = "handled"]
  /\ UNCHANGED <<n, h, kitRec, shown, told, files, Aside>>

\* A salvage call that outlived its budget commits its sequence number, but
\* not over a record the turn has settled meanwhile.
Commit(k) ==
  IF kitRec[k].status = "streaming" THEN PutKit(KitRec(k, "streaming"))
                                    ELSE UNCHANGED files

LateCommit(k) ==
  /\ k \in salvage /\ salvage' = salvage \ {k} /\ Commit(k)
  /\ UNCHANGED <<at, n, h, lane, kitRec, bubble, shown, told, settled, state, child, strays, budget>>

-----------------------------------------------------------------------------
(* The catch of handleOne.                                                 *)

Release ==
  /\ at = "failing" /\ Fine /\ settled' = [settled EXCEPT ![n] = "released"]
  /\ at' = IF h.card # None THEN "failCard"
           ELSE IF h.kit THEN "failKit" ELSE IF h.posted THEN "idle" ELSE "failPost"
  /\ UNCHANGED <<n, h, kitRec, shown, told, files, Aside>>

FailKit ==
  /\ at = "failKit"
  /\ \/ Fine /\ Show(<<"kit", n>>, Failed) /\ at' = "failKitDrop" /\ UNCHANGED salvage
     \/ Fault /\ at' = "failStart" /\ salvage' = salvage \cup {n} /\ UNCHANGED shown
  /\ UNCHANGED <<n, h, lane, kitRec, bubble, told, settled, files, state, child, strays>>

FailStart ==
  /\ at = "failStart"
  /\ \/ /\ Fine /\ h' = [h EXCEPT !.card = "late"] /\ Show(<<"late", n>>, Open)
        /\ at' = "failCard"
     \/ Fault /\ at' = "failPost" /\ UNCHANGED <<h, shown>>
  /\ UNCHANGED <<Main, kitRec, told, files>>

FailCard ==
  /\ at = "failCard"
  /\ \/ Fine /\ Show(<<h.card, n>>, Failed) /\ at' = "failDrop"
     \/ Fault /\ at' = "failPost" /\ UNCHANGED shown
  /\ UNCHANGED <<Main, h, kitRec, told, files>>

FailPost ==
  /\ at = "failPost"
  /\ \/ Fine /\ told' = told \cup {n} /\ at' = "saidCard"
     \/ Fault /\ at' = (IF h.card = None THEN "idle" ELSE "failDrop") /\ UNCHANGED told
  /\ UNCHANGED <<Main, h, kitRec, shown, files>>

-----------------------------------------------------------------------------
(* The reasoning bubble: created beside the turn, and never waited for.    *)

Cards == <<at, n, h, lane, kitRec, salvage, told, settled, state, child, strays>>

Over(k) == k < n \/ at # "open"

CreateBubble ==
  /\ at = "open" /\ budget.bubbles /\ bubble[n] = NoBubble
  /\ bubble' = [bubble EXCEPT ![n].at = "creating"]
  /\ UNCHANGED <<Cards, shown, files, budget>>

BubbleMade(k) ==
  /\ bubble[k].at = "creating"
  /\ \/ /\ Fine /\ Show(<<"bubble", k>>, Open)
        /\ bubble' = [bubble EXCEPT ![k].at = "made", ![k].write = "going"]
     \/ Fault /\ bubble' = [bubble EXCEPT ![k].at = "lost"] /\ UNCHANGED shown
  /\ UNCHANGED <<Cards, files>>

WriteCot(k) ==
  /\ bubble[k].write = "going" /\ bubble' = [bubble EXCEPT ![k].write = "settled"]
  /\ \/ Fine /\ PutCot([turn |-> k, retry |-> 0])
     \/ Fault /\ UNCHANGED files
  /\ UNCHANGED <<Cards, shown>>

\* finalize(): at the turn's end, or as soon as a late handle is there.
CompleteBubble(k) ==
  /\ bubble[k].at = "made" /\ bubble[k].end = "none" /\ Over(k)
  /\ \/ /\ Fine /\ Show(<<"bubble", k>>, Answer(k))
        /\ bubble' = [bubble EXCEPT ![k].end = "accepted"]
     \/ Fault /\ bubble' = [bubble EXCEPT ![k].end = "refused"] /\ UNCHANGED shown
  /\ UNCHANGED <<Cards, files>>

\* mutant of WriteSettled: the delete does not wait for the write
NoWait(k) == TRUE
\* cotPersistWriteSettled; the write is assumed to settle within the grace.
WriteSettled(k) == bubble[k].write = "settled"

\* deleteCotFileIfMatches reads the file, and then removes it.
ReadCot(k) ==
  /\ bubble[k].end = "accepted" /\ WriteSettled(k)
  /\ bubble' = [bubble EXCEPT ![k].end =
       IF cotFile # None /\ cotFile.turn = k THEN "mine" ELSE "gone"]
  /\ UNCHANGED <<Cards, shown, files, budget>>

\* deleteCotFile; a failure is only logged.
DropCot(k) ==
  /\ bubble[k].end = "mine"
  /\ \/ Fine /\ PutCot(None) /\ bubble' = [bubble EXCEPT ![k].end = "gone"]
     \/ Fault /\ UNCHANGED files /\ bubble' = [bubble EXCEPT ![k].end = "kept"]
  /\ UNCHANGED <<Cards, shown>>

-----------------------------------------------------------------------------
(* A crash and the next boot, which looks at every ledger once before the  *)
(* bridge takes messages.                                                  *)

Up == at # "down"

Crash ==
  /\ Up /\ budget.crashes > 0 /\ budget' = [budget EXCEPT !.crashes = @ - 1]
  /\ at' = "down" /\ h' = NoHandles /\ lane' = "done" /\ salvage' = {}
  /\ kitRec' = [k \in Turns |-> NoRecord]
  /\ bubble' = [k \in Turns |-> [NoBubble EXCEPT !.at = "lost"]]
  /\ child' \in {{}, child}
  /\ UNCHANGED <<n, shown, told, settled, files, state, strays>>

ChildDies(k) ==
  /\ k \in child /\ (at = "open" => k # n) /\ child' = child \ {k}
  /\ UNCHANGED <<at, n, h, lane, kitRec, salvage, bubble, shown, told, settled,
                 files, state, strays, budget>>

\* The boot leaves a directory alone that was touched in the last minute; the
\* legacy and CardKit ledgers also wait for a state.json.
Boot ==
  /\ at = "down" /\ at' \in {"idle"} \cup (IF child # {} THEN {} ELSE {"cot"})
  /\ UNCHANGED <<n, h, lane, kitRec, salvage, bubble, shown, told, settled, files,
                 state, child, strays, budget>>

Booting == <<n, h, lane, kitRec, salvage, bubble, settled, state, child, strays>>

\* mutant of Tried: a failed attempt gives the ledger up
GivenUp(rec) == None
\* One more attempt on record, or none left.
Tried(rec) == IF rec.retry + 1 > RetryCap THEN None ELSE [rec EXCEPT !.retry = @ + 1]

BootCot ==
  /\ at = "cot"
  /\ IF cotFile = None THEN at' = "kitBoot" /\ Fine /\ UNCHANGED shown
     ELSE \/ Fine /\ Show(<<"bubble", cotFile.turn>>, Failed) /\ at' = "cotDrop"
          \/ Fault /\ at' = "cotBump" /\ UNCHANGED shown
  /\ UNCHANGED <<Booting, told, files>>

BootCotDrop ==
  /\ at = "cotDrop" /\ at' = "kitBoot"
  /\ \/ Fine /\ PutCot(None)
     \/ Fault /\ UNCHANGED files
  /\ UNCHANGED <<Booting, shown, told>>

\* The attempt is put on record once its platform call has failed; a failure to
\* write, or to delete a ledger that is given up, is only logged.
BootBump ==
  /\ \/ /\ at = "cotBump" /\ at' = "kitBoot"
        /\ (Fine /\ PutCot(Tried(cotFile))) \/ (Fault /\ UNCHANGED files)
     \/ /\ at = "kitBump" /\ at' = "cardBoot"
        /\ (Fine /\ PutKit(Tried(kitFile))) \/ (Fault /\ UNCHANGED files)
     \/ /\ at = "cardBump" /\ at' = "idle"
        /\ (Fine /\ PutCard(Tried(cardFile))) \/ (Fault /\ UNCHANGED files)
  /\ UNCHANGED <<Booting, shown, told>>

\* mutant of Fresh: whatever state.json says is taken for this turn's
AnyState(rec) == TRUE
Fresh(rec) == state.count > rec.since
Says(rec) == IF Fresh(rec) THEN Answer(state.turn) ELSE Cut

KitPending == kitFile # None /\ kitFile.status = "streaming" /\ state.count > 0

KitFailed == IF kitFile.retry + 1 > RetryCap THEN "kitCap" ELSE "kitBump"
KitEnds(status, retry) ==
  PutKit([turn |-> kitFile.turn, since |-> kitFile.since, status |-> status, retry |-> retry])

BootKit ==
  /\ at = "kitBoot"
  /\ IF ~KitPending THEN at' = "cardBoot" /\ Fine /\ UNCHANGED shown
     ELSE \/ Fine /\ Show(<<"kit", kitFile.turn>>, Says(kitFile)) /\ at' = "kitBootMark"
          \/ Fault /\ at' = KitFailed /\ UNCHANGED shown
  /\ UNCHANGED <<Booting, told, files>>

BootKitMark ==
  /\ at = "kitBootMark"
  /\ \/ Fine /\ KitEnds("finalized", kitFile.retry) /\ at' = "kitBootDrop"
     \/ Fault /\ at' = KitFailed /\ UNCHANGED files
  /\ UNCHANGED <<Booting, shown, told>>

BootKitDrop ==
  /\ at = "kitBootDrop" /\ at' = "cardBoot"
  /\ \/ Fine /\ PutKit(None)
     \/ Fault /\ UNCHANGED files
  /\ UNCHANGED <<Booting, shown, told>>

\* Past the cap: a new card is started and finalized, or else a post is sent.
\* When neither works the ledger stays.
CapCard ==
  /\ \/ at = "kitCap" /\ Fine /\ at' = "capFinal" /\ UNCHANGED told
     \/ at = "capFinal" /\ Fine /\ at' = "capMark" /\ told' = told \cup {kitFile.turn}
     \/ at \in {"kitCap", "capFinal"} /\ Fault /\ at' = "capPost" /\ UNCHANGED told
  /\ UNCHANGED <<Booting, shown, files>>

CapPost ==
  /\ at = "capPost"
  /\ \/ Fine /\ at' = "postMark" /\ told' = told \cup {kitFile.turn}
     \/ Fault /\ at' = "cardBoot" /\ UNCHANGED told
  /\ UNCHANGED <<Booting, shown, files>>

\* A card whose mark cannot be written is followed by a post.
CapMark ==
  /\ at \in {"capMark", "postMark"}
  /\ \/ Fine /\ at' = "cardBoot" /\ KitEnds("fallback_visible", kitFile.retry + 1)
     \/ Fault /\ at' = (IF at = "capMark" THEN "capPost" ELSE "cardBoot") /\ UNCHANGED files
  /\ UNCHANGED <<Booting, shown, told>>

BootCard ==
  /\ at = "cardBoot"
  /\ IF cardFile = None \/ state.count = 0 THEN at' = "idle" /\ Fine /\ UNCHANGED shown
     ELSE \/ Fine /\ Show(<<cardFile.what, cardFile.turn>>, Says(cardFile))
             /\ at' = "cardBootDrop"
          \/ Fault /\ at' = "cardBump" /\ UNCHANGED shown
  /\ UNCHANGED <<Booting, told, files>>

BootCardDrop ==
  /\ at = "cardBootDrop" /\ at' = "idle"
  /\ \/ Fine /\ PutCard(None)
     \/ Fault /\ UNCHANGED files
  /\ UNCHANGED <<Booting, shown, told>>

-----------------------------------------------------------------------------
Next ==
  \/ \E kit \in BOOLEAN : StartTurn(kit)
  \/ OpenCard \/ SayNoCard \/ OpenKit \/ RecordKit \/ StreamKit \/ RecordCard
  \/ EndRun \/ Throw
  \/ FinalKit \/ MarkKit \/ LateStart \/ LateRecord \/ AgainFinal \/ AgainMark
  \/ AgainPost \/ SaidMark \/ LatePost \/ FinalCard \/ DropCard \/ DropKit \/ Handled
  \/ Release \/ FailKit \/ FailStart \/ FailCard \/ FailPost
  \/ CreateBubble
  \/ \E k \in Turns : \/ LateCommit(k) \/ BubbleMade(k) \/ WriteCot(k)
                      \/ CompleteBubble(k) \/ ReadCot(k) \/ DropCot(k)
                      \/ WriteState(k) \/ ChildDies(k)
  \/ Crash \/ Boot \/ BootCot \/ BootCotDrop \/ BootBump
  \/ BootKit \/ BootKitMark \/ BootKitDrop \/ CapCard \/ CapPost \/ CapMark
  \/ BootCard \/ BootCardDrop

Spec == Init /\ [][Next]_vars

-----------------------------------------------------------------------------
(* What must hold.                                                         *)

Answered(k) == \E what \in {"card", "late", "kit"} : shown[<<what, k>>].is \notin {"absent", "open"}
Ledger(f) == IF f = "kit" THEN kitFile ELSE cardFile
CardOf(f) == IF f = "kit" THEN <<"kit", kitFile.turn>> ELSE <<cardFile.what, cardFile.turn>>
Unsettled(f) == Ledger(f) # None /\ (f = "kit" => kitFile.status = "streaming")

\* A ledger that names a card still spinning is let go only when the user was
\* told another way, the turn's message was released for another run, the
\* retries are used up, or a later turn has taken the slot over (every delete
\* of card.json and cardkit.json, and the retries of reconcile.ts).
LedgerKept == [][
  \A f \in {"card", "kit"} :
    Unsettled(f) /\ shown[CardOf(f)] = Open /\ ~Unsettled(f)' =>
      LET k == Ledger(f).turn IN
      \/ Answered(k) \/ k \in told' \/ settled[k] = "released" \/ k < n
      \/ f = "card" /\ cardFile.retry = RetryCap]_vars

Quiet == at = "idle" /\ \A k \in Turns :
  /\ bubble[k].at # "creating" /\ bubble[k].write # "going"
  /\ bubble[k].end \notin {"accepted", "mine"}

\* When nothing is under way cot.json names no bubble this process has
\* completed, unless the file could not be removed (deleteCotFile only logs it):
\* the next boot would mark a finished turn as failed ("write-before-DELETE").
NoStaleLedger ==
  Quiet /\ cotFile # None => bubble[cotFile.turn].end # "gone"

\* A turn whose message is marked handled has shown its answer, or has told
\* the user another way, or left a ledger with which the next boot will, unless
\* more than four calls have failed: the ledger of each card, the final card,
\* the late card and the post may all fail, and handleOne only logs it.
UserTold ==
  (\A b \in Budgets : b.faults <= 4) =>
    \A k \in Turns : settled[k] = "handled" =>
      \/ Answered(k) \/ k \in told
      \/ \E f \in {"card", "kit"} : Unsettled(f) /\ Ledger(f).turn = k
      \/ k < n

\* A card never shows the answer of an earlier turn of its session, except when
\* that turn's agent has outlived a crash and written state.json, which is dated
\* but not signed, beside the later turn.
NoOldAnswer ==
  \A s \in Surfaces : shown[s].is = "answer" =>
    shown[s].of >= s[2] \/ shown[s].of \in strays

\* A CardKit ledger settled by the final card or by a visible fallback is not
\* reconciled again, even when a salvage call of its turn commits after it.
FallbackStays == [][
  kitFile # None /\ kitFile.status # "streaming" /\ kitFile' # None
    /\ kitFile'.turn = kitFile.turn => kitFile'.status # "streaming"]_vars
=============================================================================
