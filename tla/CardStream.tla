------------------------------ MODULE CardStream ------------------------------
(***************************************************************************)
(* The streaming card of one turn (LiveCardKitProgressHandle in            *)
(* src/src/bridge/cardkitProgress.ts): the answer, the status line in the  *)
(* footer and the reasoning panel are patched one call at a time, each     *)
(* with the newest text, until finalize() rebuilds the card.               *)
(*                                                                         *)
(* A text is a number, 0 is none (for the footer: what the card was made   *)
(* with).  One action is an event, a timer, the start of a queued node or  *)
(* the end of a call.  Operators marked "mutant" are plausible bugs of the *)
(* definition below them.                                                  *)
(***************************************************************************)
EXTENDS Integers, Sequences

CONSTANTS
  MaxText,     \* bound on the texts of each buffer
  MaxFailures  \* bound on failing calls

Channels == {"answer", "status", "cot"}
Buffers  == Channels \cup {"progress"}

ASSUME StreamAssumption == MaxText \in [Buffers -> Nat] /\ MaxFailures \in Nat

VARIABLES
  asked,     \* answerBuffer, progressBuffer, statusText, cotBuffer
  known,     \* lastCommittedAnswer, -Status, -Cot: what the card is known to show
  made,      \* answerElementCreated, cotPanelCreated
  queued,    \* answerQueued, statusQueued, cotQueued
  chain,     \* nodes of inFlight that have not started
  node,      \* the node that waits for a call
  timers,    \* pendingPatch, cotPendingPatch
  eager,     \* immediatePatchStarted
  closed,
  fin,       \* the calls of finalize(): the turn's, and the failure path's
  card,      \* what the platform shows of each channel, 0 without an element
  rebuilt,   \* the finalize() whose card the platform shows
  missed,    \* channels whose newest text was lost with a call, or overtaken
  failures

streamVars == <<asked, known, made, queued, chain, node, timers, eager, closed,
                fin, card, rebuilt, missed, failures>>

Texts(b) == 0..MaxText[b]
Unknown  == -1
Fallback == -2      \* the footer of a card whose rebuild failed; below: final texts
Finals   == {1, 2}

Idle == [ch |-> "none", op |-> "none", text |-> 0]
NotFinal == [pc |-> "no", text |-> 0, returned |-> FALSE]

StreamInit ==
  /\ asked = [b \in Buffers |-> 0] /\ known = [ch \in Channels |-> 0]
  /\ made = {"status"} /\ queued = {} /\ chain = << >> /\ node = Idle
  /\ timers = {} /\ eager = FALSE /\ closed = FALSE
  /\ fin = [i \in Finals |-> NotFinal]
  /\ card = [ch \in Channels |-> 0] /\ rebuilt = 0 /\ missed = {} /\ failures = 0

-----------------------------------------------------------------------------
(* Updates.                                                                *)

\* visibleText for the answer.
Newest(ch, texts) ==
  IF ch = "answer" /\ texts["answer"] = 0 THEN texts["progress"] ELSE texts[ch]

\* patchProgress, cotPatch: a node, unless the card shows the text already or
\* a waiting node will read it.
Patch(ch, texts, q, c) ==
  LET due == Newest(ch, texts) \notin {0, known[ch]} /\ ch \notin q IN
  /\ queued' = IF due THEN q \cup {ch} ELSE q
  /\ chain' = IF due THEN Append(c, ch) ELSE c

\* The text the card shows comes back while another one is on its way.
Overtaken(ch, texts) ==
  node.ch = ch /\ Newest(ch, texts) = known[ch] /\ node.text # known[ch]

\* handle: answer_delta, answer_snapshot, progress_snapshot.
Say(b, text) ==
  LET texts == [asked EXCEPT ![b] = text] IN
  /\ ~closed /\ (b = "progress" => text # asked[b])
  /\ asked' = texts /\ eager' = TRUE
  /\ IF eager \/ "answer" \in timers
     THEN timers' = timers \cup {"answer"} /\ UNCHANGED <<queued, chain>>
     ELSE Patch("answer", texts, queued, chain) /\ UNCHANGED timers
  /\ missed' = missed \ {"answer"}
  /\ UNCHANGED <<known, made, node, closed, fin, card, rebuilt, failures>>

\* patchStatus, and what the same event adds to the panel.
Status(text, more) ==
  /\ ~closed
  /\ asked' = [asked EXCEPT !["status"] = text, !["cot"] = @ + more]
  /\ timers' = IF more > 0 THEN timers \cup {"cot"} ELSE timers
  /\ queued' = queued \cup {"status"}
  /\ chain' = IF "status" \in queued THEN chain ELSE Append(chain, "status")
  /\ missed' = missed \ (IF more > 0 THEN {"status", "cot"} ELSE {"status"})
  /\ UNCHANGED <<known, made, node, eager, closed, fin, card, rebuilt, failures>>

\* tool_use, with a line in the panel if the card has one.
ToolUse(text) ==
  \E more \in {0, 1} : asked["cot"] + more \in Texts("cot") /\ Status(text, more)

\* markIdleWaiting, clearIdleWaiting
IdleMark(text) == Status(text, 0)

\* thinking_delta and cotAppend: the panel's text grows until its budget is spent.
Think ==
  /\ ~closed /\ asked' = [asked EXCEPT !["cot"] = @ + 1]
  /\ timers' = timers \cup {"cot"} /\ missed' = missed \ {"cot"}
  /\ UNCHANGED <<known, made, queued, chain, node, eager, closed, fin, card, rebuilt, failures>>

Fire(ch) ==
  /\ ch \in timers /\ timers' = timers \ {ch}
  /\ Patch(ch, asked, queued, chain)
  /\ missed' = IF Overtaken(ch, asked) THEN missed \cup {ch} ELSE missed
  /\ UNCHANGED <<asked, known, made, node, eager, closed, fin, card, rebuilt, failures>>

-----------------------------------------------------------------------------
(* The chain.                                                              *)

Call(ch, op, text) == [ch |-> ch, op |-> op, text |-> text]

\* mutant
StillQueued(ch) == queued

\* The flag goes down before the node reads its text, not after its call.
Unqueued(ch) == queued \ {ch}

\* commitAnswer, commitStatus, commitCot up to their first call.
StartNode ==
  /\ node = Idle /\ chain # << >> /\ ~closed
  /\ LET ch == Head(chain)  text == Newest(ch, asked) IN
     /\ chain' = Tail(chain) /\ queued' = Unqueued(ch)
     /\ node' = IF ch \notin made THEN Call(ch, "create", text)
                ELSE IF text = known[ch] THEN Idle ELSE Call(ch, "write", text)
     /\ made' = IF ch = "cot" THEN made \cup {ch} ELSE made
  /\ UNCHANGED <<asked, known, timers, eager, closed, fin, card, rebuilt, missed, failures>>

\* A node that has not started when the handle closes is skipped.
SkipNode ==
  /\ node = Idle /\ chain # << >> /\ closed /\ chain' = Tail(chain)
  /\ UNCHANGED <<asked, known, made, queued, node, timers, eager, closed, fin, card,
                 rebuilt, missed, failures>>

\* The platform: a new element goes before the footer, which a rebuilt card
\* does not have, and may be refused if it is there.
Accepts(call) ==
  IF call.op = "create" \/ call.ch = "status" THEN rebuilt = 0 ELSE card[call.ch] # 0

Landed(call, landed) ==
  /\ landed => Accepts(call)
  /\ card' = IF landed THEN [card EXCEPT ![call.ch] = call.text] ELSE card

\* A call fails before or after it landed (a lost answer, a cardkit.json that
\* could not be written); the platform refuses what it cannot place.
Outcome(call, ok, landed) ==
  /\ Landed(call, landed) /\ (ok => landed)
  /\ IF ok \/ ~Accepts(call) THEN UNCHANGED failures
     ELSE failures < MaxFailures /\ failures' = failures + 1

NodeSucceeds ==
  /\ node # Idle /\ Outcome(node, TRUE, TRUE)
  /\ known' = [known EXCEPT ![node.ch] = node.text]
  /\ made' = made \cup {node.ch}
  /\ LET text == Newest(node.ch, asked) IN
     node' = IF node.op = "create" /\ ~closed /\ text # node.text
             THEN Call(node.ch, "write", text) ELSE Idle
  /\ UNCHANGED <<asked, queued, chain, timers, eager, closed, fin, rebuilt, missed>>

NodeFails(landed) ==
  /\ node # Idle /\ Outcome(node, FALSE, landed)
  /\ known' = [known EXCEPT !["answer"] = IF node.ch = "answer" THEN 0 ELSE @,
                            !["status"] = IF node.ch = "status" THEN Unknown ELSE @]
  /\ node' = Idle /\ missed' = missed \cup {node.ch}
  /\ UNCHANGED <<asked, made, queued, chain, timers, eager, closed, fin, rebuilt>>

-----------------------------------------------------------------------------
(* finalize.                                                               *)

FinalTexts(i) == {Fallback - i} \cup ({Newest("answer", asked)} \ {0})

\* The failure path finalizes once more what the turn could not.
Finalize(i) ==
  /\ fin[i].pc = "no" /\ (i = 2 => fin[1].returned)
  /\ closed' = TRUE /\ timers' = {}
  /\ \E text \in FinalTexts(i) :
       fin' = [fin EXCEPT ![i] = [pc |-> "wait", text |-> text, returned |-> FALSE]]
  /\ UNCHANGED <<asked, known, made, queued, chain, node, eager, card, rebuilt, missed, failures>>

\* mutant
NoneToWaitFor == TRUE

\* await this.inFlight
ChainEnded == node = Idle /\ chain = << >>

Rebuild(i) ==
  /\ fin[i].pc = "wait" /\ ChainEnded /\ fin' = [fin EXCEPT ![i].pc = "card"]
  /\ UNCHANGED <<asked, known, made, queued, chain, node, timers, eager, closed, card,
                 rebuilt, missed, failures>>

Rebuilds(i, landed) ==
  IF landed
  THEN rebuilt' = i /\ card' = [card EXCEPT !["answer"] = fin[i].text, !["cot"] = asked["cot"]]
  ELSE UNCHANGED <<rebuilt, card>>

Streaming == <<asked, queued, chain, node, timers, eager, closed, missed>>

RebuildSucceeds(i) ==
  /\ fin[i].pc = "card" /\ Rebuilds(i, TRUE)
  /\ fin' = [fin EXCEPT ![i].pc = "settings"]
  /\ asked' = [asked EXCEPT !["answer"] = fin[i].text]
  /\ UNCHANGED <<known, made, queued, chain, node, timers, eager, closed, missed, failures>>

\* salvageAfterFinalFailure begins.
RebuildFails(i, landed) ==
  /\ fin[i].pc = "card" /\ Rebuilds(i, landed)
  /\ failures < MaxFailures /\ failures' = failures + 1
  /\ fin' = [fin EXCEPT ![i].pc = IF fin[i].text # known["answer"] THEN "text" ELSE "footer"]
  /\ UNCHANGED <<Streaming, known, made>>

\* Each step on its own, in order: the final text, the footer.
Salvage(i, ok, landed) ==
  LET call == IF fin[i].pc = "footer" THEN Call("status", "write", Fallback)
              ELSE Call("answer", IF "answer" \in made THEN "write" ELSE "create", fin[i].text)
  IN
  /\ fin[i].pc \in {"text", "footer"} /\ Outcome(call, ok, landed)
  /\ fin' = [fin EXCEPT ![i].pc = IF @ = "text" THEN "footer" ELSE "stop"]
  /\ known' = IF ok /\ fin[i].pc = "text" THEN [known EXCEPT !["answer"] = fin[i].text] ELSE known
  /\ made' = IF ok /\ fin[i].pc = "text" THEN made \cup {"answer"} ELSE made
  /\ UNCHANGED <<Streaming, rebuilt>>

\* The last call: the settings, which end the typing animation.
SettingsEnd(i, ok) ==
  /\ fin[i].pc \in {"settings", "stop"}
  /\ fin' = [fin EXCEPT ![i].pc = "over",
                        ![i].returned = @ \/ fin[i].pc = "stop" \/ ~ok]
  /\ IF ok THEN UNCHANGED failures ELSE failures < MaxFailures /\ failures' = failures + 1
  /\ UNCHANGED <<Streaming, known, made, card, rebuilt>>

\* finalize() rejects when the salvage has used up its time, and the calls go on.
BudgetEnds(i) ==
  /\ fin[i].pc \in {"text", "footer", "stop"} /\ ~fin[i].returned
  /\ fin' = [fin EXCEPT ![i].returned = TRUE]
  /\ UNCHANGED <<Streaming, known, made, card, rebuilt, failures>>

StreamNext ==
  \/ \E b \in {"answer", "progress"} : \E text \in Texts(b) \ {0} : Say(b, text)
  \/ \E text \in Texts("status") : ToolUse(text) \/ IdleMark(text)
  \/ asked["cot"] + 1 \in Texts("cot") /\ Think
  \/ \E ch \in {"answer", "cot"} : Fire(ch)
  \/ StartNode \/ SkipNode \/ NodeSucceeds
  \/ \E landed \in BOOLEAN : NodeFails(landed)
  \/ \E i \in Finals :
       \/ Finalize(i) \/ Rebuild(i) \/ RebuildSucceeds(i) \/ BudgetEnds(i)
       \/ \E landed \in BOOLEAN : RebuildFails(i, landed)
       \/ \E ok, landed \in BOOLEAN : Salvage(i, ok, landed)
       \/ \E ok \in BOOLEAN : SettingsEnd(i, ok)

StreamSpec == StreamInit /\ [][StreamNext]_streamVars

-----------------------------------------------------------------------------
StreamTypeOK ==
  /\ asked \in [Buffers -> Int] /\ known \in [Channels -> Int]
  /\ card \in [Channels -> Int] /\ made \subseteq Channels
  /\ queued \subseteq Channels /\ timers \subseteq {"answer", "cot"}
  /\ missed \subseteq Channels /\ rebuilt \in {0} \cup Finals

\* When no timer and no node is left, the card shows the newest text of every
\* channel, unless the call that carried it failed or the text came back while
\* another was on its way: latest-wins and skip-identical lose nothing more.
QuietIsCurrent ==
  ~closed /\ node = Idle /\ chain = << >> =>
    \A ch \in Channels \ (timers \cup missed) : card[ch] = Newest(ch, asked)

\* No late call of the stream or of the salvage changes a card that finalize
\* has rebuilt.  Excused is what follows a failure path's finalize: it does not
\* wait for the salvage of the turn's, which may put the answer back.
FinalStays ==
  [][rebuilt # 0 /\ rebuilt' = rebuilt /\ fin[2].pc = "no" => card' = card]_streamVars
===============================================================================
