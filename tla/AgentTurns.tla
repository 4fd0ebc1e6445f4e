------------------------------ MODULE AgentTurns ------------------------------
(***************************************************************************)
(* What every agent runner promises the bridge about the turns it is given *)
(* (RunHandle and AgentRunner in src/src/agent/runner.ts), whatever        *)
(* processes it keeps: done settles once and for good, a cancelled turn    *)
(* resolves and is never rejected ("a deliberate kill resolves done, it    *)
(* does not reject", codex/pool.ts:593), and a turn is executed a second   *)
(* time, as a one-shot, only while nobody cancelled it and it showed no    *)
(* output.                                                                 *)
(*                                                                         *)
(* The codex one-shot breaks the second promise: an error answer that the  *)
(* app-server sends after the kill still rejects done (codex/runner.ts:    *)
(* 1159, handed on at codex/pool.ts:524).  LateRefusals is TRUE for the    *)
(* runner that has this exception, and allows it to one-shots only.        *)
(***************************************************************************)
CONSTANTS
  Turns,
  LateRefusals   \* a cancelled one-shot may still reject

VARIABLE handle    \* the RunHandle of every turn

Handle ==
  [done : {"unborn", "pending", "resolved", "rejected"},
   cancelled : BOOLEAN,    \* kill(), abort or deadline, while pending
   output : BOOLEAN,       \* an event was pushed, while pending
   by : {"pool", "oneShot"}]   \* the process executing it, while pending

Unborn   == [done |-> "unborn", cancelled |-> FALSE, output |-> FALSE, by |-> "pool"]
Resolved == [Unborn EXCEPT !.done = "resolved"]
Rejected == [Unborn EXCEPT !.done = "rejected"]

Init == handle = [t \in Turns |-> Unborn]

Accept(t) ==
  /\ handle[t].done = "unborn"
  /\ handle'[t] \in {[Unborn EXCEPT !.done = "pending", !.by = b] : b \in {"pool", "oneShot"}}

Refuse(t) == handle[t].done = "unborn" /\ handle'[t] = Rejected

Cancel(t) ==
  /\ handle[t].done = "pending" /\ ~handle[t].cancelled
  /\ handle'[t] \in {[handle[t] EXCEPT !.cancelled = TRUE], Resolved}

Output(t) ==
  /\ handle[t].done = "pending"
  /\ handle'[t] = [handle[t] EXCEPT !.output = TRUE]

ExecuteAgain(t) ==
  /\ handle[t].done = "pending"
  /\ ~handle[t].cancelled /\ ~handle[t].output /\ handle[t].by = "pool"
  /\ handle'[t] = [handle[t] EXCEPT !.by = "oneShot"]

Resolve(t) == handle[t].done = "pending" /\ handle'[t] = Resolved

Reject(t) ==
  /\ handle[t].done = "pending"
  /\ handle[t].cancelled => LateRefusals /\ handle[t].by = "oneShot"
  /\ handle'[t] = Rejected

\* Several turns may step at once: shutdown() refuses and cancels many.
Next ==
  /\ handle' \in [Turns -> Handle]
  /\ \A t \in Turns :
       \/ Accept(t) \/ Refuse(t) \/ Cancel(t) \/ Output(t) \/ ExecuteAgain(t)
       \/ Resolve(t) \/ Reject(t)
       \/ handle'[t] = handle[t]

Spec == Init /\ [][Next]_handle
===============================================================================
