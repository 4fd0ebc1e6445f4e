-------------------------- MODULE MC_TurnSurfaces --------------------------
(* Two turns of one session with crashes and failing calls, with and       *)
(* without a reasoning bubble beside the cards; or the stream of one card. *)
EXTENDS TurnSurfaces, CardStream

Budget(t, c, f, b) == [turns |-> t, crashes |-> c, faults |-> f, bubbles |-> b]

CardsOrBubbles == {Budget(2, 2, 3, FALSE), Budget(1, 1, 4, FALSE), Budget(2, 1, 1, TRUE)}

\* A text that goes and comes back only in the answer.
FewTexts == [b \in Buffers |-> IF b \in {"answer", "cot"} THEN 2 ELSE 1]

VARIABLE part   \* what happens in this behaviour: turns or one stream

PartInit ==
  /\ Init /\ StreamInit /\ part \in {"turns", "stream"}
  /\ part = "stream" => budget = Budget(2, 2, 3, FALSE)
PartNext ==
  /\ UNCHANGED part
  /\ \/ part = "turns" /\ Next /\ UNCHANGED streamVars
     \/ part = "stream" /\ StreamNext /\ UNCHANGED vars
PartSpec == PartInit /\ [][PartNext]_<<vars, streamVars, part>>
=============================================================================
