---------------------------- MODULE MC_StallPatrol ----------------------------
(* Small instances of StallPatrol for TLC. *)
EXTENDS StallPatrol

CONSTANTS g1, g2

Budget(asks, claims, human, crashes, partner, date, clock) ==
  [asks |-> asks, claims |-> claims, human |-> human, crashes |-> crashes,
   peer |-> partner, due |-> date, clock |-> clock]

Watches ==
  {Budget(2, 0, 0, 1, 0, 0, 8), Budget(1, 0, 0, 0, 0, 3, 8),
   Budget(1, 0, 0, 0, 2, 0, 7), Budget(1, 1, 1, 0, 0, 0, 7)}
===============================================================================
