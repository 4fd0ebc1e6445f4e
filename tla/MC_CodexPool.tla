----------------------------- MODULE MC_CodexPool -----------------------------
(* Three turns of one topic, two with live input, or two of two topics and *)
(* a shutdown.                                                             *)
EXTENDS CodexPool, FiniteSets

CONSTANTS A, B

VARIABLE budget   \* what this behaviour may use

Budget(t, th, s, down) == [turns |-> t, threads |-> th, steers |-> s, shutdown |-> down]
Small == {Budget(3, {A}, 0, FALSE), Budget(2, {A}, 1, FALSE), Budget(2, {A, B}, 0, TRUE)}

BudgetInit == Init /\ budget \in Small
BudgetNext ==
  /\ Next /\ UNCHANGED budget
  /\ \A t \in Turns : /\ turn'[t].thread \in budget.threads \cup {None}
                      /\ t > budget.turns => turn'[t] = NoTurn
  /\ Cardinality({t \in Turns : steer'[t] # NoSteer}) <= budget.steers
  /\ budget.shutdown \/ shutdown' = "no"
BudgetSpec == BudgetInit /\ [][BudgetNext]_<<vars, budget>> /\ Fairness
=============================================================================
