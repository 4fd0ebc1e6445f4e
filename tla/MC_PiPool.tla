------------------------------ MODULE MC_PiPool ------------------------------
(* Three turns of one topic or of two, two under changing options with     *)
(* extensions at work, or two and a shutdown, on a pool of one process.    *)
EXTENDS PiPool

CONSTANTS A, B, X, Y

VARIABLE budget   \* what this behaviour may use

Budget(t, th, s, ext, down) ==
  [turns |-> t, threads |-> th, sigs |-> s, extensions |-> ext, shutdown |-> down]
Small == {Budget(3, {A}, {X}, FALSE, FALSE), Budget(2, {A}, {X, Y}, TRUE, FALSE),
          Budget(3, {A, B}, {X}, FALSE, FALSE), Budget(2, {A, B}, {X}, FALSE, TRUE)}

BudgetInit == Init /\ budget \in Small
BudgetNext ==
  /\ Next /\ UNCHANGED budget
  /\ \A t \in Turns : /\ turn'[t].thread \in budget.threads \cup {None}
                      /\ turn'[t].sig \in budget.sigs \cup {None}
                      /\ t > budget.turns => turn'[t] = NoTurn
  /\ budget.extensions \/ \A p \in Pids : proc'[p].run # Foreign /\ proc'[p].native # -p
  /\ budget.shutdown \/ shutdown' = "no"
BudgetSpec == BudgetInit /\ [][BudgetNext]_<<vars, budget>>
==============================================================================
