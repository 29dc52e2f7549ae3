--------------------------- MODULE MCHealthScore ---------------------------
(***************************************************************************)
(* A user of HealthScore with or without income, savings, a goal (one with *)
(* a negative target among them), limits, a loan and a credit card that is *)
(* overdue.                                                                *)
(***************************************************************************)
EXTENDS HealthScore

\* Amounts in hundreds.
MCWealth == [income |-> {0, 1, 3}, earlier |-> {0, 2}, balance |-> {0, 4}, fixed |-> {0, 1},
             spent |-> {0, 1}]
MCGoals == {{}, {[target |-> 2, current |-> 1, months |-> 2]}, {[target |-> -2, current |-> 1, months |-> 1]}}
MCDebts == {[payment |-> 1, remaining |-> 2, limit |-> 0, overdue |-> 0],
            [payment |-> 0, remaining |-> 1, limit |-> 2, overdue |-> 12]}

=============================================================================
