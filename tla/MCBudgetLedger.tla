----------------------------- MODULE MCBudgetLedger ----------------------------
EXTENDS BudgetLedger

\* One token is the floor of every operation.
MCFloor == [o \in Ops |-> 1]

\* Enough for three admissions, for a fixed workflow of two specialists and a judge, and
\* for either half of an investigation: plan and resize, or a judge and its refinement.
MCMaxSlots == [v \in Variants |-> IF v = "DYNAMIC" THEN 5 ELSE 3]
================================================================================
