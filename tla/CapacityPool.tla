------------------------------ MODULE CapacityPool -----------------------------
(***************************************************************************)
(* What a budget promises of one resource, without slots, authorizations,    *)
(* leases or bundles: what has been spent and what is promised never exceed  *)
(* the cap together, what is spent stays spent, nothing new is promised once *)
(* the account is closed, and what was promised before may still be settled. *)
(* Module BudgetLedger implements this specification three times: for model  *)
(* calls, for tool calls and for tokens.                                     *)
(***************************************************************************)
EXTENDS Naturals

CONSTANTS Cap

VARIABLES
    spent,  \* charged for good
    held,   \* promised to work not yet charged
    open    \* whether the account takes on anything new

vars == <<spent, held, open>>

Init == spent = 0 /\ held = 0 /\ open = TRUE

\* A promise is made, or grows, only out of what is neither spent nor promised.
Promise ==
    /\ open
    /\ held' >= held
    /\ spent + held' <= Cap
    /\ UNCHANGED <<spent, open>>

\* A charge that was promised to nobody, taken out of what is free.
Draw ==
    /\ open
    /\ spent' >= spent
    /\ spent' + held <= Cap
    /\ UNCHANGED <<held, open>>

\* A promise is kept, in part or in full, or given back: nothing beyond it is spent.
Settle ==
    /\ spent' >= spent
    /\ held' <= held
    /\ spent' + held' <= spent + held
    /\ UNCHANGED open

Close ==
    /\ open
    /\ ~open'
    /\ UNCHANGED <<spent, held>>

Next == Promise \/ Draw \/ Settle \/ Close

Spec == Init /\ [][Next]_vars
================================================================================
