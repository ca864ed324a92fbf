----------------------------- MODULE SendBudget -----------------------------
(***************************************************************************)
(* What the access counter of a Bitwarden Send promises, with no handler,  *)
(* token, clock or storage in sight.  A send that is open carries a count  *)
(* and possibly a maximum.  Content leaves the server against an access    *)
(* that was charged to the count first, and a charge is only possible      *)
(* while the count is below the maximum in force at that very moment.      *)
(***************************************************************************)
EXTENDS Naturals

CONSTANTS
    Send,       \* send identifiers
    None        \* no row, or no maximum

VARIABLES
    count,      \* count[s]: access count of an open send, None when closed
    max,        \* max[s]: maximum access count, None when unlimited or closed
    charged,    \* charged[s]: accesses charged to s, over its whole history
    served      \* served[s]: contents released against a charge

budgetVars == <<count, max, charged, served>>

BudgetInit ==
    /\ count = [s \in Send |-> None]
    /\ max = [s \in Send |-> None]
    /\ charged = [s \in Send |-> 0]
    /\ served = [s \in Send |-> 0]

\* The maximum of s, and of no other send, takes a new value.
NewMax(s) ==
    /\ max'[s] \in Nat \cup {None}
    /\ max' = [max EXCEPT ![s] = max'[s]]

\* A send appears, with nothing charged to it yet.
Open(s) ==
    /\ count[s] = None
    /\ count' = [count EXCEPT ![s] = 0]
    /\ NewMax(s)
    /\ UNCHANGED <<charged, served>>

\* The owner, or a stale write, replaces the maximum; the count is not touched.
Reconfigure(s) ==
    /\ count[s] # None
    /\ NewMax(s)
    /\ UNCHANGED <<count, charged, served>>

Close(s) ==
    /\ count[s] # None
    /\ count' = [count EXCEPT ![s] = None]
    /\ max' = [max EXCEPT ![s] = None]
    /\ UNCHANGED <<charged, served>>

\* One access is charged, atomically with the comparison to the maximum.
Charge(s) ==
    /\ count[s] # None
    /\ max[s] # None => count[s] < max[s]
    /\ count' = [count EXCEPT ![s] = @ + 1]
    /\ charged' = [charged EXCEPT ![s] = @ + 1]
    /\ UNCHANGED <<max, served>>

\* Content leaves the server against a charge that no content has used up.
Release(s) ==
    /\ served[s] < charged[s]
    /\ served' = [served EXCEPT ![s] = @ + 1]
    /\ UNCHANGED <<count, max, charged>>

BudgetNext ==
    \E s \in Send :
        Open(s) \/ Reconfigure(s) \/ Close(s) \/ Charge(s) \/ Release(s)

BudgetSpec == BudgetInit /\ [][BudgetNext]_budgetVars
=============================================================================
