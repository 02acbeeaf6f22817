------------------------------ MODULE CashDrawer ------------------------------
(***************************************************************************)
(* What a branch cash drawer promises, without keys, movements, closures   *)
(* and actors: money goes in and out only while its session is open, the   *)
(* drawer is never owed money, and every count is remembered with the      *)
(* amount the drawer should have held at that moment.  CashSession         *)
(* implements it (CashDrawerRefinement).                                   *)
(***************************************************************************)
EXTENDS Integers, Sequences

CONSTANTS Branches, Sessions, Nowhere

VARIABLES
    place,    \* the branch of a session, Nowhere before it is opened
    open,     \* the sessions that accept money
    cash,     \* what each session's drawer should hold
    counted   \* what it should have held at each of its counts

vars == <<place, open, cash, counted>>

Init ==
    /\ place = [s \in Sessions |-> Nowhere]
    /\ open = {}
    /\ cash = [s \in Sessions |-> 0]
    /\ counted = [s \in Sessions |-> <<>>]

NoneOpenAt(b) == \A s \in open : place[s] # b

Open(s, b) ==
    /\ place[s] = Nowhere
    /\ NoneOpenAt(b)
    /\ place' = [place EXCEPT ![s] = b]
    /\ open' = open \cup {s}
    /\ cash'[s] \in Nat
    /\ cash' = [cash EXCEPT ![s] = cash'[s]]
    /\ UNCHANGED counted

Move(s) ==
    /\ s \in open
    /\ cash'[s] \in Nat
    /\ cash' = [cash EXCEPT ![s] = cash'[s]]
    /\ UNCHANGED <<place, open, counted>>

Close(s) ==
    /\ s \in open
    /\ open' = open \ {s}
    /\ counted' = [counted EXCEPT ![s] = Append(@, cash[s])]
    /\ UNCHANGED <<place, cash>>

Reopen(s) ==
    /\ s \notin open
    /\ counted[s] # <<>>
    /\ NoneOpenAt(place[s])
    /\ open' = open \cup {s}
    /\ UNCHANGED <<place, cash, counted>>

Next ==
    \E s \in Sessions :
        \/ \E b \in Branches : Open(s, b)
        \/ Move(s)
        \/ Close(s)
        \/ Reopen(s)

Spec == Init /\ [][Next]_vars

=============================================================================
