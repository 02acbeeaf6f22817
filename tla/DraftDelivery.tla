---------------------------- MODULE DraftDelivery ----------------------------
(***************************************************************************)
(* What offline sales promise (Decisions 9 and 10 of the stage 9a          *)
(* document, as src/apps/offline/services.py decides them): the server     *)
(* decides once about each draft, and a device that says a draft is        *)
(* synchronized says so of a draft that is a sale.                         *)
(***************************************************************************)
CONSTANT Drafts

VARIABLES
    outcome,    \* what the server has decided about each draft
    reported    \* the drafts a device shows as sales of the server

vars == <<outcome, reported>>

Init ==
    /\ outcome = [d \in Drafts |-> "open"]
    /\ reported = {}

Decide(d, decision) ==
    /\ outcome[d] = "open"
    /\ outcome' = [outcome EXCEPT ![d] = decision]
    /\ UNCHANGED reported

Report(d) ==
    /\ outcome[d] = "sale"
    /\ reported' = reported \cup {d}
    /\ UNCHANGED outcome

\* The operator acknowledges the sale, or the device shows another answer.
Forget(d) ==
    /\ reported' = reported \ {d}
    /\ UNCHANGED outcome

Next ==
    \E d \in Drafts :
        \/ \E decision \in {"sale", "refused"} : Decide(d, decision)
        \/ Report(d)
        \/ Forget(d)

Spec == Init /\ [][Next]_vars

=============================================================================
