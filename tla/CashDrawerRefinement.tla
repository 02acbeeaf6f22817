------------------------ MODULE CashDrawerRefinement ------------------------
(* CashSession implements CashDrawer: a drawer holds the sum of the movements *)
(* of its session, and its counts are the expected amounts of the closures.   *)
(* And for each branch it implements NewestDrawer.                            *)
EXTENDS CashSession

Drawer == INSTANCE CashDrawer WITH
    Nowhere <- "NOWHERE",
    place <- [s \in Sessions |-> IF Present(s) THEN session[s].branch ELSE "NOWHERE"],
    open <- {s \in Sessions : IsOpen(s)},
    cash <- [s \in Sessions |-> ExpectedCash(s)],
    counted <- [s \in Sessions |-> [n \in DOMAIN closures[s] |-> closures[s][n].expected]]

\* The session the other apps get to see: lock_open_cash_session looks for an open one.
HasOpen(b) == \E s \in SessionsOf(b) : IsOpen(s)
IsNewest(s, b) == \A t \in SessionsOf(b) : session[t].date <= session[s].date
Current(b) == CHOOSE s \in SessionsOf(b) : IF HasOpen(b) THEN IsOpen(s) ELSE IsNewest(s, b)

BranchDrawer(b) == INSTANCE NewestDrawer WITH
    newest <- IF SessionsOf(b) = {} THEN 0 ELSE session[Current(b)].date,
    open <- HasOpen(b),
    expected <- IF SessionsOf(b) = {} THEN 0 ELSE ExpectedCash(Current(b))

\* Each branch has a drawer of its own, which is its newest session.
EachBranchHasADrawer ==
    /\ \A b \in Branches : BranchDrawer(b)!Init
    /\ [][\A b \in Branches : [BranchDrawer(b)!Next]_(BranchDrawer(b)!vars)]_vars

\* The services with their keys, locks and immutable rows show a caller nothing
\* but drawers, of which the other apps see the newest.
DrawerSpec == Drawer!Spec /\ EachBranchHasADrawer

=============================================================================
