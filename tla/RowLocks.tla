------------------------------ MODULE RowLocks ------------------------------
(***************************************************************************)
(* Who waits for whom.  The other modules take each service as one action  *)
(* because a row lock serialises it; this one opens the action up and asks *)
(* whether the locks themselves let every call come to an end.             *)
(*                                                                         *)
(* A service runs in one transaction and takes its row locks one after the *)
(* other with select_for_update.  Without "of" that locks the row and then *)
(* every row joined by select_related, in the order of the model's fields. *)
(* A row has a first-come queue, as PostgreSQL keeps one; all locks go at  *)
(* once at the end, which is a commit or, anywhere before it, the          *)
(* ValidationError that rolls the transaction back.                        *)
(*                                                                         *)
(* Abstracted: a sale and its return, a purchase and its return and an     *)
(* expense go by the name of one document; variants are locked in the      *)
(* order of their id and stand for one row; rows that are only locked      *)
(* under the row they belong to (lines, payments, balances, counts) are    *)
(* left out, and so are the key-share locks of foreign keys and the unique *)
(* indexes of the posting keys.                                            *)
(***************************************************************************)
EXTENDS Naturals, Sequences, FiniteSets, SequencesExt

CONSTANTS
    Callers,    \* requests served at the same time
    Branches,
    Documents,  \* of each branch
    Services    \* the services they call

VARIABLES
    call,       \* what each caller is running
    asked,      \* how many of its locks it has asked for
    queue       \* who holds a row (the head) and who waits for it

rlVars == <<call, asked, queue>>

\* A posting that moves stock ends with lock_inventory_posting_branch (the row of the
\* business) and _lock_variants.
CashOrder ==
    [open_cash_session         |-> <<"branch">>,
     post_manual_cash_movement |-> <<"drawer", "branch">>,
     close_cash_session        |-> <<"drawer", "branch">>,
     reopen_cash_session       |-> <<"drawer", "branch">>]
SalesOrder ==
    [save_sale_draft        |-> <<"sale">>,
     cancel_sale            |-> <<"sale", "branch">>,
     post_sale              |-> <<"sale", "branch", "variants", "products", "drawer", "business">>,
     save_sale_return_draft |-> <<"sale", "branch", "saleReturn">>,
     cancel_sale_return     |-> <<"saleReturn", "branch", "sale">>,
     post_sale_return       |-> <<"saleReturn", "branch", "sale", "variants", "drawer", "business">>,
     reverse_sale_return    |-> <<"saleReturn", "branch", "sale", "business", "variants">>]
ReturnBeforePurchase == <<"purchaseReturn", "branch", "purchase", "business", "variants">>
ReversalOrder == <<"purchase", "purchaseReturn", "branch", "business", "variants">>
PurchasingOrder ==
    [cancel_purchase            |-> <<"purchase">>,
     receive_purchase           |-> <<"purchase", "branch", "business", "variants">>,
     save_purchase_return_draft |-> <<"purchase", "branch", "supplier", "purchaseReturn">>,
     cancel_purchase_return     |-> <<"purchaseReturn">>,
     post_purchase_return       |->
         <<"purchaseReturn", "branch", "supplier", "purchase", "business", "variants">>,
     reverse_purchase_return    |-> ReversalOrder]
SettlementOrder ==
    [post_operating_expense |-> <<"expense", "branch", "drawer">>,
     post_supplier_payment  |-> <<"purchase", "branch", "supplier", "drawer">>,
     post_supplier_return_settlement |->
         <<"purchase", "branch", "supplier", "purchaseReturn", "drawer">>]
VariantsBeforeFreeze == <<"branch", "variants", "products", "business">>
CountOrder == <<"branch", "business", "variants", "products">>
InventoryOrder ==
    [start_stock_count         |-> CountOrder,
     approve_stock_count       |-> <<"branch", "business", "variants">>,
     post_inventory_adjustment |-> <<"branch", "business", "variants">>]

Apps == {CashOrder, SalesOrder, PurchasingOrder, SettlementOrder, InventoryOrder}
LockOrder == [s \in UNION {DOMAIN app : app \in Apps} |-> (CHOOSE app \in Apps : s \in DOMAIN app)[s]]

ASSUME ServicesAssumption == Services \subseteq DOMAIN LockOrder

Target == [service : Services, branch : Branches, document : Documents]
OfBusiness == {"business", "variants", "products", "supplier"}
OfBranch == {"branch", "drawer"}
Row(t, x) ==
    [table    |-> t,
     branch   |-> IF t \in OfBusiness THEN "every" ELSE x.branch,
     document |-> IF t \in OfBusiness \cup OfBranch THEN "every" ELSE x.document]
Rows == UNION {{Row(t, x) : t \in ToSet(LockOrder[x.service])} : x \in Target}

Idle == [service |-> "none"]
Needs(c) == LockOrder[call[c].service]
RowAt(c, i) == Row(Needs(c)[i], call[c])
Wanted(c) == RowAt(c, asked[c])
Waiting(c) == asked[c] > 0 /\ Head(queue[Wanted(c)]) # c
WaitsFor(c, d) == Waiting(c) /\ Head(queue[Wanted(c)]) = d

Join(c, q) == Append(q, c)
\* A transaction ends holding every row it has asked for.
Leave(c, q) == IF q # <<>> /\ Head(q) = c THEN Tail(q) ELSE q

RLInit ==
    /\ call = [c \in Callers |-> Idle]
    /\ asked = [c \in Callers |-> 0]
    /\ queue = [r \in Rows |-> <<>>]

Begin(c, x) ==
    /\ call[c] = Idle
    /\ call' = [call EXCEPT ![c] = x]
    /\ UNCHANGED <<asked, queue>>

\* Ask for the next row; the call sleeps while another transaction holds it.
Ask(c) ==
    /\ call[c] # Idle
    /\ asked[c] < Len(Needs(c))
    /\ ~Waiting(c)
    /\ asked' = [asked EXCEPT ![c] = @ + 1]
    /\ queue' = [queue EXCEPT ![RowAt(c, asked[c] + 1)] = Join(c, @)]
    /\ UNCHANGED call

Release(c) ==
    /\ call' = [call EXCEPT ![c] = Idle]
    /\ asked' = [asked EXCEPT ![c] = 0]
    /\ queue' = [r \in Rows |-> Leave(c, queue[r])]

Commit(c) ==
    /\ call[c] # Idle
    /\ asked[c] = Len(Needs(c))
    /\ ~Waiting(c)
    /\ Release(c)

\* A check fails: nothing is written and the locks go.
Refuse(c) ==
    /\ call[c] # Idle
    /\ asked[c] \in 1 .. Len(Needs(c))
    /\ ~Waiting(c)
    /\ Release(c)

RLNext ==
    \E c \in Callers :
        \/ \E x \in Target : Begin(c, x)
        \/ Ask(c)
        \/ Commit(c)
        \/ Refuse(c)

\* The server runs every request it has accepted; nobody has to send one.
Fairness == \A c \in Callers : WF_rlVars(Ask(c)) /\ WF_rlVars(Commit(c))
RLSpec == RLInit /\ [][RLNext]_rlVars /\ Fairness

-----------------------------------------------------------------------------
\* No calls wait for each other in a circle, which PostgreSQL would break by
\* killing one of them with an error that no service handles.
NoCircularWait ==
    \A D \in SUBSET Callers :
        D # {} => \E c \in D : \A d \in D : ~WaitsFor(c, d)

\* Every accepted request is answered, whatever else runs beside it.
EveryCallEnds == \A c \in Callers : call[c] # Idle ~> call[c] = Idle

=============================================================================
