----------------------------- MODULE OfflineSales -----------------------------
(***************************************************************************)
(* Sales drafted in a browser without a connection and synchronized to     *)
(* drafts of the server: src/static/js/offline-sales.js on the device,     *)
(* src/apps/offline/views.py and services.py on the server, and a network  *)
(* between them that delays, loses and reorders requests and answers.      *)
(*                                                                         *)
(* The queue of a device shows the drafts of one membership, the operator, *)
(* for one branch.  A draft never changes once it is saved, so that its    *)
(* local id, its idempotency key and the hash of its payload are one name. *)
(* The sale number, quantities and payment method are part of the content  *)
(* nobody looks at here; of the catalogue only whether what the draft saw  *)
(* (price and label, one value) is what the server sells now.              *)
(*                                                                         *)
(* A request is one transaction, but it reads the catalogue twice without  *)
(* a lock, so that it takes three steps; it may die between them, and is   *)
(* then rolled back.  Loading the page again opens it in another tab: the  *)
(* tabs share the queue, which is kept in the browser's database.          *)
(***************************************************************************)
EXTENDS Naturals, FiniteSets

CONSTANTS
    Drafts,        \* pool of local draft ids
    Prices,        \* what the catalogue may say of the drafted goods
    MaxAge,        \* MAX_OFFLINE_DRAFT_AGE
    MaxToday,      \* bound on the clock
    MaxCalls,      \* bound on the requests of a draft on their way
    MaxChanges     \* bound on the changes made by others

ASSUME OfflineAssumption ==
    /\ Prices # {} /\ MaxAge \in Nat /\ MaxToday \in Nat
    /\ MaxCalls \in Nat \ {0} /\ MaxChanges \in Nat

VARIABLES
    \* the device
    entry,      \* status of the drafts in the object store "drafts"
    draft,      \* their content
    copied,     \* copiedOfflineCreatedAt: {} or the date of a rejected draft
    batch,      \* what a running syncAll has still to send
    page,       \* catalogue and role the page was loaded with
    \* the network
    calls,      \* number of requests on their way, by draft
    replies,    \* answers on their way
    \* the server
    operator,   \* the drafting membership
    branchActive,
    catalog,    \* current price and label, and whether the variants are active
    today,
    working,    \* the request that holds the sync key of a draft
    evidence,   \* OfflineSaleSync rows, with their keys
    sales,      \* Sale rows created by synchronization, each with a number of its own
    changes

device == <<entry, draft, copied, batch, page>>
network == <<calls, replies>>
outside == <<operator, branchActive, catalog, today, changes>>
server == <<working, evidence, sales>>
vars == <<device, network, outside, server>>

Days == 0 .. MaxToday
Roles == {"CASHIER", "MANAGER"}     \* a role that cannot sell counts as not active
Decisions == {"synced", "needs_review", "rejected"}
Saved == {"synced", "needs_review"}

Content == [made : Days, seen : Prices, role : Roles]
NoCall == [step |-> "NONE"]
Request == [step : {"CLAIMED"}, by : {"operator", "manager"}] \cup
           [step : {"CHECKED"}, by : {"operator", "manager"}, conflict : BOOLEAN]

TypeOK ==
    /\ entry \in [Drafts -> {"none", "pending", "removed"} \cup Decisions]
    /\ draft \in [Drafts -> Content]
    /\ copied \in SUBSET Days
    /\ batch \in SUBSET Drafts
    /\ page \in [price : Prices, role : Roles]
    /\ calls \in [Drafts -> 0 .. MaxCalls]
    /\ replies \in SUBSET [draft : Drafts, status : Decisions]
    /\ operator \in [active : BOOLEAN, role : Roles, assigned : BOOLEAN]
    /\ branchActive \in BOOLEAN
    /\ catalog \in [price : Prices, active : BOOLEAN]
    /\ today \in Days
    /\ working \in [Drafts -> {NoCall} \cup Request]
    /\ evidence \in [Drafts -> {"none"} \cup Decisions]
    /\ sales \in SUBSET [number : Nat, draft : Drafts, price : Prices, day : Days]
    /\ changes \in 0 .. MaxChanges

Init ==
    /\ \E price \in Prices :
           /\ page = [price |-> price, role |-> "CASHIER"]
           /\ catalog = [price |-> price, active |-> TRUE]
           /\ draft = [d \in Drafts |-> [made |-> 0, seen |-> price, role |-> "CASHIER"]]
    /\ entry = [d \in Drafts |-> "none"]
    /\ copied = {}
    /\ batch = {}
    /\ calls = [d \in Drafts |-> 0]
    /\ replies = {}
    /\ operator = [active |-> TRUE, role |-> "CASHIER", assigned |-> TRUE]
    /\ branchActive = TRUE
    /\ today = 0
    /\ working = [d \in Drafts |-> NoCall]
    /\ evidence = [d \in Drafts |-> "none"]
    /\ sales = {}
    /\ changes = 0

-----------------------------------------------------------------------------
(* The device.                                                             *)

\* establishPrivateSession and loadCatalog: only a signed-in operator is answered.
LoadPage ==
    /\ operator.active
    /\ page' = [price |-> catalog.price, role |-> operator.role]
    /\ copied' = {}
    /\ UNCHANGED <<entry, draft, batch, network, outside, server>>

\* A new draft, dated by the clock of the device, which may be slow or fast; or the
\* copy of a rejected one, which keeps the date of the original.
SaveDraft(d) ==
    /\ entry[d] = "none"
    /\ \E made \in (IF copied = {} THEN Days ELSE copied) :
           draft' = [draft EXCEPT ![d] = [made |-> made, seen |-> page.price, role |-> page.role]]
    /\ entry' = [entry EXCEPT ![d] = "pending"]
    /\ copied' = {}
    /\ UNCHANGED <<batch, page, network, outside, server>>

CopyDraft(d) ==
    /\ entry[d] = "rejected"
    /\ copied' = {draft[d].made}
    /\ UNCHANGED <<entry, draft, batch, page, network, outside, server>>

DiscardDraft(d) ==
    /\ entry[d] \in {"pending", "rejected"}
    /\ entry' = [entry EXCEPT ![d] = "removed"]
    /\ UNCHANGED <<draft, copied, batch, page, network, outside, server>>

Acknowledge(d) ==
    /\ entry[d] \in Saved
    /\ entry' = [entry EXCEPT ![d] = "removed"]
    /\ UNCHANGED <<draft, copied, batch, page, network, outside, server>>

Ask(d) == calls[d] < MaxCalls /\ calls' = [calls EXCEPT ![d] = @ + 1]

SyncDraft(d) ==
    /\ entry[d] = "pending"
    /\ Ask(d)
    /\ UNCHANGED <<device, replies, outside, server>>

\* syncAll reads the queue once and then sends what it has read, draft by draft.
SyncAll ==
    /\ batch = {}
    /\ batch' = {d \in Drafts : entry[d] = "pending"}
    /\ UNCHANGED <<entry, draft, copied, page, network, outside, server>>
SyncListed(d) ==
    /\ d \in batch
    /\ batch' = batch \ {d}
    /\ Ask(d)
    /\ UNCHANGED <<entry, draft, copied, page, replies, outside, server>>

\* The answer is put into the store whatever has become of the draft since.
StoreAccepted(d, status) ==
    entry' = IF status = "rejected" THEN entry ELSE [entry EXCEPT ![d] = status]
Store(d, status) == entry' = [entry EXCEPT ![d] = status]
Hear(d, status) ==
    /\ [draft |-> d, status |-> status] \in replies
    /\ replies' = replies \ {[draft |-> d, status |-> status]}
    /\ Store(d, status)
    /\ UNCHANGED <<draft, copied, batch, page, calls, outside, server>>

-----------------------------------------------------------------------------
(* The network.  An answer that is not JSON (a permission page, a rate     *)
(* limit, a server error) is to the device what a lost answer is.          *)

LoseCall(d) ==
    /\ calls[d] > 0
    /\ calls' = [calls EXCEPT ![d] = @ - 1]
    /\ UNCHANGED <<device, replies, outside, server>>
LoseReply ==
    /\ \E reply \in replies : replies' = replies \ {reply}
    /\ UNCHANGED <<device, calls, outside, server>>

Answer(d, by, status) ==
    replies' = IF by = "operator" THEN replies \cup {[draft |-> d, status |-> status]}
                                  ELSE replies

-----------------------------------------------------------------------------
(* The server.                                                             *)

\* _authorized_branch
InBranch(member) == branchActive /\ (member.role = "MANAGER" \/ member.assigned)
DrafterPermitted == operator.active /\ InBranch(operator)
\* _offline_timestamp and _draft_expired, to the day: MAX_CLOCK_SKEW is less than one.
FromFuture(d) == draft[d].made > today
Expired(d) == today > draft[d].made + MaxAge
Conflict(d) == draft[d].seen # catalog.price \/ draft[d].role # operator.role
UndecidedUnlocked(d) == TRUE
Undecided(d) == evidence[d] = "none"

\* The checks before the key is claimed: what they refuse leaves no evidence, and a
\* draft from the future may come again when its day has.
Turned(d) ==
    /\ calls[d] > 0
    /\ calls' = [calls EXCEPT ![d] = @ - 1]
    /\ ~DrafterPermitted \/ FromFuture(d)
    /\ IF operator.active THEN Answer(d, "operator", "rejected") ELSE UNCHANGED replies
    /\ UNCHANGED <<device, outside, server>>

\* _claim_sync_key and the lock of its row: a second request for the draft waits
\* for the first, and is answered with what the first has decided.
Claim(d, by) ==
    /\ working[d] = NoCall
    /\ IF Undecided(d)
       THEN /\ working' = [working EXCEPT ![d] = [step |-> "CLAIMED", by |-> by]]
            /\ UNCHANGED replies
       ELSE /\ Answer(d, by, evidence[d])
            /\ UNCHANGED working
    /\ UNCHANGED <<device, outside, evidence, sales>>
Receive(d) ==
    /\ calls[d] > 0
    /\ calls' = [calls EXCEPT ![d] = @ - 1]
    /\ DrafterPermitted /\ ~FromFuture(d)
    /\ Claim(d, "operator")

\* A manager sends the draft of another operator: both identities are recorded.
Recover(d) ==
    /\ entry[d] # "none"
    /\ branchActive /\ ~FromFuture(d)
    /\ Claim(d, "manager")
    /\ UNCHANGED calls

Conclude(d, status) ==
    /\ evidence' = [evidence EXCEPT ![d] = status]
    /\ working' = [working EXCEPT ![d] = NoCall]
    /\ Answer(d, working[d].by, status)
\* save_sale_draft reads the variants again, and prices the lines as they are now.
CreateSale(d) ==
    sales' = sales \cup {[number |-> Cardinality(sales), draft |-> d,
                          price |-> catalog.price, day |-> draft[d].made]}
RejectWithoutSavepoint(d) == Conclude(d, "rejected") /\ CreateSale(d)
Reject(d) == Conclude(d, "rejected") /\ UNCHANGED sales

Acceptable(d) == DrafterPermitted /\ ~Expired(d) /\ catalog.active
Check(d) ==
    /\ working[d].step = "CLAIMED"
    /\ IF Acceptable(d)
       THEN /\ working' = [working EXCEPT ![d] = [step |-> "CHECKED", by |-> working[d].by,
                                                  conflict |-> Conflict(d)]]
            /\ UNCHANGED <<replies, evidence, sales>>
       ELSE Reject(d)
    /\ UNCHANGED <<device, calls, outside>>

Save(d) ==
    /\ working[d].step = "CHECKED"
    /\ IF catalog.active
       THEN /\ CreateSale(d)
            /\ Conclude(d, IF working[d].conflict THEN "needs_review" ELSE "synced")
       ELSE Reject(d)
    /\ UNCHANGED <<device, calls, outside>>

\* The process dies, or the database aborts the transaction: all is rolled back.
Die(d) ==
    /\ working[d] # NoCall
    /\ working' = [working EXCEPT ![d] = NoCall]
    /\ UNCHANGED <<device, network, outside, evidence, sales>>

-----------------------------------------------------------------------------
(* Others change the catalogue, the branch and the membership.             *)

Change ==
    /\ changes < MaxChanges
    /\ changes' = changes + 1
    /\ UNCHANGED <<device, network, server, today>>
ChangeCatalog ==
    /\ Change
    /\ \E price \in Prices, active \in BOOLEAN : catalog' = [price |-> price, active |-> active]
    /\ UNCHANGED <<operator, branchActive>>
ChangeMembership ==
    /\ Change
    /\ operator' \in [active : BOOLEAN, role : Roles, assigned : BOOLEAN]
    /\ UNCHANGED <<catalog, branchActive>>
ChangeBranch ==
    /\ Change
    /\ branchActive' = ~branchActive
    /\ UNCHANGED <<catalog, operator>>
NextDay ==
    /\ today < MaxToday
    /\ today' = today + 1
    /\ UNCHANGED <<device, network, server, operator, branchActive, catalog, changes>>

Next ==
    \/ LoadPage \/ SyncAll \/ LoseReply
    \/ \E d \in Drafts :
        \/ SaveDraft(d) \/ CopyDraft(d) \/ DiscardDraft(d) \/ Acknowledge(d)
        \/ SyncDraft(d) \/ SyncListed(d)
        \/ \E status \in Decisions : Hear(d, status)
        \/ LoseCall(d)
        \/ Turned(d) \/ Receive(d) \/ Recover(d) \/ Check(d) \/ Save(d) \/ Die(d)
    \/ ChangeCatalog \/ ChangeMembership \/ ChangeBranch \/ NextDay

Spec == Init /\ [][Next]_vars

\* The operator keeps pressing the button while a draft is pending, the network
\* does not lose everything, and not every request dies.
Fairness ==
    \A d \in Drafts :
        /\ WF_vars(SyncDraft(d))
        /\ SF_vars(Turned(d) \/ Receive(d))
        /\ SF_vars(Check(d)) /\ SF_vars(Save(d))
        /\ SF_vars(\E status \in Decisions : Hear(d, status))
FairSpec == Spec /\ Fairness

-----------------------------------------------------------------------------

\* Evidence and sale come into being together and once: however often a draft is
\* sent, by the operator or by a manager, and wherever a request dies, a draft has
\* one sale when its evidence says so and none otherwise.
SalesMatchEvidence ==
    \A d \in Drafts :
        Cardinality({s \in sales : s.draft = d}) = IF evidence[d] \in Saved THEN 1 ELSE 0

\* The server decides once about a draft, and what a device shows as synchronized
\* is a sale: sync_offline_sale and the queue of the page implement the delivery.
Delivery == INSTANCE DraftDelivery WITH
    outcome <- [d \in Drafts |-> IF \E s \in sales : s.draft = d THEN "sale"
                                 ELSE IF evidence[d] = "rejected" THEN "refused" ELSE "open"],
    reported <- {d \in Drafts : entry[d] \in Saved}
DeliverySpec == Delivery!Spec

\* A draft of an operator who may sell does not stay pending for ever.
PendingIsSettled ==
    \A d \in Drafts : entry[d] = "pending" ~> entry[d] # "pending" \/ ~operator.active

=============================================================================
