------------------------------ MODULE StockCount ------------------------------
(***************************************************************************)
(* Complete stock counts of a branch (src/apps/inventory/services.py from  *)
(* start_stock_count on).  While a count is COUNTING or SUBMITTED nothing  *)
(* else posts to the stock of its branch; approval posts the differences   *)
(* between the counted quantities and the snapshot taken at the start, and *)
(* an approved count can be reversed once.  Every service locks the branch *)
(* row, then the session, so that a call is one action.                    *)
(*                                                                         *)
(* A nullable column is {} for NULL and {x} for x.  The revisions of a line *)
(* and the returns for recount are written and never read: they are left   *)
(* out, like the texts, of which only blank or not matters.                *)
(***************************************************************************)
EXTENDS Inventory

VARIABLES
    countLines,   \* the variants a count has a StockCountLine for
    snapshot,     \* their balances when the count started
    physical,     \* their counted quantities
    review,       \* the variance, explanation and cost columns of the lines
    countKeys,    \* StockCountPostingKey rows
    approvals,    \* StockCountApproval rows
    reversals     \* StockCountReversal rows

inventoryVars == <<active, stock, movements>>
worksheetVars == <<countBranch, countLines, snapshot>>
evidenceVars == <<countKeys, approvals, reversals>>
vars == <<inventoryVars, worksheetVars, evidenceVars, countStatus, physical, review, answers>>

AtMostOne(option) == \A x, y \in option : x = y
Optional(S) == {option \in SUBSET S : AtMostOne(option)}
The(option) == CHOOSE x \in option : TRUE

ReviewRow == [variance : SUBSET Int, explained : BOOLEAN,
              cost : SUBSET Nat, evidenced : BOOLEAN]
NotReviewed == [variance |-> {}, explained |-> FALSE, cost |-> {}, evidenced |-> FALSE]

Started(c) == countStatus[c] # "ABSENT"

TypeOK ==
    /\ InventoryTypeOK
    /\ countStatus \in [Counts -> ActiveCounts \cup {"ABSENT", "APPROVED", "CANCELLED"}]
    /\ countBranch \in [Counts -> Branches \cup {"NOWHERE"}]
    /\ \A c \in Counts : Started(c) => countBranch[c] \in Branches
    /\ countLines \in [Counts -> SUBSET Variants]
    /\ snapshot \in [Counts -> [Variants -> Balance]]
    /\ physical \in [Counts -> [Variants -> SUBSET Nat]]
    /\ review \in [Counts -> [Variants -> ReviewRow]]
    /\ \A c \in Counts, v \in Variants :
           /\ AtMostOne(physical[c][v])
           /\ AtMostOne(review[c][v].variance)
           /\ AtMostOne(review[c][v].cost)
    /\ countKeys \subseteq [key : CountKeys, op : {"START", "APPROVE", "REVERSE"}, count : Counts]
    /\ approvals \subseteq [count : Counts, key : CountKeys]
    /\ reversals \subseteq [count : Counts, key : CountKeys]

Init ==
    /\ InventoryInit
    /\ countStatus = [c \in Counts |-> "ABSENT"]
    /\ countBranch = [c \in Counts |-> "NOWHERE"]
    /\ countLines = [c \in Counts |-> {}]
    /\ snapshot = [c \in Counts |-> [v \in Variants |-> Nothing]]
    /\ physical = [c \in Counts |-> [v \in Variants |-> {}]]
    /\ review = [c \in Counts |-> [v \in Variants |-> NotReviewed]]
    /\ countKeys = {}
    /\ approvals = {}
    /\ reversals = {}

-----------------------------------------------------------------------------

ClaimedByStart(k) == \E row \in countKeys : row.key = k /\ row.op = "START"
Claimed(k) == \E row \in countKeys : row.key = k
Claim(k, op, c) == countKeys' = countKeys \cup {[key |-> k, op |-> op, count |-> c]}

SetStatus(c, status) == countStatus' = [countStatus EXCEPT ![c] = status]

\* The variants a new count has to cover.
ScopeOfActive(b) == active
Scope(b) == active \cup {v \in Variants : stock[b][v].quantity # 0}

\* The session is active and holds the freeze of its branch.
Holds(c) == Freezing(countBranch[c]) = {c}

Variance(c, v) == The(physical[c][v]) - snapshot[c][v].quantity
Exceptional(c, v) == The(review[c][v].variance) > 0 /\ snapshot[c][v].average = 0

\* What submission writes into the cost column of a line.
SnapshotCost(c, v) ==
    IF Variance(c, v) # 0 /\ (snapshot[c][v].average > 0 \/ Variance(c, v) < 0)
    THEN {snapshot[c][v].average} ELSE {}

ClearedExplanations(c) ==
    [review EXCEPT ![c] = [v \in Variants |->
        [variance |-> review[c][v].variance, explained |-> FALSE,
         cost |-> review[c][v].cost, evidenced |-> FALSE]]]
Cleared(c) == [review EXCEPT ![c] = [v \in Variants |-> NotReviewed]]

-----------------------------------------------------------------------------

\* The branch of the count is part of what a key is for.
ReplayStart(b, k) ==
    /\ \E row \in countKeys :
           /\ row.key = k /\ row.op = "START" /\ countBranch[row.count] = b
           /\ Answer("COUNT", k, "START", b, row.count)
    /\ UNCHANGED <<inventoryVars, worksheetVars, evidenceVars, countStatus, physical, review>>

CreateCount(b, k) ==
    /\ ~Claimed(k)
    /\ ~Frozen(b)
    /\ Scope(b) # {}
    /\ \E c \in Counts :
        /\ ~Started(c)
        /\ SetStatus(c, "COUNTING")
        /\ countBranch' = [countBranch EXCEPT ![c] = b]
        /\ countLines' = [countLines EXCEPT ![c] = Scope(b)]
        /\ snapshot' = [snapshot EXCEPT ![c] = stock[b]]
        /\ Claim(k, "START", c)
        /\ Answer("COUNT", k, "START", b, c)
    /\ UNCHANGED <<inventoryVars, approvals, reversals, physical, review>>

\* noted: the count method note is not blank
StartStockCount(a, b, noted, k) ==
    /\ a \in Managers
    /\ noted
    /\ \/ ReplayStart(b, k)
       \/ CreateCount(b, k)

\* Entering the quantity that is already there is no step.
RecordStockCountQuantity(a, c, v, quantity, reasoned) ==
    /\ CanUse(a, countBranch[c])
    /\ Holds(c)
    /\ countStatus[c] = "COUNTING"
    /\ v \in countLines[c]
    /\ physical[c][v] # {quantity}
    /\ physical[c][v] # {} => reasoned
    /\ physical' = [physical EXCEPT ![c] = [@ EXCEPT ![v] = {quantity}]]
    /\ review' = [review EXCEPT ![c] = [@ EXCEPT ![v] = NotReviewed]]
    /\ UNCHANGED <<inventoryVars, worksheetVars, evidenceVars, countStatus, answers>>

\* Submitting again is no step.
SubmitStockCount(a, c) ==
    /\ CanUse(a, countBranch[c])
    /\ Holds(c)
    /\ countStatus[c] = "COUNTING"
    /\ \A v \in countLines[c] : physical[c][v] # {}
    /\ review' = [review EXCEPT ![c] = [v \in Variants |->
           IF v \in countLines[c]
           THEN [variance |-> {Variance(c, v)}, explained |-> review[c][v].explained,
                 cost |-> SnapshotCost(c, v), evidenced |-> review[c][v].evidenced]
           ELSE review[c][v]]]
    /\ SetStatus(c, "SUBMITTED")
    /\ UNCHANGED <<inventoryVars, worksheetVars, evidenceVars, physical, answers>>

ReturnStockCountForRecount(a, c) ==
    /\ a \in Managers
    /\ Holds(c)
    /\ countStatus[c] = "SUBMITTED"
    /\ review' = Cleared(c)
    /\ SetStatus(c, "COUNTING")
    /\ UNCHANGED <<inventoryVars, worksheetVars, evidenceVars, physical, answers>>

CancelStockCount(a, c) ==
    /\ a \in Managers
    /\ Holds(c)
    /\ SetStatus(c, "CANCELLED")
    /\ UNCHANGED <<inventoryVars, worksheetVars, evidenceVars, physical, review, answers>>

\* cost: {} or the exceptional unit cost; evidenced: its note is not blank
RecordStockCountReviewEvidence(a, c, v, explained, cost, evidenced) ==
    LET variance == review[c][v].variance
    IN  /\ a \in Managers
        /\ Holds(c)
        /\ countStatus[c] = "SUBMITTED"
        /\ v \in countLines[c]
        /\ variance # {}
        /\ The(variance) # 0 => explained
        /\ IF Exceptional(c, v) THEN cost # {} /\ evidenced ELSE cost = {} /\ ~evidenced
        /\ review' = [review EXCEPT ![c] = [@ EXCEPT ![v] =
               [variance |-> variance, explained |-> explained, evidenced |-> evidenced,
                cost |-> IF Exceptional(c, v) THEN cost
                         ELSE IF The(variance) = 0 THEN {}
                         ELSE {snapshot[c][v].average}]]]
        /\ UNCHANGED <<inventoryVars, worksheetVars, evidenceVars, countStatus, physical,
                       answers>>

\* The lines that move stock, and the movements they make: of the type more
\* where more was counted than the snapshot says, else of the type less.
Differences(c) == {v \in countLines[c] : review[c][v].variance # {0}}
DifferenceLinesAtAverage(c, more, less) ==
    [v \in Differences(c) |->
        LET variance == The(review[c][v].variance)
            average == stock[countBranch[c]][v].average
        IN  IF variance > 0 THEN Line(more, variance, average)
                            ELSE Line(less, -variance, average)]
DifferenceLines(c, more, less) ==
    [v \in Differences(c) |->
        LET variance == The(review[c][v].variance)
        IN  IF variance > 0 THEN Line(more, variance, The(review[c][v].cost))
                            ELSE Line(less, -variance, The(review[c][v].cost))]

\* What approval asks of a line whose variance is not zero.
Reviewed(c, v) ==
    /\ review[c][v].explained
    /\ review[c][v].cost # {}
    /\ IF Exceptional(c, v) THEN review[c][v].evidenced
                            ELSE review[c][v].cost = {snapshot[c][v].average}

ReplayApproval(c, k) ==
    /\ [count |-> c, key |-> k] \in approvals
    /\ Answer("COUNT", k, "APPROVE", countBranch[c], c)
    /\ UNCHANGED <<inventoryVars, worksheetVars, evidenceVars, countStatus, physical, review>>

CreateApproval(c, k) ==
    LET b == countBranch[c]
    IN  /\ ~Claimed(k)
        /\ Holds(c)
        /\ countStatus[c] = "SUBMITTED"
        /\ \A v \in countLines[c] :
               /\ physical[c][v] # {}
               /\ review[c][v].variance = {Variance(c, v)}
               /\ v \in Differences(c) => Reviewed(c, v)
               /\ stock[b][v] = snapshot[c][v]
        /\ Post(b, c, DifferenceLines(c, "STOCK_COUNT_ADJUSTMENT_IN",
                                         "STOCK_COUNT_ADJUSTMENT_OUT"))
        /\ approvals' = approvals \cup {[count |-> c, key |-> k]}
        /\ Claim(k, "APPROVE", c)
        /\ SetStatus(c, "APPROVED")
        /\ Answer("COUNT", k, "APPROVE", b, c)
        /\ UNCHANGED <<active, worksheetVars, reversals, physical, review>>

ApproveStockCount(a, c, k) ==
    /\ a \in Managers
    /\ Started(c)
    /\ \/ ReplayApproval(c, k)
       \/ CreateApproval(c, k)

ReplayReversal(c, k) ==
    /\ [count |-> c, key |-> k] \in reversals
    /\ Answer("COUNT", k, "REVERSE", countBranch[c], c)
    /\ UNCHANGED <<inventoryVars, worksheetVars, evidenceVars, countStatus, physical, review>>

CreateReversal(c, k) ==
    LET b == countBranch[c]
    IN  /\ ~Claimed(k)
        /\ \A r \in reversals : r.count # c
        /\ \A v \in Differences(c) : review[c][v].variance # {} /\ review[c][v].cost # {}
        /\ Post(b, c, DifferenceLines(c, "STOCK_COUNT_REVERSAL_OUT",
                                         "STOCK_COUNT_REVERSAL_IN"))
        /\ reversals' = reversals \cup {[count |-> c, key |-> k]}
        /\ Claim(k, "REVERSE", c)
        /\ Answer("COUNT", k, "REVERSE", b, c)
        /\ UNCHANGED <<active, worksheetVars, approvals, countStatus, physical, review>>

\* A frozen branch refuses even to answer a key that has already reversed.
ReverseStockCount(a, c, k) ==
    /\ a \in Managers
    /\ \E approval \in approvals : approval.count = c
    /\ ~Frozen(countBranch[c])
    /\ \/ ReplayReversal(c, k)
       \/ CreateReversal(c, k)

Next ==
    \/ InventoryNext /\ UNCHANGED <<worksheetVars, evidenceVars, countStatus, physical, review>>
    \/ \E a \in Actors, b \in Branches, noted \in BOOLEAN, k \in CountKeys :
           StartStockCount(a, b, noted, k)
    \/ \E a \in Actors, c \in Counts, v \in Variants, quantity \in 0 .. MaxQuantity,
          reasoned \in BOOLEAN :
           RecordStockCountQuantity(a, c, v, quantity, reasoned)
    \/ \E a \in Actors, c \in Counts :
        \/ SubmitStockCount(a, c)
        \/ ReturnStockCountForRecount(a, c)
        \/ CancelStockCount(a, c)
    \/ \E a \in Actors, c \in Counts, v \in Variants, explained \in BOOLEAN,
          cost \in Optional(Costs), evidenced \in BOOLEAN :
           RecordStockCountReviewEvidence(a, c, v, explained, cost, evidenced)
    \/ \E a \in Actors, c \in Counts, k \in CountKeys :
        \/ ApproveStockCount(a, c, k)
        \/ ReverseStockCount(a, c, k)

Spec == Init /\ [][Next]_vars

-----------------------------------------------------------------------------

\* Two people starting a count of a branch leave one active count.
OneActiveCountPerBranch ==
    \A c, d \in Counts :
        /\ {countStatus[c], countStatus[d]} \subseteq ActiveCounts
        /\ countBranch[c] = countBranch[d]
        => c = d

\* The freeze works: from the start of a count to its end the stock of the
\* branch is what the count's snapshot says, so that approval never meets
\* "Inventory changed after the stock-count snapshot", and what has no line
\* has no stock.
FrozenStockIsSnapshot ==
    \A c \in Counts : countStatus[c] \in ActiveCounts =>
        \A v \in Variants :
            /\ stock[countBranch[c]][v] = snapshot[c][v]
            /\ v \notin countLines[c] => snapshot[c][v].quantity = 0

\* Together: one count at a time freezes a branch, and its snapshot stays true.
FreezeSound == OneActiveCountPerBranch /\ FrozenStockIsSnapshot

\* What the reviewer sees is what was counted, through every recount: the
\* variances of a submitted or approved count are those of its quantities.
ReviewMatchesCount ==
    \A c \in Counts : \A v \in countLines[c] :
        /\ countStatus[c] \in {"SUBMITTED", "APPROVED"} =>
               physical[c][v] # {} /\ review[c][v].variance = {Variance(c, v)}
        /\ countStatus[c] = "COUNTING" => review[c][v] = NotReviewed

\* Approval leaves exactly the counted quantities on the shelves of the branch.
ApprovalMakesStockPhysical ==
    [][\A c \in Counts : countStatus[c] # "APPROVED" /\ countStatus'[c] = "APPROVED" =>
           \A v \in Variants :
               stock'[countBranch[c]][v].quantity =
                   IF v \in countLines[c] THEN The(physical[c][v]) ELSE 0]_vars

\* The movements of a count and of its reversal cancel, in quantity and value,
\* and without a reversal they add up to the counted variance.
ReversalCancelsCount ==
    \A c \in Counts, v \in Variants :
        LET rows == {m \in movements : m.source = c /\ m.variant = v}
            reversed == \E r \in reversals : r.count = c
        IN  /\ reversed => TotalQuantity(rows) = 0 /\ TotalValue(rows) = 0
            /\ ~reversed => TotalQuantity(rows) =
                   IF countStatus[c] = "APPROVED" /\ v \in countLines[c]
                   THEN Variance(c, v) ELSE 0

\* Keyed calls are exactly-once: a key answers with the same opening,
\* adjustment, count, approval or reversal whenever it is sent again.
KeyAnswersOnce ==
    \A x, y \in answers : x.table = y.table /\ x.key = y.key => x = y

\* The exact-cost path "fails closed if quantity or inventory value would become
\* negative" and otherwise "a new full count can reconcile the branch"
\* (docs/features/stage-4c-stock-count-reconciliation.md:191 and :468): approval
\* refuses no line of a completely reviewed count that leaves neither negative.
ReviewedCountCanReconcile ==
    \A c \in Counts :
        /\ countStatus[c] = "SUBMITTED"
        /\ \A v \in Differences(c) : Reviewed(c, v)
        => \A v \in Differences(c) :
               LET line == DifferenceLines(c, "STOCK_COUNT_ADJUSTMENT_IN",
                                              "STOCK_COUNT_ADJUSTMENT_OUT")[v]
                   x == stock[countBranch[c]][v]
               IN  \/ Fits(x, line)
                   \/ x.quantity + QuantityDelta(line) < 0
                   \/ x.value + ValueDelta(x, line) < 0

=============================================================================
