# Formal models of the Ife business platform

TLA+ modules, TLC model-checking configurations and TLAPS proofs for the Django
application under `src/`: a multi-tenant system for small shops with a
catalogue, moving-average inventory, purchasing, sales, cash sessions, supplier
settlement, stock counts, document capture, offline drafts, attendance and
public profiles.

Contents: [inventory](#1-inventory-of-the-system) ·
[modules](#2-modules-and-how-they-match-the-code) ·
[runs](#3-what-the-runs-check) · [bounds](#4-bounds-and-why-they-are-enough) ·
[fairness](#5-fairness-and-liveness) · [proofs](#6-proofs) ·
[disagreements](#7-disagreements-found) · [not modelled](#8-what-is-not-modelled) ·
[plan](#9-plan)

## 1. Inventory of the system

One process model holds everywhere: a view parses a form and calls one *service*
function (`apps/*/services.py`); the service runs in `transaction.atomic`, takes
row locks with `select_for_update`, validates, writes, and either commits or
raises `ValidationError` and writes nothing. Several web workers serve requests
against one PostgreSQL database, so services of different apps interleave, and
browsers send a form again after a lost answer. Rows that are evidence
(movements, receipts, reversals, closures, approvals) are never updated or
deleted: `save` and `delete` of their models refuse.

| Component | State | Operations | Interacts with | Hard behaviour | What makes it correct |
|---|---|---|---|---|---|
| Cash (`cash`) | sessions, signed movements, closures, reopenings, posting keys | open, record source movement, manual movement, close, reopen | sales, returns, expenses and settlements call `lock_open_cash_session` and `record_source_cash_movement` in their own transaction | two openings at once; a movement racing a close; reopening an older session; a resend after a reopening | one open session per branch, the latest; expected cash never negative; a closure equals the ledger; a closed ledger is frozen; a source and a key count once |
| Inventory postings (`inventory`) | balances (quantity, value, average), movements, stock operations | openings, adjustments, receipts, sales, returns, reversals | every posting service | rounding of the average, the last unit, order of postings | balance equals ledger, no value without stock, bounded drift |
| Stock counts (`inventory`) | sessions, lines with snapshot, variance and evidence, approvals, reversals, keys | start, record, submit, return for recount, review, cancel, approve, reverse | freezes every posting of the branch | posting between freeze and snapshot; recounts; a retry of an old key | frozen stock is the snapshot; a review is of the counted quantity; approval leaves what was counted; a reversal cancels it |
| Sales (`sales`) | sales, lines, payments, returns, refunds, reversals, keys | save, cancel and post a sale; save, cancel, post and reverse a return | inventory, cash, catalogue, receipts | drafts that are valid one by one; prices that change; full and partial returns | never more returned than sold; a full reversal stands alone; stock equals documents |
| Purchasing (`purchasing`) | purchases, receipts, returns, reversals, keys | create, approve, cancel, receive; save, cancel, post, reverse a return | inventory; asks settlement before cancelling or reversing | partial receipts, competing returns, cross-app checks | status equals receipts; never more returned than received |
| Supplier settlement (`expenses`) | payments, settlements, their reversals, keys | post and reverse each | purchasing, cash | totals derived from evidence others change; cash of an older session | nothing overpaid; a settlement never outlives its return; a drawer equals its evidence |
| Operating expenses (`expenses`) | expenses, payments, reversals | draft, edit, cancel, post, reverse | cash, documents | as settlement | an expense is paid once and undone in its own session |
| Row locks (all of the above) | held and awaited rows | `select_for_update`, commit, rollback | every posting service | circular waits | every request is answered |
| Documents (`documents`) | documents, files, transcriptions, lines, revisions; objects in a storage | capture, scan, transcribe, submit, return, confirm, post, replace, cancel, purge, reconcile | purchasing, expenses, inventory, file storage | a crash between file and row; a capture beside a reconciliation; cancel against confirm; replacement twice | an available document is whole; confirmed evidence keeps its source; unwanted bytes go; one document yields one live target |
| Offline sales (`offline`, `offline-sales.js`) | drafts in the browser, sync keys, syncs | save, copy, discard, synchronise, recover | sales, memberships, catalogue | lost and late answers, resends beside each other, stale catalogue and role | a draft is decided once, has a sale exactly when its evidence says so, and does not stay pending |
| Attendance | records, corrections | check in, check out, create, correct | memberships | shifts over midnight, double check-in | one open shift, one record a day |
| Public profiles (`public_profiles`) | profile, links, hours, verification requests and decisions, metrics | edit, publish, suspend, request, decide, revoke, renew, expire, count a visit | catalogue, receipts | an indicator that outlives its subject; visitors counting at once | only current facts are shown and a removal has a record; every visit is counted |
| Catalogue, Telebirr profiles | products, variants, image rows and files | edit, set and remove image or QR | sales, inventory | a file and a row in two stores | every shown file exists |
| Rate limit, accounts, performance, views | cache counters; users; none; none | — | — | expiring counters | see section 8 |

The hazards this list implies, each at its line, are in `PROJECT.json`.

## 2. Modules and how they match the code

| Module | Models | Extends |
|---|---|---|
| `CashDrawer` | abstract promise of the drawer of a session | |
| `NewestDrawer` | abstract promise of a branch to the other apps: its newest session, and no other | |
| `CashSession` | `cash/services.py` over `cash/models.py` | |
| `CashDrawerRefinement` | the mappings from sessions to drawers and from a branch to its newest | `CashSession`, instances of `CashDrawer` and `NewestDrawer` |
| `Valuation` | `_apply_inbound`, `_apply_outbound`, `_apply_outbound_at_cost` | |
| `Inventory` | balances, ledger, openings, adjustments, source postings | `Valuation` |
| `StockCount` | counts, approvals, reversals, the freeze | `Inventory` |
| `Sales` | sales and returns over stock, prices, freeze and drawer | `Valuation` |
| `Purchasing` | purchases, receipts, returns over stock | `Valuation` |
| `SupplierSettlement` | payments and settlements over a drawer | `Purchasing`, instance of `NewestDrawer` |
| `RowLocks` | the lock sequences of the services of all apps | |
| `DraftDelivery` | abstract promise of offline sales | |
| `OfflineSales` | `offline-sales.js`, `offline/views.py`, `offline/services.py` and the network between them | instance of `DraftDelivery` |
| `Documents` | `documents/services.py`, its two commands and the file storage | |
| `PublicProfile` | `public_profiles/services.py` and the counting of visits in its views | |
| `SumTheorems` | lemmas on sums and folds over finite sets | |
| `CashSessionProofs` | theorems | `CashDrawerRefinement`, `SumTheorems` |
| `StockCountProofs`, `SalesProofs`, `SettlementProofs` | theorems | their module, `SumTheorems` |
| `OfflineSalesProofs`, `DocumentsProofs` | theorems | their module |
| `ProfileAndLockProofs` | theorems | `PublicProfile`, `RowLocks` (which share no state: `RowLocks` names its specification `RLSpec`) |
| `MC…` | small sets and symmetry for TLC | their module |

Conventions shared by the modules:

- **One service call is one action**, where the locks it takes before it reads
  what it decides on make it serializable; the head of each module names the
  lock. Where a call touches what no lock or transaction covers, it is as many
  steps as it has such touches, and may die between any two: the catalogue read
  twice by `sync_offline_sale`, the file storage beside the database in
  `Documents`, the unlocked page and bucket in `PublicProfile`. `RowLocks` opens up
  the locks themselves, which can make calls wait for each other.
- **A call that raises is no action**; its guard is the conjunction of the
  checks on the way. Errors matter to `RowLocks` only, where a failing call
  releases its locks (`Refuse`).
- **Keys are rows.** An idempotency key is stored with the operation and source
  it belongs to. A repeated call is an action of its own (`Replay…`) that
  changes nothing but the history variable `answers`, which remembers every
  record a key has answered with. `KeyAnswersOnce` is about that history.
- **Derived state stays derived.** Expected cash, remaining quantities and
  settlement totals are operators over the rows, as the code recomputes them.
- **Numbers are integers of their quantum**: money 0.01 ETB, quantities
  `1/Quanta` of a unit, costs and values the next smaller unit (`MoneyQuanta`).
  `ROUND_HALF_UP` is `Priced` and `Averaged` of `Valuation`. A run with
  `Quanta = 1` has exact prices; runs about rounding take 2.
- **What another module owns appears as what is seen of it**: a sale sees a
  frozen flag, an open drawer with its expected cash, a price and an active
  flag, and actions of the outside change them between any two steps
  (`Freeze`, `OpenDrawer`, `CloseDrawer`, `ChangeVariant`, `ReceiveStock`, `Sell`).
  `CashSession` and `StockCount` give those in full.

Correspondence of state:

- `CashSession`: `session` (a `CashSession` row by primary key), `movements`,
  `closures`, `reopenings`, `postingKeys` as sequences and sets of rows;
  `today` is the local date the opening checks.
- `Inventory`/`StockCount`: `stock` by branch and variant, `movements` the
  ledger, `active` of a variant; `countStatus`, `countLines`, `snapshot`,
  `physical`, `review`, `countKeys`, `approvals`, `reversals` are the columns
  and tables of a count.
- `Sales`: `sale` and `return` hold the row and its lines; `saleKeys` and
  `returnKeys` are the two key tables.
- `Purchasing`/`SupplierSettlement`: `purchase`, `receipts` (named by key),
  `return`, `returnKeys`, `payments`, `settlements`, `reversals`. The newest cash
  session is the only one that can be open, so that `drawer` keeps the amount and
  number of the newest: it is a `NewestDrawer`, and `CashSession` is proved to
  implement one for each branch (`EachBranchHasADrawer`).
- `RowLocks`: `call` what a request runs, `asked` how far its lock sequence
  (`LockOrder`) has gone, `queue` who holds and awaits a row; `Row` says whether two
  requests mean the same row of a table. Without `of`,
  `select_for_update` with `select_related` locks the joined rows too, in the
  order of the model's fields; the sequences follow from that.
- `OfflineSales`: `entry` and `draft` are the browser's object store, `batch` and
  `copied` variables of the page, `page` what it was loaded with. `calls` and
  `replies` are what is on its way. On the server `working` is the request that
  holds the row of a sync key, `evidence` the `OfflineSaleSync` rows, `sales` what
  they created. A manager's recovery (`Recover`) is a request whose answer
  does not go to the device.
- `Documents`: `document`, `file`, `attempt` are `CapturedDocument`, `DocumentFile`
  and `DocumentTranscription` rows (with target and the set of line variants);
  `stored` is the storage; `scanning`, `purging` and `sweep` are what a
  transaction or a command knows that has not finished. A capture is visible
  as `CAPTURING` to the storage alone until it commits. Posting and cancelling
  of the purchases and expenses made of attempts are steps of others
  (`PostTarget`, `CancelTarget`).
- `PublicProfile`: `profile.subject` maps each indicator to the fields it is about;
  `latest` is the latest decision on it, `stale` the indicators that a
  `VERIFICATION_STALE` event has named since. `visit` is where a visitor's request
  is between page and bucket; `viewed` counts those that went through.

## 3. What the runs check

| Run | Configuration | Shows |
|---|---|---|
| `cash_session` | `MCCashSession.cfg` | two branches, two sessions, two dates: sessions, closures and keys are sound under every interleaving, and the services implement the abstract drawers, each session's and each branch's (`DrawerSpec`) |
| `inventory` | `MCInventory.cfg` | every order of postings with a rounding quantum: the balance is its ledger, no value stays without stock, and the average explains the value up to a bounded drift |
| `stock_count` | `MCStockCount.cfg` | two counts of two variants, by a manager and a clerk, among openings, adjustments and retired variants: the freeze keeps the snapshot true, approval leaves what was counted and a reversal cancels it exactly |
| `count_to_zero` | `MCCountToZero.cfg` | *violation*: a reviewed count to zero cannot be approved |
| `sales` | `MCSales.cfg` | two sales, two returns, changing prices, a freeze and a drawer: returns stay within the sale, refunds within a rounding of it (`RefundsNearSale`), and stock equals documents |
| `settlement` | `MCSettlement.cfg` | purchasing and settlement together: partial receipts, competing returns, payments, credits, refunds and reversals over a drawer, with references that round |
| `locks` | `MCLocks.cfg` | three requests to five services of four apps over two branches: no circular wait, and every accepted request is answered |
| `drawer_deadlock` | `MCDrawerLock.cfg` | *violation*: a cash sale and a close wait for each other |
| `offline` | `MCOffline.cfg` | a draft on an unreliable network, requests that die, a manager who recovers it, and a catalogue, role and branch that change: evidence and sale come together and once (`SalesMatchEvidence`), page and server implement the abstract delivery (`DeliverySpec`), and no draft stays pending (`PendingIsSettled`) |
| `documents` | `MCDocuments.cfg` | a document of two files, with every transaction free to die between database and storage: available documents are whole, confirmed attempts keep their source, unwanted bytes go (`BytesGo`) |
| `documents_replaced` | `MCReplaced.cfg` | *violation*: one confirmed attempt is replaced twice |
| `public_profile` | `MCPublicProfile.cfg` | a profile edited, published, suspended and reviewed over two days while visitors are counted: no visit is lost, no indicator disappears without a record |

Each property has a mutant: a definition of the model changed the way a
plausible bug would change the code, under which TLC finds the property
violated. The mutated forms stand beside the definitions they replace
(`SetStatusUnlessClosed`, `ScopeOfActive`, `PastAnyAge`, `IncreasedFromRead`, …).

The passing runs set `CHECK_DEADLOCK FALSE` where ids, keys, dates or bounds are
finite pools that a behaviour may use up: the bounded system really stops then.
The lock runs do check deadlock.

## 4. Bounds and why they are enough

- *Pools of rows.* Two of each row that can compete (sessions, counts, sales,
  returns, receipts, branches) are what the properties quantify over: every one
  relates at most two rows of a kind. Keys outnumber the operations that must
  differ by one, so that a key can be resent, reused for another operation and
  left alone in one behaviour.
- *Quantities, costs, money* (`MaxQuantity`, `MaxCost`, `MaxPrice`, `MaxFloat`,
  0 to 3): two units are needed for a partial return, three for an
  average that does not divide a value. The
  rounding of a value takes `Quanta = 2` and that of a reference `MoneyQuanta = 2`,
  the smallest quantum with a half, the case `ROUND_HALF_UP` is about. A count has
  `MaxQuantity = 1`: more, less and the same are all it tells apart; sums of larger
  quantities are the subject of `inventory`.
- *Lines and branches*. A sale and a purchase have one variant in the runs, a count
  has two; counts run in one branch. The modules allow more of each; sales of two
  lines and counts of two branches are left to larger instances.
- *Time* (`MaxDay = 2`, `MaxSession = 2`, `MaxToday = 1`): yesterday and today; an
  older session and a newer one; a draft and an indicator of today and of
  yesterday.
- *Outside* (`MaxReceipts`, `MaxTaken`, `Restocked`, `MaxChanges`): one delivery and
  one sale by others reach every relation between a document and the stock; two
  changes reach a catalogue or a role that changes and changes back.
- *Locks*: three requests allow a circle of three; a document in each of two
  branches lets a request wait for an unrelated one.
- *Offline*: one draft, two requests of it on their way (`MaxCalls`) besides the one
  at work, two prices, and a device clock that shows any of the days, whatever the
  server's. Drafts share only `batch` and the copied date, and no property relates two. `MaxAge = 0` makes yesterday's draft too old.
- *Documents*: one document of two files, one clean and one not being all a
  verdict tells apart, two attempts; three attempts and one file where a second replacement is
  the question. Two documents share only the fingerprint and the sweep, which
  looks at each object by itself; the theorems of section 6 hold for any number.
- *Profile*: one indicator, two requests, two values of its subject and none; two visitors and
  three visits a day (`MaxViews`), so that both an insert and an update race.

Bounds are guards on inputs or sizes of constant sets. They never stand inside
the services, with one exception: `StartReplacement` stops at `MaxAttempts`, as the
attempts are a finite array. The proofs assume no value of any bound.

Symmetry is used for interchangeable ids and keys in runs of invariants. The
runs with a liveness property use none.

## 5. Fairness and liveness

Most services are called by people: nobody is obliged to close a session or post
a draft, so most modules assume no fairness and state no liveness.

- `RowLocks`: once a request is accepted the server runs it, so `Ask` and
  `Commit` are weakly fair per request. `Begin` and `Refuse` are not. Weak fairness
  is enough since PostgreSQL queues waiters of a row in order of arrival, which is
  the sequence in `queue`. Under it `EveryCallEnds` holds for services that share
  one order; a circular wait would break it, and in PostgreSQL ends when the
  deadlock detector aborts a transaction with an error that no service catches.
  The detector is not modelled, because a correct order never needs it.
- `OfflineSales`: `PendingIsSettled` is about an operator who keeps pressing the
  button (`SyncDraft`, weakly fair: nothing in the page synchronises by itself), a
  network that does not lose every request and answer, and a server on which
  not every request dies (receiving, checking, saving and hearing strongly
  fair). Losing, dying and all changes stay unconstrained, and the conclusion
  excepts an operator whose membership is no longer active: the server answers
  that one with a page the device cannot read, and the draft stays.
- `Documents`: the ends of captures, scans and purges and the middle steps of a
  reconciliation are weakly fair, being steps of a process that runs or dies. That
  an object ages, that a purge starts and comes to a file and that a reconciliation
  starts is strongly fair: time passes, and `purge_document_files` and
  `reconcile_document_storage` are commands the operator is told to schedule
  (`docs/operations.md:198-204`). That the reconciliation runs with `--delete-orphans`
  is an assumption about the operator: the same lines ask to investigate before
  using the flag, so that `BytesGo` says of the orphans of failed captures that they go
  once somebody who has investigated keeps using it. Without the flag the command
  deletes nothing.

## 6. Proofs

The theorems hold for every value of the constants that satisfies the named
assumptions of the module, which TLC evaluates in the runs above: bounds are
natural, assignments well-typed, `Quanta` and `MoneyQuanta` positive. Two say more.
`FiniteAssumption` (`Sales`, `Purchasing`): variants, sales and returns are rows of
tables, of which there are finitely many; a sum over infinitely many has no
value. `CountsAssumption` (`Inventory`): the source of a movement, which may be a
count, a document or an operation named by its key, tells which of them it is, as
the code looks a source up by type and id.

**Sums** (`SumTheorems`). A ledger is a sum over a set, a posting a fold over its
lines; the library defines both by recursion, as the function that `CHOOSE` picks
among those that satisfy an equation. Its induction theorems take an operator
and are of no use here. `SubsetInduction` and `ElementInduction` take instead the *set*
of the subsets a fact holds of, and rest on the strict subset ordering of a
finite set being well-founded (`WFMin`). With them a solution of the recursive
equation is built and shown to be the only one (`SumExists`, `SumsAgree`, `FoldExists`,
`FoldsAgree`), so that `SumRemove` may take out any term first. The rest is what the ledgers need:
a sum with one more or one changed term, sums that grow term by term, multiples,
and a table summed by rows or by columns (`SumFunctionTable`).

**Cash** (`CashSessionProofs`). `TypeCorrect` proves `TypeOK`, one lemma per
service. `LifecycleInv` adds what the session properties need from each other:
business dates are ordered by session (`DatesOrdered`), closures and reopenings
alternate, and the last closure matches the movements. One open session per
branch follows from "the open session is the latest" only together with the
ordering of dates, since reopening checks for a later session. Hence
`OneOpenSession`, `ClosuresSound` and `ClosedLedgerIsFrozen` (an action property).
`KeyInv` ties every key row to the opening, movement, closure or reopening that
carries it; only then is a replay known to find the record it answered with the
first time, which gives `KeyedCallsAnswerOnce`. `MovementInv` names each source
movement by its source and gives `SourcesRecordedOnce`. `CashInv` adds that the movements
are finitely many: a new one then adds its amount to the sum of its session
and leaves the other sums alone, and `DrawerNeverOwed` follows. With it
`ServicesAreADrawer` maps every step to the abstract drawer: a
posting or a manual movement to a move, a close to a count of the expected cash, a
replay to a stutter. That is what one session is; what the other apps see is a
branch. `EachBranchHasItsNewest` maps each branch to a `NewestDrawer`: the open session,
or else the one of the latest date, which the invariant makes one and the same
(`CurrentIsNewest`). A step is seen in one branch at most: an opening puts a later
session in the place of the newest (`NewestOpens`), a reopening can only be of the
newest (`NewestReopens`), and a session that was left behind is not heard of again.
`PastDaysAreFinal` says that of the session itself: nothing of its row, movements, closures or
reopenings changes once a later one exists.

**Stock counts** (`StockCountProofs`). The arithmetic lemmas show that each
valuation step maps balances to balances, so that `TypeCorrect` includes that no
quantity or value turns negative. The type of an approval needs
`ApprovedCounts`: an approval names a count that was approved. `FreezeInv` joins
`OneActiveCountPerBranch`, `FrozenStockIsSnapshot` and the state of the worksheets
(`Sheets`): a posting spares a frozen branch because the freeze guard looks at all
counts of the branch, and an approval spares the others because only one is
active. `FreezeHolds` and `ReviewIsOfCount` follow, and `ApprovalIsExact` with them:
the stock an approval changes is the snapshot its variances were taken from.
`GoneStockIsWorthNothing` needs only that every step that touches a balance is one
posting (`StepPosts`). `KeyInv` says that an answer tells what the operation or the
key row of its key says, that no two operations share a key and that evidence has its
key row: a replay then finds what the first call made (`KeyedCallsAnswerOnce`). A key
row belongs to a count that has started, which keeps the branch in it true.

`LedgerInv` is about every balance and its movements at once (`LedgersExplain`): sums of
quantities and values, and the drift of the average. A posting adds one movement
to one ledger (`CountRows`: counts have movements only once approved or reversed, so that the row is
new), and the
rounding lemmas bound what that movement adds to the drift: `BalanceIsLedger` and
`RoundingIsBounded`. `CountsSettled` says row by row what a count has left: nothing before it is
approved or for a variant without a variance, then one movement, then that one and
its opposite at the same cost; `ReversalCancels` sums them.

**Sales** (`SalesProofs`). A posted sale never changes, so that what was
validated for a draft of a return stays true of it: it is of a posted sale and of
lines of it, and a full reversal is of all of them (`ReturnsLinked`). With the types this is
`Linked`, and `TypeCorrect` includes that no posting, refund or reversal leaves a
balance or the drawer negative. `KeysInv` (a key row for each posted document, one per key, and every
answer from a key row) gives `KeyedCallsAnswerOnce`. `ReturnsStayWithinSale` is inductive
with `Linked`: a posting compares with the returns posted by then, not with
those of the time of the draft; a full reversal is posted only when no other return is, and
afterwards its own quantities leave nothing to return. `ShelfAgreesWithDocuments` moves one row of a
table of returned quantities per posting and reversal. `RefundsStayNear` is no induction over steps:
each line of a return is within half a cent of its exact worth, the exact worths add up over
the table to that of the sale at most (this is where `ReturnedWithinSold` is used), and the sale itself
is within half a cent per line of its own.

**Purchasing and settlement** (`SettlementProofs`). One inductive invariant, `Inv`, since
three services decide on each other's rows:
- `ProcurementOK`: the types, a key names one receipt, a receipt is of lines of its
  purchase and a return of lines of receipts of its purchase. Only then does the
  line a return names have a quantity to compare with.
- `StockMatchesDocuments`, `WithinReceipts`, `StatusMatchesReceipts`. A return of several
  receipt lines takes them from the stock one after the other, each at the
  average the last one left (`TakeLine`, a fold); `TakesFrom` says what is true after
  any subset of the lines, and the order does not matter to the quantities.
- `EvidenceOK`, `KeysOnce`, `EvidenceLinked`: payments, settlements and reversals never
  share a key, a reversal is of one of the others, and a record stands on documents
  that exist and in a session that does. Totals over "evidence without a
  reversal" then change by one term per step (`Pays` and its like).
- `DocumentsStand`: active settlements are of posted returns, active
  payments of purchases that are not cancelled. Two apps each check the other's
  rows under the purchase lock; no sequence of the two sets of checks leaves a gap.
- `AgreedWithinReference`, `DrawerMatchesEvidence`: inductive with the above. The
  drawer needs that evidence of an older session stays out of the newest one's sum.
- `AnswersOK` and `ReturnKeysOK`: every answer is that of the one record of its key.

It gives `TypeCorrect`, `ShelfAgreesWithDocuments`, `ReturnsStayWithinReceipts`, `StatusFollowsReceipts`,
`KeyedCallsAnswerOnce`, `EvidenceStaysWithin`, `DrawerAgreesWithEvidence` and `SettledDocuments`.
`SettlementsUseTheNewest` proves that its drawer implements `NewestDrawer`, as every
branch of `CashSession` does: the two modules agree on what one app sees of
the other. It is agreement on an abstract specification and no composition: that
settlement meets every drawer the cash app can show is seen by comparing the two
sets of actions, `OpenDrawer` and `CloseOrReopenDrawer` being all of `Open`, `Close`
and `Reopen` up to the number of a session. Only `Move` is narrower: cash that other apps move in the session
is left out, as `DrawerMatchesEvidence` sums the supplier evidence alone.

**Offline sales** (`OfflineSalesProofs`). `DeliveryInv` ties the server's rows to what
is in flight: a claim is of a draft without a decision (`ClaimsAreOpen`), a sale has the
evidence of its draft (`SalesHaveEvidence`), and a reply or an entry of a device that
speaks of a sale speaks of one that is there (`RepliesAreTrue`, `EntriesAreTrue`). It gives
`SalesComeWithEvidence`, and every step then maps to a decision, a reading of it or a
stutter of `DraftDelivery` (`SynchronizationDelivers`).

**Documents** (`DocumentsProofs`). Two invariants.
`SourceInv` is for `ConfirmedKeepsItsSource`: an attempt that awaits confirmation or
has it belongs to an available document, and a running scan to one that is
not available. `confirm_transcription` does not look at the document, so the
proof rests on `cancel_document` closing every attempt that could still be
confirmed. `StorageInv` is for `AvailableStaysWhole`: the bytes of a capture that has not
committed are young (`FreshCaptures`), a file found clean keeps its bytes while
its document is captured (`CleanIsKept`), a scan has deleted the infected alone
(`ScansAreCurrent`), and what a reconciliation holds for an orphan although a row has come for it is
younger than it deletes (`OrphansAreYoung`). The last is why the command may read
the rows before it lists the storage; it needs the assumption in `GrowOld` that neither
a capture nor a reconciliation lasts as long as the orphan retention.

**Profiles** (`ProfileAndLockProofs`). `EveryViewIsCounted` from `CountInv`, which
types visits and buckets; `EveryRemovalIsAudited` from `AuditInv`, which types
decisions and requests. Both properties are inductive with their types alone: each
service decides on the locked row, and a bucket is counted in the database.

**Row locks** (`ProfileAndLockProofs`). Some services do wait for each other in a
circle (section 7), so that `NoCircularWait` holds of those alone that agree on an order. `InOneOrder`
says when a set of services does: the tables have depths, and whenever a service
holds one row (its `i`-th) that another may come to wait for (`Awaited`) and asks for a later one
that it may have to wait for itself (`Awaits`), the later table is less deep. Two
services that both lock a row of, say, the sale first never get to meet at
its lines: `Meet` leaves out what an earlier common row keeps apart.
`NoCircleInOneOrder` proves `NoCircularWait` from `InOneOrder`. `QueueInv` says
what a queue is: who is in it has asked for its row, whoever has asked is in it, once, and
all that a call asked for before the last it holds. In a circle every call
that is waited for holds a row and waits at a later one
(`HeldBeforeWanted`), and where two calls meet at a row no earlier one stood between
them, as it would have two heads (`WhereTheyMeet`). So the wanted tables get
less deep from call to call, without end.
`OrderedNeverCircle` applies it to fifteen of the twenty-three services, the five of
`MCLocks.cfg` among them; the order is sale, purchase, expense; branch; supplier, sale
return; drawer; business; variants; products. The row of a purchase return comes
before the branch in one service and after it in two, which does no harm because all
three lock its purchase first. `SomeCallAlwaysRuns` says the same as progress.
The condition is sharp for the code: by enumeration of the lock sequences a set of services fails it
only if it contains one of 42 pairs that fail it, and TLC finds the circle of each
of the 42 (two callers, two branches, one document, the pair as `Services`).
Fifteen is the most services a set without such a pair has.

**Only model-checked.** Liveness (`EveryCallEnds`, `PendingIsSettled`, `BytesGo`) is out of
reach of the prover, which knows neither fairness nor `ENABLED`. Every
other property of a passing run is stated by a theorem.

## 7. Disagreements found

Between the code and what its documents say, each with a run:

1. `count_to_zero` — `_apply_outbound_at_cost` (`inventory/services.py:428`)
   refuses a reviewed count of nothing when the rounded average does not divide
   the value.
2. `drawer_deadlock` — `close_cash_session` (`cash/services.py:456`) locks session
   then branch, `post_sale` branch then session. The same circle arises between
   `post_sale_return` and `save_sale_return_draft` (return, branch, sale against
   sale, branch) and between `post_purchase_return` and
   `post_supplier_return_settlement` (return, …, purchase against purchase, …,
   return); put those names into `Services` of `MCDrawerLock.cfg` to see them.
   Likewise `post_sale` (`sales/services.py:422`) locks variants before the
   business row: with `Services = {"post_sale", "receive_purchase"}` and two
   branches the two wait for each other.
3. `documents_replaced` — `start_replacement_transcription`
   (`documents/services.py:834`) does not look for an earlier replacement: an
   attempt whose purchase was cancelled can be replaced again after its
   first replacement was confirmed, and two purchases of one document stand.
   In the same way opening stock is posted from an attempt that has been
   replaced since: `post_confirmed_opening_stock` looks at the status of the attempt alone.

`PROJECT.json` quotes the documents these contradict. Facts of the code the models
contain and no run is about:

- Partial refunds are rounded one by one (`sales/services.py:713`), so that they
  may exceed the sale by a rounding; `RefundsNearSale` bounds by how much.
- `reverse_supplier_payment` (`expenses/services.py:634`) does not look at refunds
  of the payment, so that a refund may stand for a payment that was reversed, against
  stage 4b, line 151. `AgreedWithinReference` does not catch it: it says what stays
  true nevertheless, that refunds are within all payments ever made.
- A draft synchronised while its price changes is saved at the new price with no
  conflict in its evidence: the catalogue is read without a lock for the
  conflicts (`offline/services.py:352`) and again for the sale.
- A request for a draft that is a sale already is answered "rejected" when the
  drafter is not permitted any more (`Turned`): the device then shows a rejected
  draft that the server has sold. So it does when the clock of the device was fast: the
  early request is refused as from the future and leaves no evidence, and a
  later one of the same draft, still on its way, is accepted when the day has come.
  `DeliverySpec` has this as a `Forget`, and promises only that nothing is shown as
  sold that is not.
- A scan that deletes infected bytes and is then rolled back leaves a pending file
  without bytes (`documents/services.py:331`); every later scan of the document
  fails at opening it (`FailScan`). The document never becomes available, so
  `AvailableIsWhole` holds and does not see it, and it can only be cancelled.
- An indicator made stale by a change of its fields is shown again when the
  fields are changed back, without a review (`public_profiles/services.py:261`;
  the stage 7 document says it is removed "until re-reviewed"): what is current
  is computed from fingerprints, and a stale event is not read.
- Contact links are not part of the fingerprint of the contact indicator, and
  `renew_verification` and `expire_verification` record a decision and no event.

## 8. What is not modelled

- Rendering, forms, translations, receipts' numbers and QR codes, reports,
  admin pages, demo data, deployment: no behaviour the properties tell apart.
- Login, sessions and middleware: Django's. Roles are constants, except in
  `OfflineSales`, where the drafter's membership changes between any two steps.
- An opening of a cash session that reads its date (`cash/services.py:132`) before
  midnight and gets the lock of its branch (line 139) after another session was opened
  and closed on the new day: `CreateSession` reads the date in the step that holds the lock.
- More than one business: every query filters by business, and no row is shared.
- SQLite, used in development, has no row locks; the models are of PostgreSQL.
- In `RowLocks`: foreign-key locks, unique indexes of keys, the rows below a
  document, the services of documents, images, attendance and profiles, and the
  Telebirr variants of postings, which skip the session.
- Public profiles: publication of products, opening hours, the indexing flag and
  receipts' public identities. Each is a flag or a row that one locked service
  writes and the page reads; no modelled property depends on them.
- Operating expenses have their locks in `RowLocks` and their drafts in
  `Documents`; their own payments and reversals follow
  `SupplierSettlement` and are left out.
- Offline: the cached pages of the service worker, and storage quotas of the browser.
- Documents: contents of fields and lines beyond which variants they name,
  revision snapshots, the malware scanner itself, whose verdicts are arbitrary.
- Attendance (one row per employee and day, no second actor), images and Telebirr
  profiles (a row and a file, the subject of `Documents`), the request rate limit
  (two counters in a cache that may lose them).

## 9. Plan

Order: what moves money and stock first, then what feeds it, then the rest.

1. *(done)* `CashSession` with `CashDrawer`; `Inventory`, `StockCount`; `Sales`;
   `Purchasing`, `SupplierSettlement`; `RowLocks`; `OfflineSales` with
   `DraftDelivery`; `Documents`; `PublicProfile`.
2. Composition. *(done)* `CashSession` and `SupplierSettlement` both implement
   `NewestDrawer`. Next: `Sales` over `CashSession` and `StockCount` in place of its
   outside actions, with the outside actions shown to be implemented;
   `OfflineSales` over the drafts of `Sales`.
3. Operating expenses on the drawer, with the edits of a draft; attendance;
   publication of products with the receipts' public identities.
4. Proofs: refinement theorems for the compositions of 2.
