----------------------------- MODULE CashSession -----------------------------
(***************************************************************************)
(* The branch cash sessions of one business: src/apps/cash/services.py     *)
(* over the tables of src/apps/cash/models.py.  Every service runs in one  *)
(* database transaction that locks the session row (or the branch row when *)
(* a session is opened) before it reads anything it decides on, so that    *)
(* one service call is one action here.  A call that raises changes        *)
(* nothing and is not an action.                                           *)
(*                                                                         *)
(* Money is counted in the smallest unit (0.01 ETB): _money only rounds to *)
(* that unit.  Texts are abstracted to whether they are blank, and a UUID  *)
(* chosen by a caller is a member of Keys.                                 *)
(***************************************************************************)
EXTENDS Integers, Sequences, FiniteSetsExt

CONSTANTS
    Branches,      \* active branches of the business
    Sessions,      \* pool of primary keys for CashSession rows
    Keys,          \* idempotency keys the callers choose from
    Sources,       \* payments, refunds, expenses ... that move physical cash
    SourceType,    \* the cash movement type each source is posted with
    Managers,      \* memberships with can_manage_cash_movements
    Cashiers,      \* memberships that only use cash sessions
    Assigned,      \* the branch a cashier is assigned to: {b}, or {}
    MaxMoney,      \* bound on an amount a person types in
    MaxDay         \* bound on the number of local dates

PositiveTypes == {"CASH_SALE", "OPERATING_EXPENSE_REVERSAL",
                  "SUPPLIER_PAYMENT_REVERSAL", "SUPPLIER_REFUND"}
NegativeTypes == {"CASH_REFUND", "OPERATING_EXPENSE",
                  "SUPPLIER_PAYMENT", "SUPPLIER_REFUND_REVERSAL"}
ManualTypes   == {"CASH_ADDED", "CASH_REMOVED"}
SourceTypes   == PositiveTypes \cup NegativeTypes
MovementTypes == {"OPENING_FLOAT"} \cup SourceTypes \cup ManualTypes
OperationTypes == {"OPEN", "MANUAL_MOVEMENT", "CLOSE", "REOPEN"}

Actors == Managers \cup Cashiers
Money  == 0 .. MaxMoney
Days   == 1 .. MaxDay

ASSUME MaxMoneyAssumption == MaxMoney \in Nat
ASSUME MaxDayAssumption == MaxDay \in Nat \ {0}
ASSUME SourceTypeAssumption == SourceType \in [Sources -> SourceTypes]
ASSUME AssignedAssumption == Assigned \in [Cashiers -> SUBSET Branches]

-----------------------------------------------------------------------------

VARIABLES
    today,        \* timezone.localdate()
    status,       \* CashSession.status by primary key, ABSENT before creation
    session,      \* the opening evidence of the CashSession rows
    keys,         \* CashPostingKey rows
    movements,    \* CashMovement rows
    closures,     \* CashSessionClosure rows of a session, by sequence number
    reopenings,   \* CashSessionReopening rows
    answers       \* history: the record each keyed call has answered with

vars == <<today, status, session, keys, movements, closures, reopenings, answers>>

Unopened == [key |-> "NONE"]

SessionRow == [branch : Branches, date : Days, key : Keys, opener : Actors]
KeyRow == [key : Keys, op : OperationTypes, source : Branches \cup Sessions]
MovementRow == [session : Sessions, type : MovementTypes, delta : Int,
                ref : Sessions \cup Sources \cup Keys]
ClosureRow == [expected : Nat, actual : Money, key : Keys]
ReopeningRow == [session : Sessions, sequence : Nat, key : Keys]
AnswerRow == [key : Keys, op : OperationTypes, session : Sessions, sequence : Nat]

Present(s) == status[s] # "ABSENT"

TypeOK ==
    /\ today \in Days
    /\ status \in [Sessions -> {"ABSENT", "OPEN", "CLOSED"}]
    /\ session \in [Sessions -> SessionRow \cup {Unopened}]
    /\ \A s \in Sessions : Present(s) => session[s] \in SessionRow
    /\ keys \subseteq KeyRow
    /\ movements \subseteq MovementRow
    /\ closures \in [Sessions -> Seq(ClosureRow)]
    /\ reopenings \subseteq ReopeningRow
    /\ answers \subseteq AnswerRow

Init ==
    /\ today = 1
    /\ status = [s \in Sessions |-> "ABSENT"]
    /\ session = [s \in Sessions |-> Unopened]
    /\ keys = {}
    /\ movements = {}
    /\ closures = [s \in Sessions |-> <<>>]
    /\ reopenings = {}
    /\ answers = {}

-----------------------------------------------------------------------------
(* Queries the services make.                                              *)

SessionsOf(b) == {s \in Sessions : Present(s) /\ session[s].branch = b}
IsOpen(s) == status[s] = "OPEN"

\* ensure_cash_branch_access
CanUse(a, b) ==
    \/ a \in Managers
    \/ a \in Cashiers /\ Assigned[a] = {b}
    \/ a \in Cashiers /\ Assigned[a] = {} /\ Branches = {b}

\* The rows that Sum("amount_delta") aggregates for a session.
Ledger(s) == {m \in movements : m.session = s}
Total(rows) == SumFunction([m \in rows |-> m.delta])
ExpectedCash(s) == Total(Ledger(s))

AcceptsIntoClosed(s, delta) == delta < 0 => ExpectedCash(s) + delta >= 0
AcceptsOverdraft(s, delta) == IsOpen(s)
\* Cash moves only in an open session and never below an empty drawer.
Accepts(s, delta) == IsOpen(s) /\ (delta < 0 => ExpectedCash(s) + delta >= 0)

RecordedInOpen(source) ==
    \E m \in movements : IsOpen(m.session) /\ m.type = SourceType[source] /\ m.ref = source
Recorded(source) == \E m \in movements : m.type = SourceType[source] /\ m.ref = source

Claimed(k) == \E row \in keys : row.key = k
ClaimedFor(k, op, source) == [key |-> k, op |-> op, source |-> source] \in keys
Claim(k, op, source) ==
    keys' = keys \cup {[key |-> k, op |-> op, source |-> source]}

Answer(k, op, s, n) ==
    answers' = answers \cup {[key |-> k, op |-> op, session |-> s, sequence |-> n]}

SetStatusUnlessClosed(s, x) ==
    status' = IF status[s] = "CLOSED" THEN status ELSE [status EXCEPT ![s] = x]
SetStatus(s, x) == status' = [status EXCEPT ![s] = x]

ClosureOfVariance(s, actual, k) ==
    [expected |-> actual - ExpectedCash(s), actual |-> actual, key |-> k]
ClosureOfCount(s, actual, k) == [expected |-> actual, actual |-> actual, key |-> k]
Closure(s, actual, k) == [expected |-> ExpectedCash(s), actual |-> actual, key |-> k]

IsLatestOfDate(s) == \A other \in SessionsOf(session[s].branch) :
                         IsOpen(other) => session[other].date <= session[s].date
IsLatest(s) == \A other \in SessionsOf(session[s].branch) :
                   session[other].date <= session[s].date

Reopened(s, n) == \E r \in reopenings : r.session = s /\ r.sequence = n

-----------------------------------------------------------------------------
(* The services.                                                           *)

\* A key that already opened a session of this branch answers with it.
ReplayOpen(b, k) ==
    /\ ClaimedFor(k, "OPEN", b)
    /\ \E s \in SessionsOf(b) : session[s].key = k /\ Answer(k, "OPEN", s, 0)
    /\ UNCHANGED <<today, status, session, keys, movements, closures, reopenings>>

\* The date is read before the branch is locked.  Assumed is that no midnight falls
\* between the two with another session opened and closed after it: the call would then
\* open the session of the day before after that of the day.
CreateSession(a, b, float, k) ==
    /\ ~Claimed(k)
    /\ \A s \in SessionsOf(b) : session[s].date # today /\ ~IsOpen(s)
    /\ Claim(k, "OPEN", b)
    /\ \E s \in Sessions :
        /\ ~Present(s)
        /\ SetStatus(s, "OPEN")
        /\ session' = [session EXCEPT ![s] =
               [branch |-> b, date |-> today, key |-> k, opener |-> a]]
        /\ movements' = movements \cup
               {[session |-> s, type |-> "OPENING_FLOAT", delta |-> float, ref |-> s]}
        /\ Answer(k, "OPEN", s, 0)
    /\ UNCHANGED <<today, closures, reopenings>>

\* noted: the basis note of the opening count is not blank
OpenCashSession(a, b, float, noted, k) ==
    /\ CanUse(a, b)
    /\ SessionsOf(b) = {} => a \in Managers /\ noted
    /\ \/ ReplayOpen(b, k)
       \/ CreateSession(a, b, float, k)

\* _record_source_movement, in the caller's transaction.  A source that is
\* already recorded in the session answers with the recorded movement and in
\* another session it is rejected: neither is a step.
RecordSourceMovement(a, s, source, delta) ==
    /\ Present(s)
    /\ CanUse(a, session[s].branch)
    /\ Accepts(s, delta)
    /\ ~Recorded(source)
    /\ SourceType[source] \in PositiveTypes => delta > 0
    /\ SourceType[source] \in NegativeTypes => delta < 0
    /\ movements' = movements \cup
           {[session |-> s, type |-> SourceType[source], delta |-> delta, ref |-> source]}
    /\ UNCHANGED <<today, status, session, keys, closures, reopenings, answers>>

\* A key that already posted a manual movement of this session answers with it.
ReplayManual(s, k) ==
    /\ ClaimedFor(k, "MANUAL_MOVEMENT", s)
    /\ \E m \in Ledger(s) : m.type \in ManualTypes /\ m.ref = k
    /\ Answer(k, "MANUAL_MOVEMENT", s, 0)
    /\ UNCHANGED <<today, status, session, keys, movements, closures, reopenings>>

CreateManual(s, type, amount, k) ==
    LET delta == IF type = "CASH_ADDED" THEN amount ELSE -amount
    IN  /\ ~Claimed(k)
        /\ Accepts(s, delta)
        /\ amount > 0
        /\ Claim(k, "MANUAL_MOVEMENT", s)
        /\ movements' = movements \cup
               {[session |-> s, type |-> type, delta |-> delta, ref |-> k]}
        /\ Answer(k, "MANUAL_MOVEMENT", s, 0)
        /\ UNCHANGED <<today, status, session, closures, reopenings>>

PostManualCashMovement(a, s, type, amount, k) ==
    /\ a \in Managers
    /\ Present(s)
    /\ \/ ReplayManual(s, k)
       \/ CreateManual(s, type, amount, k)

ReplayCloseLatest(s, k) ==
    /\ ClaimedFor(k, "CLOSE", s)
    /\ Answer(k, "CLOSE", s, Len(closures[s]))
    /\ UNCHANGED <<today, status, session, keys, movements, closures, reopenings>>
\* A key that already closed this session answers with that closure.
ReplayClose(s, k) ==
    /\ ClaimedFor(k, "CLOSE", s)
    /\ \E n \in DOMAIN closures[s] :
           closures[s][n].key = k /\ Answer(k, "CLOSE", s, n)
    /\ UNCHANGED <<today, status, session, keys, movements, closures, reopenings>>

\* A negative expected amount is refused by cash_closure_expected_nonnegative.
CreateClosure(s, actual, explained, k) ==
    /\ ~Claimed(k)
    /\ IsOpen(s)
    /\ ExpectedCash(s) \in Nat
    /\ actual # ExpectedCash(s) => explained
    /\ Claim(k, "CLOSE", s)
    /\ closures' = [closures EXCEPT ![s] = Append(@, Closure(s, actual, k))]
    /\ SetStatus(s, "CLOSED")
    /\ Answer(k, "CLOSE", s, Len(closures[s]) + 1)
    /\ UNCHANGED <<today, session, movements, reopenings>>

\* explained: the explanation of the variance is not blank
CloseCashSession(a, s, actual, explained, k) ==
    /\ Present(s)
    /\ CanUse(a, session[s].branch)
    /\ \/ ReplayClose(s, k)
       \/ CreateClosure(s, actual, explained, k)

\* A key that already reopened this session answers with that reopening.
ReplayReopen(s, k) ==
    /\ ClaimedFor(k, "REOPEN", s)
    /\ \E r \in reopenings :
           r.session = s /\ r.key = k /\ Answer(k, "REOPEN", s, r.sequence)
    /\ UNCHANGED <<today, status, session, keys, movements, closures, reopenings>>

CreateReopening(s, k) ==
    LET latest == Len(closures[s])
    IN  /\ ~Claimed(k)
        /\ status[s] = "CLOSED"
        /\ IsLatest(s)
        /\ latest > 0
        /\ ~Reopened(s, latest)
        /\ \A other \in SessionsOf(session[s].branch) : other # s => ~IsOpen(other)
        /\ Claim(k, "REOPEN", s)
        /\ reopenings' = reopenings \cup
               {[session |-> s, sequence |-> latest, key |-> k]}
        /\ SetStatus(s, "OPEN")
        /\ Answer(k, "REOPEN", s, latest)
        /\ UNCHANGED <<today, session, movements, closures>>

ReopenCashSession(a, s, k) ==
    /\ a \in Managers
    /\ Present(s)
    /\ \/ ReplayReopen(s, k)
       \/ CreateReopening(s, k)

\* Midnight in Addis Ababa.
NextDay ==
    /\ today < MaxDay
    /\ today' = today + 1
    /\ UNCHANGED <<status, session, keys, movements, closures, reopenings, answers>>

Next ==
    \/ \E a \in Actors, b \in Branches, float \in Money, noted \in BOOLEAN, k \in Keys :
           OpenCashSession(a, b, float, noted, k)
    \/ \E a \in Actors, s \in Sessions, source \in Sources,
          delta \in (-MaxMoney) .. MaxMoney :
           RecordSourceMovement(a, s, source, delta)
    \/ \E a \in Actors, s \in Sessions, type \in ManualTypes, amount \in Money, k \in Keys :
           PostManualCashMovement(a, s, type, amount, k)
    \/ \E a \in Actors, s \in Sessions, actual \in Money, explained \in BOOLEAN, k \in Keys :
           CloseCashSession(a, s, actual, explained, k)
    \/ \E a \in Actors, s \in Sessions, k \in Keys : ReopenCashSession(a, s, k)
    \/ NextDay

Spec == Init /\ [][Next]_vars

-----------------------------------------------------------------------------
(* Safety.                                                                 *)

\* A branch never has two open sessions, although opening is serialised by
\* the branch row and reopening by the session row and the branch row.
OneOpenSessionPerBranch ==
    \A s, t \in Sessions :
        /\ IsOpen(s) /\ IsOpen(t)
        /\ session[s].branch = session[t].branch
        => s = t

\* Cash is only ever posted to the newest drawer of a branch: a session beneath
\* a later session of the branch is closed, and no chain of closing, opening
\* and reopening opens it again.
OpenSessionIsLatest ==
    \A s \in Sessions : IsOpen(s) =>
        \A t \in SessionsOf(session[s].branch) : t # s => session[t].date < session[s].date

\* Sale refunds, expenses, supplier payments and removals never drive the
\* expected cash of a session below zero, in whatever order they are posted.
ExpectedNeverNegative == \A s \in Sessions : ExpectedCash(s) >= 0

\* The closure a session stands closed by still agrees with its movements:
\* nothing was posted into the session after it was counted.
ClosureMatchesLedger ==
    \A s \in Sessions : status[s] = "CLOSED" =>
        /\ closures[s] # <<>>
        /\ closures[s][Len(closures[s])].expected = ExpectedCash(s)

\* Closures and reopenings alternate: every closure of an open session was
\* reopened, and of a closed session every one but the last.
ClosuresAlternate ==
    \A s \in Sessions :
        {r.sequence : r \in {r \in reopenings : r.session = s}} =
            1 .. (IF status[s] = "CLOSED" THEN Len(closures[s]) - 1
                                                  ELSE Len(closures[s]))

\* The history of a drawer is what happened to it: the last closure is the count
\* of what is in the drawer, and no closure was made or undone twice.
ClosureHistorySound == ClosureMatchesLedger /\ ClosuresAlternate

\* Keyed calls are exactly-once: however often a key is sent again, and with
\* whatever other operations in between, it answers with the same record.
KeyAnswersOnce ==
    \A x, y \in answers : x.key = y.key => x = y

\* A physical-cash source is in the drawer at most once, whichever session.
SourceRecordedOnce ==
    \A m, n \in movements : m.type = n.type /\ m.ref = n.ref => m = n

\* No step touches the ledger of a session that is not open before it, and the
\* one step that may open or reopen a session posts nothing but a float.
ClosedLedgerFrozen ==
    [][\A s \in Sessions : ~IsOpen(s) /\ Present(s) => Ledger(s)' = Ledger(s)]_vars

=============================================================================
