-------------------------- MODULE CashSessionProofs --------------------------
(***************************************************************************)
(* What TLAPS proves of CashSession for every set of branches, sessions,   *)
(* keys, sources and actors.                                               *)
(***************************************************************************)
EXTENDS CashDrawerRefinement, SumTheorems, TLAPS

-----------------------------------------------------------------------------
(* Type correctness.                                                       *)

LEMMA TypeInit == Init => TypeOK
BY MaxDayAssumption DEF Init, TypeOK, Present, Days

LEMMA TypeOpen ==
    ASSUME TypeOK, NEW a \in Actors, NEW b \in Branches, NEW float \in Money,
           NEW noted \in BOOLEAN, NEW k \in Keys,
           OpenCashSession(a, b, float, noted, k)
    PROVE  TypeOK'
<1>1. CASE ReplayOpen(b, k)
  <2>1. PICK s \in SessionsOf(b) : session[s].key = k /\ Answer(k, "OPEN", s, 0)
    BY <1>1 DEF ReplayOpen
  <2>2. [key |-> k, op |-> "OPEN", session |-> s, sequence |-> 0] \in AnswerRow
    BY <2>1 DEF AnswerRow, OperationTypes, SessionsOf
  <2> QED
    BY <1>1, <2>1, <2>2 DEF ReplayOpen, TypeOK, Present, Answer
<1>2. CASE CreateSession(a, b, float, k)
  <2>1. PICK s \in Sessions :
        /\ status' = [status EXCEPT ![s] = "OPEN"]
        /\ session' = [session EXCEPT ![s] =
               [branch |-> b, date |-> today, key |-> k, opener |-> a]]
        /\ movements' = movements \cup
               {[session |-> s, type |-> "OPENING_FLOAT", delta |-> float, ref |-> s]}
        /\ Answer(k, "OPEN", s, 0)
    BY <1>2 DEF CreateSession, SetStatus
  <2>2. [branch |-> b, date |-> today, key |-> k, opener |-> a]
            \in SessionRow
    BY DEF SessionRow, TypeOK
  <2>3. [session |-> s, type |-> "OPENING_FLOAT", delta |-> float, ref |-> s]
            \in MovementRow
    BY MaxMoneyAssumption DEF MovementRow, MovementTypes, Money
  <2>4. [key |-> k, op |-> "OPEN", source |-> b] \in KeyRow
    BY DEF KeyRow, OperationTypes
  <2>5. [key |-> k, op |-> "OPEN", session |-> s, sequence |-> 0] \in AnswerRow
    BY DEF AnswerRow, OperationTypes
  <2> QED
    BY <1>2, <2>1, <2>2, <2>3, <2>4, <2>5 DEF CreateSession, TypeOK, Present, Answer,
       Claim, SetStatus
<1> QED
  BY <1>1, <1>2 DEF OpenCashSession

LEMMA TypeRecord ==
    ASSUME TypeOK, NEW a \in Actors, NEW s \in Sessions, NEW source \in Sources,
           NEW delta \in (-MaxMoney) .. MaxMoney,
           RecordSourceMovement(a, s, source, delta)
    PROVE  TypeOK'
<1>1. [session |-> s, type |-> SourceType[source], delta |-> delta, ref |-> source]
          \in MovementRow
  BY MaxMoneyAssumption, SourceTypeAssumption DEF MovementRow, MovementTypes
<1> QED
  BY <1>1 DEF RecordSourceMovement, TypeOK, Present, Accepts, Recorded

LEMMA TypeManual ==
    ASSUME TypeOK, NEW a \in Actors, NEW s \in Sessions, NEW type \in ManualTypes,
           NEW amount \in Money, NEW k \in Keys,
           PostManualCashMovement(a, s, type, amount, k)
    PROVE  TypeOK'
<1>1. [key |-> k, op |-> "MANUAL_MOVEMENT", session |-> s, sequence |-> 0] \in AnswerRow
  BY DEF AnswerRow, OperationTypes
<1>2. CASE ReplayManual(s, k)
  BY <1>1, <1>2 DEF ReplayManual, Answer, TypeOK, Present
<1>3. CASE CreateManual(s, type, amount, k)
  <2>1. [session |-> s, type |-> type,
         delta |-> IF type = "CASH_ADDED" THEN amount ELSE -amount, ref |-> k]
            \in MovementRow
    BY MaxMoneyAssumption DEF MovementRow, MovementTypes, Money
  <2>2. [key |-> k, op |-> "MANUAL_MOVEMENT", source |-> s] \in KeyRow
    BY DEF KeyRow, OperationTypes
  <2> QED
    BY <1>1, <1>3, <2>1, <2>2 DEF CreateManual, Claim, Answer, TypeOK, Present, Accepts
<1> QED
  BY <1>2, <1>3 DEF PostManualCashMovement

LEMMA TypeClose ==
    ASSUME TypeOK, NEW a \in Actors, NEW s \in Sessions, NEW actual \in Money,
           NEW explained \in BOOLEAN, NEW k \in Keys,
           CloseCashSession(a, s, actual, explained, k)
    PROVE  TypeOK'
<1>1. \A n \in Nat :
          [key |-> k, op |-> "CLOSE", session |-> s, sequence |-> n] \in AnswerRow
  BY DEF AnswerRow, OperationTypes
<1>2. CASE ReplayClose(s, k)
  <2>1. DOMAIN closures[s] \subseteq Nat
    BY DEF TypeOK
  <2> QED
    BY <1>1, <1>2, <2>1 DEF ReplayClose, Answer, TypeOK, Present
<1>3. CASE CreateClosure(s, actual, explained, k)
  <2>1. [expected |-> ExpectedCash(s), actual |-> actual, key |-> k] \in ClosureRow
    BY <1>3 DEF CreateClosure, ClosureRow, SetStatus, Closure
  <2>2. [key |-> k, op |-> "CLOSE", source |-> s] \in KeyRow
    BY DEF KeyRow, OperationTypes
  <2>3. Len(closures[s]) + 1 \in Nat
    BY DEF TypeOK
  <2>4. status' \in [Sessions -> {"ABSENT", "OPEN", "CLOSED"}]
    BY <1>3 DEF CreateClosure, TypeOK, SetStatus, Closure
  <2>5. closures' \in [Sessions -> Seq(ClosureRow)]
    BY <1>3, <2>1 DEF CreateClosure, TypeOK, SetStatus, Closure
  <2> QED
    BY <1>1, <1>3, <2>2, <2>3, <2>4, <2>5
       DEF CreateClosure, Claim, Answer, IsOpen, TypeOK, Present, SetStatus, Closure
<1> QED
  BY <1>2, <1>3 DEF CloseCashSession

LEMMA TypeReopen ==
    ASSUME TypeOK, NEW a \in Actors, NEW s \in Sessions, NEW k \in Keys,
           ReopenCashSession(a, s, k)
    PROVE  TypeOK'
<1>1. \A n \in Nat :
          [key |-> k, op |-> "REOPEN", session |-> s, sequence |-> n] \in AnswerRow
  BY DEF AnswerRow, OperationTypes
<1>2. CASE ReplayReopen(s, k)
  BY <1>1, <1>2 DEF ReplayReopen, Answer, TypeOK, Present, ReopeningRow
<1>3. CASE CreateReopening(s, k)
  <2>1. Len(closures[s]) \in Nat
    BY DEF TypeOK
  <2>2. [session |-> s, sequence |-> Len(closures[s]), key |-> k] \in ReopeningRow
    BY <2>1 DEF ReopeningRow
  <2>3. [key |-> k, op |-> "REOPEN", source |-> s] \in KeyRow
    BY DEF KeyRow, OperationTypes
  <2>4. status' \in [Sessions -> {"ABSENT", "OPEN", "CLOSED"}]
    BY <1>3 DEF CreateReopening, TypeOK, Present, SetStatus, IsLatest
  <2> QED
    BY <1>1, <1>3, <2>1, <2>2, <2>3, <2>4 DEF CreateReopening, Claim, Answer, TypeOK,
       Present, SetStatus, IsLatest
<1> QED
  BY <1>2, <1>3 DEF ReopenCashSession

LEMMA TypeStep == TypeOK /\ [Next]_vars => TypeOK'
<1> SUFFICES ASSUME TypeOK, [Next]_vars PROVE TypeOK'
  OBVIOUS
<1>1. CASE NextDay
  BY <1>1, MaxDayAssumption DEF NextDay, TypeOK, Present, Days
<1>2. CASE UNCHANGED vars
  BY <1>2 DEF vars, TypeOK, Present
<1> QED
  BY <1>1, <1>2, TypeOpen, TypeRecord, TypeManual, TypeClose, TypeReopen DEF Next

\* The tables keep their types.
THEOREM TypeCorrect == Spec => []TypeOK
BY TypeInit, TypeStep, PTL DEF Spec

-----------------------------------------------------------------------------
(* The life of a session.                                                  *)

\* A step that only answers a repeated key.
Replay ==
    \/ \E b \in Branches, k \in Keys : ReplayOpen(b, k)
    \/ \E s \in Sessions, k \in Keys :
           Present(s) /\ (ReplayManual(s, k) \/ ReplayClose(s, k) \/ ReplayReopen(s, k))

LEMMA StepCases ==
    ASSUME [Next]_vars
    PROVE  \/ \E a \in Actors, b \in Branches, float \in Money, k \in Keys :
                  CreateSession(a, b, float, k)
           \/ \E a \in Actors, s \in Sessions, source \in Sources,
                 delta \in (-MaxMoney) .. MaxMoney :
                  RecordSourceMovement(a, s, source, delta)
           \/ \E s \in Sessions, type \in ManualTypes, amount \in Money, k \in Keys :
                  CreateManual(s, type, amount, k)
           \/ \E s \in Sessions, actual \in Money, explained \in BOOLEAN, k \in Keys :
                  CreateClosure(s, actual, explained, k)
           \/ \E s \in Sessions, k \in Keys : Present(s) /\ CreateReopening(s, k)
           \/ NextDay
           \/ Replay
           \/ UNCHANGED vars
BY DEF Next, OpenCashSession, PostManualCashMovement, CloseCashSession,
       ReopenCashSession, Replay

LEMMA ReplayChangesNothing ==
    Replay => UNCHANGED <<today, status, session, keys, movements, closures, reopenings>>
BY DEF Replay, ReplayOpen, ReplayManual, ReplayClose, ReplayReopen

\* The sessions of a branch have dates of their own, none in the future.
DatesOrdered ==
    /\ \A s \in Sessions : Present(s) => session[s].date <= today
    /\ \A s, t \in Sessions :
           Present(s) /\ Present(t) /\ session[s].branch = session[t].branch
               /\ session[s].date = session[t].date => s = t

LEMMA DatesStep == TypeOK /\ DatesOrdered /\ [Next]_vars => DatesOrdered'
<1> SUFFICES ASSUME TypeOK, DatesOrdered, [Next]_vars PROVE DatesOrdered'
  OBVIOUS
<1>1. ASSUME NEW a \in Actors, NEW b \in Branches, NEW float \in Money, NEW k \in Keys,
             CreateSession(a, b, float, k)
      PROVE  DatesOrdered'
  <2>1. PICK new \in Sessions :
            /\ ~Present(new)
            /\ status' = [status EXCEPT ![new] = "OPEN"]
            /\ session' = [session EXCEPT ![new] =
                   [branch |-> b, date |-> today, key |-> k, opener |-> a]]
    BY <1>1 DEF CreateSession, SetStatus
  <2>2. today' = today /\ today \in Int
    BY <1>1, MaxDayAssumption DEF CreateSession, TypeOK, Days, SetStatus
  <2>3. \A s \in SessionsOf(b) : session[s].date # today
    BY <1>1 DEF CreateSession, SetStatus
  <2> QED
    BY <2>1, <2>2, <2>3 DEF DatesOrdered, TypeOK, Present, SessionsOf
<1>2. CASE NextDay
  <2>1. \A s \in Sessions : Present(s) => session[s].date \in Int
    BY MaxDayAssumption DEF TypeOK, SessionRow, Days
  <2> QED
    BY <1>2, <2>1, MaxDayAssumption DEF NextDay, DatesOrdered, TypeOK, Present, Days
<1>3. ASSUME UNCHANGED <<today, session>>,
             \A s \in Sessions : Present(s)' => Present(s)
      PROVE  DatesOrdered'
  BY <1>3 DEF DatesOrdered
<1>4. ASSUME NEW s \in Sessions, NEW actual \in Money, NEW explained \in BOOLEAN,
             NEW k \in Keys, CreateClosure(s, actual, explained, k)
      PROVE  DatesOrdered'
  BY <1>3, <1>4 DEF CreateClosure, TypeOK, Present, IsOpen, SetStatus, Closure
<1>5. ASSUME NEW s \in Sessions, NEW k \in Keys, CreateReopening(s, k)
      PROVE  DatesOrdered'
  BY <1>3, <1>5 DEF CreateReopening, TypeOK, Present, SetStatus, IsLatest
<1> QED
  BY <1>1, <1>2, <1>3, <1>4, <1>5, StepCases, ReplayChangesNothing
     DEF RecordSourceMovement, CreateManual, Present, vars, Accepts, Recorded

LEMMA LatestStep ==
    TypeOK /\ DatesOrdered /\ OpenSessionIsLatest /\ [Next]_vars => OpenSessionIsLatest'
<1> SUFFICES ASSUME TypeOK, DatesOrdered, OpenSessionIsLatest, [Next]_vars
             PROVE  OpenSessionIsLatest'
  OBVIOUS
<1> USE DEF SessionsOf, IsOpen, Present
<1>0. \A s \in Sessions : Present(s) => session[s].date \in Int
  BY MaxDayAssumption DEF TypeOK, SessionRow, Days
<1>1. ASSUME NEW a \in Actors, NEW b \in Branches, NEW float \in Money, NEW k \in Keys,
             CreateSession(a, b, float, k)
      PROVE  OpenSessionIsLatest'
  <2>1. PICK new \in Sessions :
            /\ ~Present(new)
            /\ status' = [status EXCEPT ![new] = "OPEN"]
            /\ session' = [session EXCEPT ![new] =
                   [branch |-> b, date |-> today, key |-> k, opener |-> a]]
    BY <1>1 DEF CreateSession, SetStatus
  <2>2. \A s \in SessionsOf(b) : session[s].date < today /\ ~IsOpen(s)
    BY <1>0, <1>1, MaxDayAssumption DEF CreateSession, DatesOrdered, TypeOK, Days,
       SetStatus
  <2> QED
    BY <2>1, <2>2 DEF OpenSessionIsLatest, TypeOK
<1>2. ASSUME NEW s \in Sessions, NEW actual \in Money, NEW explained \in BOOLEAN,
             NEW k \in Keys, CreateClosure(s, actual, explained, k)
      PROVE  OpenSessionIsLatest'
  BY <1>2 DEF CreateClosure, OpenSessionIsLatest, TypeOK, SetStatus, Closure
<1>3. ASSUME NEW s \in Sessions, NEW k \in Keys, CreateReopening(s, k)
      PROVE  OpenSessionIsLatest'
  <2>1. \A t \in SessionsOf(session[s].branch) :
            t # s => session[t].date < session[s].date /\ ~IsOpen(t)
    BY <1>0, <1>3 DEF CreateReopening, DatesOrdered, SetStatus, IsLatest
  <2> QED
    BY <1>3, <2>1 DEF CreateReopening, OpenSessionIsLatest, TypeOK, SetStatus, IsLatest
<1>4. ASSUME UNCHANGED <<status, session>> PROVE OpenSessionIsLatest'
  BY <1>4 DEF OpenSessionIsLatest
<1> QED
  BY <1>1, <1>2, <1>3, <1>4, StepCases, ReplayChangesNothing
     DEF RecordSourceMovement, CreateManual, NextDay, vars, Accepts, Recorded

LEMMA LatestIsOnlyOpen == TypeOK /\ OpenSessionIsLatest => OneOpenSessionPerBranch
<1> SUFFICES ASSUME TypeOK, OpenSessionIsLatest, NEW s \in Sessions, NEW t \in Sessions,
                    IsOpen(s), IsOpen(t), session[s].branch = session[t].branch, s # t
             PROVE  FALSE
  BY DEF OneOpenSessionPerBranch
<1>1. s \in SessionsOf(session[t].branch) /\ t \in SessionsOf(session[s].branch)
  BY DEF SessionsOf, IsOpen, Present
<1>2. session[s].date \in Int /\ session[t].date \in Int
  BY <1>1, MaxDayAssumption DEF TypeOK, SessionsOf, SessionRow, Days
<1> QED
  BY <1>1, <1>2 DEF OpenSessionIsLatest

LEMMA AlternateStep == TypeOK /\ ClosuresAlternate /\ [Next]_vars => ClosuresAlternate'
<1> SUFFICES ASSUME TypeOK, ClosuresAlternate, [Next]_vars PROVE ClosuresAlternate'
  OBVIOUS
<1> DEFINE Sequences(x) == {r.sequence : r \in {r \in reopenings : r.session = x}}
           Due(x) == 1 .. (IF status[x] = "CLOSED" THEN Len(closures[x]) - 1
                                                    ELSE Len(closures[x]))
<1>0. \A x \in Sessions : Sequences(x) = Due(x) /\ Len(closures[x]) \in Nat
  BY DEF ClosuresAlternate, TypeOK
<1>1. SUFFICES \A x \in Sessions : Sequences(x)' = Due(x)'
  BY DEF ClosuresAlternate
<1>2. ASSUME NEW s \in Sessions, NEW actual \in Money, NEW explained \in BOOLEAN,
             NEW k \in Keys, CreateClosure(s, actual, explained, k), NEW x \in Sessions
      PROVE  Sequences(x)' = Due(x)'
  <2>1. Sequences(x)' = Sequences(x)
    BY <1>2 DEF CreateClosure, SetStatus, Closure
  <2>2. CASE x # s
    BY <1>0, <1>2, <2>1, <2>2 DEF CreateClosure, TypeOK, SetStatus, Closure
  <2>3. CASE x = s
    <3>1. Len(closures'[s]) = Len(closures[s]) + 1
      BY <1>2 DEF CreateClosure, TypeOK, SetStatus, Closure
    <3>2. status[s] = "OPEN" /\ status'[s] = "CLOSED"
      BY <1>2 DEF CreateClosure, TypeOK, IsOpen, SetStatus, Closure
    <3>3. Due(s) = 1 .. Len(closures[s])
      BY <3>2
    <3>4. Due(s)' = 1 .. (Len(closures'[s]) - 1)
      BY <3>2
    <3>5. Len(closures'[s]) - 1 = Len(closures[s])
      BY <1>0, <3>1
    <3> QED
      BY <1>0, <2>1, <2>3, <3>3, <3>4, <3>5
  <2> QED
    BY <2>2, <2>3
<1>3. ASSUME NEW s \in Sessions, NEW k \in Keys, CreateReopening(s, k), NEW x \in Sessions
      PROVE  Sequences(x)' = Due(x)'
  <2> DEFINE new == [session |-> s, sequence |-> Len(closures[s]), key |-> k]
  <2>1. /\ reopenings' = reopenings \cup {new}
        /\ closures' = closures
        /\ status[s] = "CLOSED"
        /\ status' = [status EXCEPT ![s] = "OPEN"]
        /\ Len(closures[s]) > 0
    BY <1>3 DEF CreateReopening, SetStatus, IsLatest
  <2>2. CASE x # s
    <3>1. Sequences(x)' = Sequences(x)
      BY <2>1, <2>2
    <3> QED
      BY <1>0, <2>1, <2>2, <3>1 DEF TypeOK
  <2>3. CASE x = s
    <3>1. Sequences(s)' = Sequences(s) \cup {Len(closures[s])}
      <4>1. {r \in reopenings' : r.session = s} =
                {r \in reopenings : r.session = s} \cup {new}
        BY <2>1
      <4>2. new.sequence = Len(closures[s])
        OBVIOUS
      <4> HIDE DEF new
      <4> QED
        BY <4>1, <4>2
    <3>2. Sequences(s) = 1 .. (Len(closures[s]) - 1)
      BY <1>0, <2>1
    <3>3. Due(s)' = 1 .. Len(closures[s])
      BY <2>1 DEF TypeOK
    <3> QED
      BY <1>0, <2>1, <2>3, <3>1, <3>2, <3>3
  <2> QED
    BY <2>2, <2>3
<1>4. ASSUME NEW a \in Actors, NEW b \in Branches, NEW float \in Money, NEW k \in Keys,
             CreateSession(a, b, float, k), NEW x \in Sessions
      PROVE  Sequences(x)' = Due(x)'
  BY <1>0, <1>4 DEF CreateSession, TypeOK, Present, SetStatus
<1>5. ASSUME UNCHANGED <<status, closures, reopenings>>
      PROVE  \A x \in Sessions : Sequences(x)' = Due(x)'
  BY <1>0, <1>5
<1> QED
  BY <1>2, <1>3, <1>4, <1>5, StepCases, ReplayChangesNothing
     DEF RecordSourceMovement, CreateManual, NextDay, vars, Accepts, Recorded

\* A step adds movements only to an open session or to one it opens.
LEMMA LedgerStep ==
    ASSUME TypeOK, [Next]_vars, NEW s \in Sessions, status[s] = "CLOSED"
    PROVE  Ledger(s)' = Ledger(s)
<1>1. ASSUME NEW a \in Actors, NEW b \in Branches, NEW float \in Money, NEW k \in Keys,
             CreateSession(a, b, float, k)
      PROVE  Ledger(s)' = Ledger(s)
  BY <1>1 DEF CreateSession, Ledger, Present, SetStatus
<1>2. ASSUME NEW a \in Actors, NEW t \in Sessions, NEW source \in Sources,
             NEW delta \in (-MaxMoney) .. MaxMoney, RecordSourceMovement(a, t, source,
                delta)
      PROVE  Ledger(s)' = Ledger(s)
  BY <1>2 DEF RecordSourceMovement, Ledger, IsOpen, Accepts, Recorded
<1>3. ASSUME NEW t \in Sessions, NEW type \in ManualTypes, NEW amount \in Money,
             NEW k \in Keys, CreateManual(t, type, amount, k)
      PROVE  Ledger(s)' = Ledger(s)
  BY <1>3 DEF CreateManual, Ledger, IsOpen, Accepts
<1>4. ASSUME UNCHANGED movements PROVE Ledger(s)' = Ledger(s)
  BY <1>4 DEF Ledger
<1> QED
  BY <1>1, <1>2, <1>3, <1>4, StepCases, ReplayChangesNothing
     DEF CreateClosure, CreateReopening, NextDay, vars, SetStatus, Closure, IsLatest

LEMMA MatchesStep ==
    TypeOK /\ ClosureMatchesLedger /\ [Next]_vars => ClosureMatchesLedger'
<1> SUFFICES ASSUME TypeOK, ClosureMatchesLedger, [Next]_vars,
                    NEW s \in Sessions, status'[s] = "CLOSED"
             PROVE  /\ closures'[s] # <<>>
                    /\ closures'[s][Len(closures'[s])].expected = ExpectedCash(s)'
  BY DEF ClosureMatchesLedger
<1>1. CASE status[s] = "CLOSED" /\ closures'[s] = closures[s]
  BY <1>1, LedgerStep DEF ClosureMatchesLedger, ExpectedCash
<1>2. ASSUME NEW t \in Sessions, NEW actual \in Money, NEW explained \in BOOLEAN,
             NEW k \in Keys, CreateClosure(t, actual, explained, k), s = t
      PROVE  /\ closures'[s] # <<>>
             /\ closures'[s][Len(closures'[s])].expected = ExpectedCash(s)'
  <2>1. closures'[s] = Append(closures[s],
            [expected |-> ExpectedCash(s), actual |-> actual, key |-> k])
    BY <1>2 DEF CreateClosure, TypeOK, SetStatus, Closure
  <2>2. closures[s] \in Seq(ClosureRow)
    BY DEF TypeOK
  <2>3. ExpectedCash(s)' = ExpectedCash(s)
    BY <1>2 DEF CreateClosure, ExpectedCash, Ledger, SetStatus, Closure
  <2>4. [expected |-> ExpectedCash(s), actual |-> actual, key |-> k] \in ClosureRow
    BY <1>2 DEF CreateClosure, ClosureRow, SetStatus, Closure
  <2>5. /\ Len(closures'[s]) = Len(closures[s]) + 1
        /\ closures'[s][Len(closures[s]) + 1] =
               [expected |-> ExpectedCash(s), actual |-> actual, key |-> k]
    BY <2>1, <2>2, <2>4
  <2> QED
    BY <2>1, <2>2, <2>3, <2>5
<1> QED
  BY <1>1, <1>2, StepCases, ReplayChangesNothing
     DEF CreateSession, RecordSourceMovement, CreateManual, CreateClosure,
         CreateReopening, NextDay, vars, TypeOK, SetStatus, Closure, IsLatest, Accepts,
            Recorded

\* The inductive invariant of the life of a session.
LifecycleInv ==
    /\ TypeOK
    /\ DatesOrdered
    /\ OpenSessionIsLatest
    /\ ClosuresAlternate
    /\ ClosureMatchesLedger

LEMMA LifecycleInit == Init => LifecycleInv
<1> SUFFICES ASSUME Init PROVE LifecycleInv
  OBVIOUS
<1>1. TypeOK
  BY TypeInit
<1>2. \A s \in Sessions : ~Present(s) /\ ~IsOpen(s) /\ status[s] # "CLOSED"
  BY DEF Init, Present, IsOpen
<1>3. ClosuresAlternate
  BY DEF Init, ClosuresAlternate
<1> QED
  BY <1>1, <1>2, <1>3
     DEF LifecycleInv, DatesOrdered, OpenSessionIsLatest, ClosureMatchesLedger

LEMMA LifecycleStep == LifecycleInv /\ [Next]_vars => LifecycleInv'
BY TypeStep, DatesStep, LatestStep, AlternateStep, MatchesStep DEF LifecycleInv

THEOREM LifecycleCorrect == Spec => []LifecycleInv
BY LifecycleInit, LifecycleStep, PTL DEF Spec

\* At most one session of a branch is open, and it is the latest one.
THEOREM OneOpenSession == Spec => [](OneOpenSessionPerBranch /\ OpenSessionIsLatest)
<1>1. LifecycleInv => OneOpenSessionPerBranch /\ OpenSessionIsLatest
  BY LatestIsOnlyOpen DEF LifecycleInv
<1> QED
  BY <1>1, LifecycleCorrect, PTL

\* A closed session still holds what its last closure says it held, and its
\* closures were reopened one after the other.
THEOREM ClosuresSound == Spec => []ClosureHistorySound
<1>1. LifecycleInv => ClosureHistorySound
  BY DEF LifecycleInv, ClosureHistorySound
<1> QED
  BY <1>1, LifecycleCorrect, PTL

\* Nothing is ever posted into a closed session.
THEOREM ClosedLedgerIsFrozen == Spec => ClosedLedgerFrozen
<1>1. TypeOK /\ [Next]_vars =>
          \A s \in Sessions : ~IsOpen(s) /\ Present(s) => Ledger(s)' = Ledger(s)
  BY LedgerStep DEF TypeOK, IsOpen, Present
<1> QED
  BY <1>1, TypeCorrect, PTL DEF Spec, ClosedLedgerFrozen

-----------------------------------------------------------------------------
(* Keys and evidence.                                                      *)

KeysUnique == \A x, y \in keys : x.key = y.key => x = y

OpeningKeys ==
    /\ \A s \in Sessions : Present(s) =>
           ClaimedFor(session[s].key, "OPEN", session[s].branch)
    /\ \A s, t \in Sessions :
           Present(s) /\ Present(t) /\ session[s].key = session[t].key => s = t

ClosureKeys ==
    \A s \in Sessions, n \in Nat :
        n \in DOMAIN closures[s] =>
            /\ ClaimedFor(closures[s][n].key, "CLOSE", s)
            /\ \A m \in DOMAIN closures[s] :
                   closures[s][m].key = closures[s][n].key => m = n

ReopeningKeys ==
    /\ \A r \in reopenings : ClaimedFor(r.key, "REOPEN", r.session)
    /\ \A q, r \in reopenings : q.key = r.key => q = r

\* Every answer names a record that exists and carries the key.
AnswerHolds(x) ==
    \/ /\ x.op = "OPEN" /\ x.sequence = 0
       /\ Present(x.session) /\ session[x.session].key = x.key
    \/ /\ x.op = "MANUAL_MOVEMENT" /\ x.sequence = 0
       /\ ClaimedFor(x.key, "MANUAL_MOVEMENT", x.session)
    \/ /\ x.op = "CLOSE" /\ x.sequence \in DOMAIN closures[x.session]
       /\ closures[x.session][x.sequence].key = x.key
    \/ /\ x.op = "REOPEN"
       /\ [session |-> x.session, sequence |-> x.sequence, key |-> x.key] \in reopenings

AnswersHold == \A x \in answers : AnswerHolds(x)

KeyInv == TypeOK /\ KeysUnique /\ OpeningKeys /\ ClosureKeys /\ ReopeningKeys /\ AnswersHold

LEMMA KeyInvAnswersOnce == KeyInv => KeyAnswersOnce
<1> SUFFICES ASSUME KeyInv, NEW x \in answers, NEW y \in answers, x.key = y.key
             PROVE  x = y
  BY DEF KeyAnswersOnce
<1> DEFINE Source(z) == IF z.op = "OPEN" THEN session[z.session].branch ELSE z.session
<1>1. ASSUME NEW z \in answers PROVE ClaimedFor(z.key, z.op, Source(z))
  <2>1. AnswerHolds(z) /\ z \in AnswerRow
    BY DEF KeyInv, AnswersHold, TypeOK
  <2>2. DOMAIN closures[z.session] \subseteq Nat /\ z.session \in Sessions
    BY <2>1 DEF KeyInv, TypeOK, AnswerRow
  <2>3. CASE z.op = "OPEN"
    BY <2>1, <2>2, <2>3 DEF AnswerHolds, KeyInv, OpeningKeys
  <2>4. CASE z.op = "MANUAL_MOVEMENT"
    BY <2>1, <2>4 DEF AnswerHolds
  <2>5. CASE z.op = "CLOSE"
    BY <2>1, <2>2, <2>5 DEF AnswerHolds, KeyInv, ClosureKeys
  <2>6. CASE z.op = "REOPEN"
    BY <2>1, <2>6 DEF AnswerHolds, KeyInv, ReopeningKeys
  <2> QED
    BY <2>1, <2>3, <2>4, <2>5, <2>6 DEF AnswerHolds
<1>2. x.op = y.op /\ Source(x) = Source(y)
  BY <1>1 DEF KeyInv, KeysUnique, ClaimedFor
<1>3. x \in AnswerRow /\ y \in AnswerRow /\ AnswerHolds(x) /\ AnswerHolds(y)
  BY DEF KeyInv, TypeOK, AnswersHold
<1>4. SUFFICES x.session = y.session /\ x.sequence = y.sequence
  BY <1>2, <1>3 DEF AnswerRow
<1>5. CASE x.op = "OPEN"
  BY <1>2, <1>3, <1>5 DEF AnswerHolds, KeyInv, OpeningKeys, AnswerRow
<1>6. CASE x.op = "MANUAL_MOVEMENT"
  BY <1>2, <1>3, <1>6 DEF AnswerHolds
<1>7. CASE x.op = "CLOSE"
  BY <1>2, <1>3, <1>7 DEF AnswerHolds, KeyInv, ClosureKeys, AnswerRow
<1>8. CASE x.op = "REOPEN"
  BY <1>2, <1>3, <1>8 DEF AnswerHolds, KeyInv, ReopeningKeys
<1> QED
  BY <1>3, <1>5, <1>6, <1>7, <1>8 DEF AnswerHolds

\* What every step does to the keys and to an answer that held before.
LEMMA FreshKey ==
    ASSUME NEW k, ~Claimed(k), KeysUnique, NEW op, NEW source, Claim(k, op, source)
    PROVE  /\ KeysUnique'
           /\ ClaimedFor(k, op, source)'
           /\ \A j, o, src : ClaimedFor(j, o, src) => ClaimedFor(j, o, src)' /\ j # k
BY DEF Claimed, KeysUnique, Claim, ClaimedFor

LEMMA KeyOpen ==
    ASSUME KeyInv, TypeOK', NEW a \in Actors, NEW b \in Branches, NEW float \in Money,
           NEW k \in Keys, CreateSession(a, b, float, k)
    PROVE  KeyInv'
<1>1. PICK new \in Sessions :
          /\ ~Present(new)
          /\ status' = [status EXCEPT ![new] = "OPEN"]
          /\ session' = [session EXCEPT ![new] =
                 [branch |-> b, date |-> today, key |-> k, opener |-> a]]
          /\ Answer(k, "OPEN", new, 0)
  BY DEF CreateSession, SetStatus
<1>2. /\ KeysUnique'
      /\ ClaimedFor(k, "OPEN", b)'
      /\ \A j, o, src : ClaimedFor(j, o, src) => ClaimedFor(j, o, src)' /\ j # k
  BY FreshKey DEF CreateSession, KeyInv, SetStatus
<1>3. UNCHANGED <<closures, reopenings>>
  BY DEF CreateSession, SetStatus
<1>4. \A s \in Sessions : s # new =>
          (Present(s)' <=> Present(s)) /\ session'[s] = session[s]
  BY <1>1 DEF KeyInv, TypeOK, Present
<1>5. Present(new)' /\ session'[new].key = k /\ session'[new].branch = b
  BY <1>1 DEF KeyInv, TypeOK, Present
<1>6. OpeningKeys'
  BY <1>2, <1>4, <1>5 DEF KeyInv, OpeningKeys
<1>7. ClosureKeys' /\ ReopeningKeys'
  BY <1>2, <1>3 DEF KeyInv, ClosureKeys, ReopeningKeys
<1>8. AnswersHold'
  <2>1. ASSUME NEW x \in answers PROVE AnswerHolds(x)'
    BY <1>1, <1>2, <1>3, <1>4 DEF KeyInv, TypeOK, AnswersHold, AnswerHolds, AnswerRow
  <2>2. AnswerHolds([key |-> k, op |-> "OPEN", session |-> new, sequence |-> 0])'
    BY <1>5 DEF AnswerHolds
  <2> QED
    BY <1>1, <2>1, <2>2 DEF AnswersHold, Answer
<1> QED
  BY <1>2, <1>6, <1>7, <1>8 DEF KeyInv

LEMMA KeyManual ==
    ASSUME KeyInv, TypeOK', NEW s \in Sessions, NEW type \in ManualTypes,
           NEW amount \in Money, NEW k \in Keys, CreateManual(s, type, amount, k)
    PROVE  KeyInv'
<1>1. /\ KeysUnique'
      /\ ClaimedFor(k, "MANUAL_MOVEMENT", s)'
      /\ \A j, o, src : ClaimedFor(j, o, src) => ClaimedFor(j, o, src)' /\ j # k
  BY FreshKey DEF CreateManual, KeyInv, Accepts
<1>2. UNCHANGED <<status, session, closures, reopenings>>
  BY DEF CreateManual, Accepts
<1>3. OpeningKeys' /\ ClosureKeys' /\ ReopeningKeys'
  BY <1>1, <1>2 DEF KeyInv, OpeningKeys, ClosureKeys, ReopeningKeys, Present
<1>4. AnswersHold'
  <2>1. ASSUME NEW x \in answers PROVE AnswerHolds(x)'
    BY <1>1, <1>2 DEF KeyInv, AnswersHold, AnswerHolds, Present
  <2>2. AnswerHolds([key |-> k, op |-> "MANUAL_MOVEMENT", session |-> s, sequence |-> 0])'
    BY <1>1 DEF AnswerHolds
  <2> QED
    BY <2>1, <2>2 DEF AnswersHold, Answer, CreateManual, Accepts
<1> QED
  BY <1>1, <1>3, <1>4 DEF KeyInv

LEMMA KeyClose ==
    ASSUME KeyInv, TypeOK', NEW s \in Sessions, NEW actual \in Money,
           NEW explained \in BOOLEAN, NEW k \in Keys,
           CreateClosure(s, actual, explained, k)
    PROVE  KeyInv'
<1>0. PICK n \in Nat : n = Len(closures[s]) + 1
  BY DEF KeyInv, TypeOK
<1>1. /\ KeysUnique'
      /\ ClaimedFor(k, "CLOSE", s)'
      /\ \A j, o, src : ClaimedFor(j, o, src) => ClaimedFor(j, o, src)' /\ j # k
  BY FreshKey DEF CreateClosure, KeyInv, SetStatus, Closure
<1>2. UNCHANGED <<session, reopenings>>
  BY DEF CreateClosure, SetStatus, Closure
<1>3. \A t \in Sessions : Present(t)' <=> Present(t)
  BY DEF CreateClosure, KeyInv, TypeOK, Present, IsOpen, SetStatus, Closure
<1>4. [expected |-> ExpectedCash(s), actual |-> actual, key |-> k] \in ClosureRow
  BY DEF CreateClosure, ClosureRow, SetStatus, Closure
<1>5. /\ \A t \in Sessions : t # s => closures'[t] = closures[t]
      /\ DOMAIN closures[s] = 1 .. Len(closures[s])
      /\ DOMAIN closures'[s] = 1 .. n
      /\ n \in Nat
      /\ closures'[s][n].key = k
      /\ \A m \in DOMAIN closures[s] : closures'[s][m] = closures[s][m]
  BY <1>0, <1>4 DEF CreateClosure, KeyInv, TypeOK, SetStatus, Closure
<1>6. DOMAIN closures'[s] = DOMAIN closures[s] \cup {n} /\ n \notin DOMAIN closures[s]
  BY <1>0, <1>5
<1>7. OpeningKeys' /\ ReopeningKeys'
  BY <1>1, <1>2, <1>3 DEF KeyInv, OpeningKeys, ReopeningKeys
<1>8. ClosureKeys'
  <2>1. \A m \in DOMAIN closures[s] :
            /\ closures[s][m].key # k
            /\ [key |-> closures[s][m].key, op |-> "CLOSE", source |-> s] \in keys'
    BY <1>1, <1>5 DEF KeyInv, ClosureKeys, ClaimedFor
  <2>2. ASSUME NEW t \in Sessions, NEW i \in Nat, i \in DOMAIN closures'[t]
        PROVE  /\ [key |-> closures'[t][i].key, op |-> "CLOSE", source |-> t] \in keys'
               /\ \A m \in DOMAIN closures'[t] :
                      closures'[t][m].key = closures'[t][i].key => m = i
    <3>1. CASE t # s
      BY <1>1, <1>5, <2>2, <3>1 DEF KeyInv, ClosureKeys, ClaimedFor
    <3>2. CASE t = s
      BY <1>1, <1>5, <1>6, <2>1, <2>2, <3>2 DEF KeyInv, ClosureKeys, ClaimedFor
    <3> QED
      BY <3>1, <3>2
  <2> QED
    BY <2>2 DEF ClosureKeys, ClaimedFor
<1>9. AnswersHold'
  <2>1. ASSUME NEW x \in answers PROVE AnswerHolds(x)'
    <3>1. x \in AnswerRow /\ AnswerHolds(x)
      BY DEF KeyInv, TypeOK, AnswersHold
    <3> QED
      BY <1>1, <1>2, <1>3, <1>5, <1>6, <3>1 DEF AnswerHolds, AnswerRow
  <2>2. AnswerHolds([key |-> k, op |-> "CLOSE", session |-> s, sequence |-> n])'
    BY <1>5, <1>6 DEF AnswerHolds
  <2>3. answers' = answers \cup
            {[key |-> k, op |-> "CLOSE", session |-> s, sequence |-> n]}
    BY <1>0 DEF CreateClosure, Answer, SetStatus, Closure
  <2> QED
    BY <2>1, <2>2, <2>3 DEF AnswersHold
<1> QED
  BY <1>1, <1>7, <1>8, <1>9 DEF KeyInv

LEMMA KeyReopen ==
    ASSUME KeyInv, TypeOK', NEW s \in Sessions, NEW k \in Keys, CreateReopening(s, k)
    PROVE  KeyInv'
<1> DEFINE row == [session |-> s, sequence |-> Len(closures[s]), key |-> k]
<1>1. /\ KeysUnique'
      /\ ClaimedFor(k, "REOPEN", s)'
      /\ \A j, o, src : ClaimedFor(j, o, src) => ClaimedFor(j, o, src)' /\ j # k
  BY FreshKey DEF CreateReopening, KeyInv, SetStatus, IsLatest
<1>2. UNCHANGED <<session, closures>> /\ reopenings' = reopenings \cup {row}
  BY DEF CreateReopening, SetStatus, IsLatest
<1>3. \A t \in Sessions : Present(t)' <=> Present(t)
  BY DEF CreateReopening, KeyInv, TypeOK, Present, SetStatus, IsLatest
<1>4. OpeningKeys' /\ ClosureKeys'
  BY <1>1, <1>2, <1>3 DEF KeyInv, OpeningKeys, ClosureKeys
<1>5. ReopeningKeys'
  BY <1>1, <1>2 DEF KeyInv, ReopeningKeys
<1>6. AnswersHold'
  <2>1. ASSUME NEW x \in answers PROVE AnswerHolds(x)'
    <3>1. x \in AnswerRow /\ AnswerHolds(x)
      BY DEF KeyInv, TypeOK, AnswersHold
    <3> QED
      BY <1>1, <1>2, <1>3, <3>1 DEF AnswerHolds, AnswerRow
  <2>2. AnswerHolds([key |-> k, op |-> "REOPEN", session |-> s,
                     sequence |-> Len(closures[s])])'
    BY <1>2 DEF AnswerHolds
  <2> QED
    BY <2>1, <2>2 DEF AnswersHold, Answer, CreateReopening, SetStatus, IsLatest
<1> QED
  BY <1>1, <1>4, <1>5, <1>6 DEF KeyInv

LEMMA KeyReplay == KeyInv /\ Replay /\ TypeOK' => KeyInv'
<1> SUFFICES ASSUME KeyInv, Replay, TypeOK' PROVE KeyInv'
  OBVIOUS
<1>1. UNCHANGED <<today, status, session, keys, movements, closures, reopenings>>
  BY ReplayChangesNothing
<1>2. KeysUnique' /\ OpeningKeys' /\ ClosureKeys' /\ ReopeningKeys'
  BY <1>1 DEF KeyInv, KeysUnique, OpeningKeys, ClosureKeys, ReopeningKeys, Present,
     ClaimedFor
<1>3. \A x : AnswerHolds(x) => AnswerHolds(x)'
  BY <1>1 DEF AnswerHolds, Present, ClaimedFor
<1>4. \E x : answers' = answers \cup {x} /\ AnswerHolds(x)
  <2>1. ASSUME NEW b \in Branches, NEW k \in Keys, ReplayOpen(b, k)
        PROVE  \E x : answers' = answers \cup {x} /\ AnswerHolds(x)
    <3>1. PICK s \in SessionsOf(b) : session[s].key = k /\ Answer(k, "OPEN", s, 0)
      BY <2>1 DEF ReplayOpen
    <3> DEFINE x == [key |-> k, op |-> "OPEN", session |-> s, sequence |-> 0]
    <3>2. AnswerHolds(x) /\ answers' = answers \cup {x}
      BY <3>1 DEF Answer, AnswerHolds, SessionsOf
    <3> QED
      BY <3>2
  <2>2. ASSUME NEW s \in Sessions, NEW k \in Keys, ReplayManual(s, k)
        PROVE  \E x : answers' = answers \cup {x} /\ AnswerHolds(x)
    <3> DEFINE x == [key |-> k, op |-> "MANUAL_MOVEMENT", session |-> s, sequence |-> 0]
    <3>1. AnswerHolds(x) /\ answers' = answers \cup {x}
      BY <2>2 DEF ReplayManual, Answer, AnswerHolds
    <3> QED
      BY <3>1
  <2>3. ASSUME NEW s \in Sessions, NEW k \in Keys, ReplayClose(s, k)
        PROVE  \E x : answers' = answers \cup {x} /\ AnswerHolds(x)
    <3>1. PICK n \in DOMAIN closures[s] :
              closures[s][n].key = k /\ Answer(k, "CLOSE", s, n)
      BY <2>3 DEF ReplayClose
    <3> DEFINE x == [key |-> k, op |-> "CLOSE", session |-> s, sequence |-> n]
    <3>2. AnswerHolds(x) /\ answers' = answers \cup {x}
      BY <3>1 DEF Answer, AnswerHolds
    <3> QED
      BY <3>2
  <2>4. ASSUME NEW s \in Sessions, NEW k \in Keys, ReplayReopen(s, k)
        PROVE  \E x : answers' = answers \cup {x} /\ AnswerHolds(x)
    <3>1. PICK r \in reopenings :
              r.session = s /\ r.key = k /\ Answer(k, "REOPEN", s, r.sequence)
      BY <2>4 DEF ReplayReopen
    <3>2. r = [session |-> s, sequence |-> r.sequence, key |-> k]
      BY <3>1 DEF KeyInv, TypeOK, ReopeningRow
    <3>3. [session |-> s, sequence |-> r.sequence, key |-> k] \in reopenings
      BY <3>2
    <3> DEFINE x == [key |-> k, op |-> "REOPEN", session |-> s, sequence |-> r.sequence]
    <3>4. AnswerHolds(x)
      BY <3>3 DEF AnswerHolds
    <3>5. answers' = answers \cup {x}
      BY <3>1 DEF Answer
    <3> QED
      BY <3>4, <3>5
  <2> QED
    BY <2>1, <2>2, <2>3, <2>4 DEF Replay
<1> QED
  BY <1>2, <1>3, <1>4 DEF KeyInv, AnswersHold

LEMMA KeyInit == Init => KeyInv
<1> SUFFICES ASSUME Init PROVE KeyInv
  OBVIOUS
<1>1. TypeOK
  BY TypeInit
<1>2. \A s \in Sessions : ~Present(s) /\ DOMAIN closures[s] = {}
  BY DEF Init, Present
<1> QED
  BY <1>1, <1>2 DEF Init, KeyInv, KeysUnique, OpeningKeys, ClosureKeys,
                     ReopeningKeys, AnswersHold

LEMMA KeyStep == KeyInv /\ [Next]_vars => KeyInv'
<1> SUFFICES ASSUME KeyInv, [Next]_vars PROVE KeyInv'
  OBVIOUS
<1>1. TypeOK'
  BY TypeStep DEF KeyInv
<1>2. ASSUME UNCHANGED <<status, session, keys, closures, reopenings, answers>>
      PROVE  KeyInv'
  BY <1>1, <1>2 DEF KeyInv, KeysUnique, OpeningKeys, ClosureKeys, ReopeningKeys,
                    AnswersHold, AnswerHolds, Present, ClaimedFor
<1> QED
  BY <1>1, <1>2, StepCases, KeyOpen, KeyManual, KeyClose, KeyReopen, KeyReplay
     DEF RecordSourceMovement, NextDay, vars, Accepts, Recorded

\* A key answers with one record for ever, in whatever order the operations of
\* the business come.
THEOREM KeyedCallsAnswerOnce == Spec => []KeyAnswersOnce
<1>1. Spec => []KeyInv
  BY KeyInit, KeyStep, PTL DEF Spec
<1> QED
  BY <1>1, KeyInvAnswersOnce, PTL

-----------------------------------------------------------------------------
(* Movements.                                                              *)

\* A movement without a source is named by its session or by its key.
MovementsNamed ==
    \A m \in movements :
        /\ Present(m.session)
        /\ m.type = "OPENING_FLOAT" => m.ref = m.session
        /\ m.type \in ManualTypes => Claimed(m.ref)

MovementInv == TypeOK /\ MovementsNamed /\ SourceRecordedOnce

LEMMA MovementStep == MovementInv /\ [Next]_vars => MovementInv'
<1> SUFFICES ASSUME MovementInv, [Next]_vars PROVE MovementInv'
  OBVIOUS
<1>1. TypeOK'
  BY TypeStep DEF MovementInv
<1>2. /\ \A s \in Sessions : Present(s) => Present(s)'
      /\ \A k : Claimed(k) => Claimed(k)'
  <2>1. CASE Replay
    BY <2>1, ReplayChangesNothing DEF Present, Claimed
  <2> QED
    BY <2>1, StepCases
       DEF MovementInv, TypeOK, Present, Claimed, Claim, CreateSession, CreateManual,
           CreateClosure, CreateReopening, RecordSourceMovement, NextDay, vars,
              SetStatus, Closure, IsLatest, Accepts, Recorded
<1>3. \A m \in movements : m \in MovementRow
  BY DEF MovementInv, TypeOK
<1>4. ASSUME UNCHANGED movements PROVE MovementInv'
  BY <1>1, <1>2, <1>3, <1>4
     DEF MovementInv, MovementsNamed, SourceRecordedOnce, MovementRow
<1>5. ASSUME NEW a \in Actors, NEW b \in Branches, NEW float \in Money, NEW k \in Keys,
             CreateSession(a, b, float, k)
      PROVE  MovementInv'
  <2>1. PICK s \in Sessions :
            /\ ~Present(s) /\ status' = [status EXCEPT ![s] = "OPEN"]
            /\ movements' = movements \cup
                  {[session |-> s, type |-> "OPENING_FLOAT", delta |-> float, ref |-> s]}
    BY <1>5 DEF CreateSession, SetStatus
  <2>2. Present(s)'
    BY <2>1 DEF MovementInv, TypeOK, Present
  <2>3. MovementsNamed'
    BY <1>2, <1>3, <2>1, <2>2 DEF MovementInv, MovementsNamed, MovementRow, ManualTypes
  <2>4. SourceRecordedOnce'
    BY <1>3, <2>1 DEF MovementInv, MovementsNamed, SourceRecordedOnce
  <2> QED
    BY <1>1, <2>3, <2>4 DEF MovementInv
<1>6. ASSUME NEW a \in Actors, NEW s \in Sessions, NEW source \in Sources,
             NEW delta \in (-MaxMoney) .. MaxMoney, RecordSourceMovement(a, s, source,
                delta)
      PROVE  MovementInv'
  <2>1. SourceType[source] \in SourceTypes
    BY SourceTypeAssumption
  <2>2. MovementsNamed'
    BY <1>2, <1>3, <1>6, <2>1
       DEF MovementInv, MovementsNamed, RecordSourceMovement, MovementRow, ManualTypes,
           SourceTypes, PositiveTypes, NegativeTypes, Accepts, Recorded
  <2>3. SourceRecordedOnce'
    BY <1>3, <1>6 DEF MovementInv, SourceRecordedOnce, RecordSourceMovement, Accepts,
       Recorded
  <2> QED
    BY <1>1, <2>2, <2>3 DEF MovementInv
<1>7. ASSUME NEW s \in Sessions, NEW type \in ManualTypes, NEW amount \in Money,
             NEW k \in Keys, CreateManual(s, type, amount, k)
      PROVE  MovementInv'
  <2>1. ~Claimed(k) /\ Claimed(k)' /\ IsOpen(s) /\ type # "OPENING_FLOAT"
    <3>1. Claimed(k)'
      <4>1. [key |-> k, op |-> "MANUAL_MOVEMENT", source |-> s] \in keys'
        BY <1>7 DEF CreateManual, Claim, Accepts
      <4>2. [key |-> k, op |-> "MANUAL_MOVEMENT", source |-> s].key = k
        OBVIOUS
      <4> QED
        BY <4>1, <4>2 DEF Claimed
    <3> QED
      BY <1>7, <3>1 DEF CreateManual, ManualTypes, Accepts
  <2>2. \E delta : movements' = movements \cup
            {[session |-> s, type |-> type, delta |-> delta, ref |-> k]}
    BY <1>7 DEF CreateManual, Accepts
  <2>3. MovementsNamed'
    BY <1>2, <1>3, <2>1, <2>2 DEF MovementInv, MovementsNamed, MovementRow, Present,
       IsOpen
  <2>4. SourceRecordedOnce'
    BY <1>3, <2>1, <2>2 DEF MovementInv, MovementsNamed, SourceRecordedOnce
  <2> QED
    BY <1>1, <2>3, <2>4 DEF MovementInv
<1> QED
  BY <1>4, <1>5, <1>6, <1>7, StepCases, ReplayChangesNothing
     DEF CreateClosure, CreateReopening, NextDay, vars, SetStatus, Closure, IsLatest

\* A source moves cash once, in one session, whatever is posted, closed and
\* reopened around it.
THEOREM SourcesRecordedOnce == Spec => []SourceRecordedOnce
<1>1. Init => MovementInv
  BY TypeInit DEF Init, MovementInv, MovementsNamed, SourceRecordedOnce
<1>2. MovementInv => SourceRecordedOnce
  BY DEF MovementInv
<1> QED
  BY <1>1, <1>2, MovementStep, PTL DEF Spec

-----------------------------------------------------------------------------
(* What is in the drawer.                                                  *)

AmountsOf(rows) == [m \in rows |-> m.delta]
CashInv == TypeOK /\ IsFiniteSet(movements) /\ ExpectedNeverNegative

LEMMA LedgerIsSum ==
    ASSUME TypeOK, IsFiniteSet(movements), NEW s \in Sessions
    PROVE  /\ IntegerSum(AmountsOf(Ledger(s)))
           /\ DOMAIN AmountsOf(Ledger(s)) = Ledger(s)
           /\ ExpectedCash(s) = SumFunction(AmountsOf(Ledger(s)))
           /\ ExpectedCash(s) \in Int
<1>1. IsFiniteSet(Ledger(s))
  BY FS_Subset DEF Ledger
<1>2. \A m \in Ledger(s) : m.delta \in Int
  BY DEF TypeOK, Ledger, MovementRow
<1>3. IntegerSum(AmountsOf(Ledger(s))) /\ DOMAIN AmountsOf(Ledger(s)) = Ledger(s)
  BY <1>1, <1>2 DEF AmountsOf, IntegerSum
<1>4. ExpectedCash(s) = SumFunction(AmountsOf(Ledger(s)))
  BY DEF ExpectedCash, Total, AmountsOf
<1> QED BY <1>3, <1>4, SumFunctionType

\* A new movement adds its amount to its session and to no other.
LEMMA MovementAddsUp ==
    ASSUME TypeOK, IsFiniteSet(movements), NEW m \in MovementRow,
           movements' = movements \cup {m}
    PROVE  /\ IsFiniteSet(movements')
           /\ \A s \in Sessions : s # m.session => ExpectedCash(s)' = ExpectedCash(s)
           /\ \/ ExpectedCash(m.session)' = ExpectedCash(m.session)
              \/ ExpectedCash(m.session)' = ExpectedCash(m.session) + m.delta
<1>1. IsFiniteSet(movements')
  BY FS_AddElement
<1>2. ASSUME NEW s \in Sessions, s # m.session PROVE ExpectedCash(s)' = ExpectedCash(s)
  <2>1. Ledger(s)' = Ledger(s)
    BY <1>2 DEF Ledger
  <2> QED BY <2>1 DEF ExpectedCash, Total
<1>3. CASE m \in movements
  <2>1. movements' = movements
    BY <1>3
  <2>2. ExpectedCash(m.session)' = ExpectedCash(m.session)
    BY <2>1 DEF ExpectedCash, Ledger
  <2> QED BY <1>1, <1>2, <2>2
<1>4. CASE m \notin movements
  <2> DEFINE s == m.session
             f == AmountsOf(Ledger(s))
             g == AmountsOf(Ledger(s)')
  <2>1. s \in Sessions /\ m.delta \in Int
    BY DEF MovementRow
  <2>2. Ledger(s)' = Ledger(s) \cup {m} /\ m \notin Ledger(s)
    BY <1>4 DEF Ledger
  <2>3. IntegerSum(f) /\ DOMAIN f = Ledger(s) /\ ExpectedCash(s) = SumFunction(f)
    BY <2>1, LedgerIsSum
  <2>4. ExpectedCash(s)' = SumFunction(g)
    BY DEF ExpectedCash, Total, AmountsOf
  <2>5. /\ DOMAIN g = DOMAIN f \cup {m} /\ g[m] = m.delta
        /\ \A y \in DOMAIN f : g[y] = f[y]
    BY <2>2 DEF AmountsOf
  <2> HIDE DEF f, g
  <2>6. SumFunction(g) = SumFunction(f) + g[m]
    BY <2>1, <2>2, <2>3, <2>5, SumFunctionAdd
  <2> QED BY <1>1, <1>2, <2>3, <2>4, <2>5, <2>6
<1> QED BY <1>3, <1>4

\* What a step does to the drawer of a session.
LEMMA CashStep ==
    ASSUME CashInv, [Next]_vars
    PROVE  /\ IsFiniteSet(movements')
           /\ \A s \in Sessions : ExpectedCash(s)' \in Nat
<1>1. TypeOK /\ IsFiniteSet(movements) /\ \A s \in Sessions : ExpectedCash(s) \in Nat
  BY LedgerIsSum DEF CashInv, ExpectedNeverNegative
<1>2. ASSUME UNCHANGED movements
      PROVE  IsFiniteSet(movements') /\ \A s \in Sessions : ExpectedCash(s)' \in Nat
  <2>1. \A s \in Sessions : ExpectedCash(s)' = ExpectedCash(s)
    BY <1>2 DEF ExpectedCash, Ledger
  <2> QED BY <1>1, <1>2, <2>1
<1>3. ASSUME NEW m \in MovementRow, movements' = movements \cup {m},
             ExpectedCash(m.session) + m.delta >= 0
      PROVE  IsFiniteSet(movements') /\ \A s \in Sessions : ExpectedCash(s)' \in Nat
  <2>1. m.delta \in Int /\ m.session \in Sessions
    BY DEF MovementRow
  <2> QED BY <1>1, <1>3, <2>1, MovementAddsUp
<1>4. ASSUME NEW a \in Actors, NEW b \in Branches, NEW float \in Money, NEW k \in Keys,
             CreateSession(a, b, float, k)
      PROVE  IsFiniteSet(movements') /\ \A s \in Sessions : ExpectedCash(s)' \in Nat
  <2>1. PICK s \in Sessions : movements' = movements \cup
            {[session |-> s, type |-> "OPENING_FLOAT", delta |-> float, ref |-> s]}
    BY <1>4 DEF CreateSession
  <2> DEFINE m == [session |-> s, type |-> "OPENING_FLOAT", delta |-> float, ref |-> s]
  <2>2. m \in MovementRow /\ m.session = s /\ m.delta = float /\ float \in Nat
    BY MaxMoneyAssumption DEF MovementRow, MovementTypes, Money
  <2> HIDE DEF m
  <2>3. ExpectedCash(m.session) + m.delta >= 0
    BY <1>1, <2>2
  <2> QED BY <1>3, <2>1, <2>2, <2>3 DEF m
<1>5. ASSUME NEW a \in Actors, NEW s \in Sessions, NEW source \in Sources,
             NEW delta \in (-MaxMoney) .. MaxMoney, RecordSourceMovement(a, s, source, delta)
      PROVE  IsFiniteSet(movements') /\ \A t \in Sessions : ExpectedCash(t)' \in Nat
  <2> DEFINE m == [session |-> s, type |-> SourceType[source], delta |-> delta, ref |-> source]
  <2>1. m \in MovementRow /\ m.session = s /\ m.delta = delta
    BY MaxMoneyAssumption, SourceTypeAssumption DEF MovementRow, MovementTypes
  <2>2. movements' = movements \cup {m} /\ (delta < 0 => ExpectedCash(s) + delta >= 0)
    BY <1>5 DEF RecordSourceMovement, Accepts
  <2> HIDE DEF m
  <2>3. delta \in Int /\ ExpectedCash(s) \in Nat
    BY <1>1, MaxMoneyAssumption
  <2>4. ExpectedCash(m.session) + m.delta >= 0
    BY <2>1, <2>2, <2>3
  <2> QED BY <1>3, <2>1, <2>2, <2>4
<1>6. ASSUME NEW s \in Sessions, NEW type \in ManualTypes, NEW amount \in Money,
             NEW k \in Keys, CreateManual(s, type, amount, k)
      PROVE  IsFiniteSet(movements') /\ \A t \in Sessions : ExpectedCash(t)' \in Nat
  <2> DEFINE delta == IF type = "CASH_ADDED" THEN amount ELSE -amount
             m == [session |-> s, type |-> type, delta |-> delta, ref |-> k]
  <2>1. movements' = movements \cup {m} /\ (delta < 0 => ExpectedCash(s) + delta >= 0)
    BY <1>6 DEF CreateManual, Accepts
  <2>2. delta \in Int /\ ExpectedCash(s) \in Nat
    BY <1>1, MaxMoneyAssumption DEF Money
  <2> HIDE DEF delta
  <2>3. m \in MovementRow /\ m.session = s /\ m.delta = delta
    BY <2>2 DEF MovementRow, MovementTypes
  <2> HIDE DEF m
  <2>4. ExpectedCash(m.session) + m.delta >= 0
    BY <2>1, <2>2, <2>3
  <2> QED BY <1>3, <2>1, <2>3, <2>4
<1> QED
  BY <1>2, <1>4, <1>5, <1>6, StepCases, ReplayChangesNothing
     DEF CreateClosure, CreateReopening, NextDay, vars

LEMMA CashInit == Init => CashInv /\ \A s \in Sessions : ExpectedCash(s) = 0
<1> SUFFICES ASSUME Init PROVE CashInv /\ \A s \in Sessions : ExpectedCash(s) = 0
  OBVIOUS
<1>1. TypeOK /\ IsFiniteSet(movements)
  BY TypeInit, FS_EmptySet DEF Init
<1>2. ASSUME NEW s \in Sessions PROVE ExpectedCash(s) = 0
  <2>1. Ledger(s) = {}
    BY DEF Init, Ledger
  <2>2. ExpectedCash(s) = SumFunction(AmountsOf({})) /\ DOMAIN AmountsOf({}) = {}
    BY <2>1 DEF ExpectedCash, Total, AmountsOf
  <2> QED BY <2>2, SumFunctionOfNothing
<1> QED BY <1>1, <1>2 DEF CashInv, ExpectedNeverNegative

LEMMA CashInvariant == Spec => []CashInv
<1>1. CashInv /\ [Next]_vars => CashInv'
  BY TypeStep, CashStep DEF CashInv, ExpectedNeverNegative
<1> QED BY <1>1, CashInit, PTL DEF Spec

\* _expected_cash_amount is the sum of the rows, and the check against it is made
\* under the session's lock: no order of refunds, expenses and removals overdraws.
THEOREM DrawerNeverOwed == Spec => []ExpectedNeverNegative
<1>1. CashInv => ExpectedNeverNegative
  BY DEF CashInv
<1> QED BY <1>1, CashInvariant, PTL

-----------------------------------------------------------------------------
(* The services implement the drawer.                                      *)

PlaceOf(s) == IF Present(s) THEN session[s].branch ELSE "NOWHERE"
CountsOf(s) == [n \in DOMAIN closures[s] |-> closures[s][n].expected]
place == [s \in Sessions |-> PlaceOf(s)]
open == {s \in Sessions : IsOpen(s)}
cash == [s \in Sessions |-> ExpectedCash(s)]
counted == [s \in Sessions |-> CountsOf(s)]

LEMMA DrawerInit == Init => Drawer!Init
<1> SUFFICES ASSUME Init PROVE Drawer!Init
  OBVIOUS
<1>1. \A s \in Sessions : ExpectedCash(s) = 0
  BY CashInit
<1>2. \A s \in Sessions : ~Present(s) /\ ~IsOpen(s) /\ closures[s] = <<>>
  BY DEF Init, Present, IsOpen
<1> QED BY <1>1, <1>2 DEF Drawer!Init

\* A movement is the drawer's business alone.
LEMMA DrawerMoves ==
    ASSUME \A t \in Sessions : ExpectedCash(t)' \in Nat,
           NEW s \in Sessions, IsOpen(s), NEW m, m.session = s,
           movements' = movements \cup {m}, UNCHANGED <<status, session, closures>>
    PROVE  Drawer!Next
<1>1. \A t \in Sessions : t # s => ExpectedCash(t)' = ExpectedCash(t)
  BY DEF ExpectedCash, Ledger
<1>2. ExpectedCash(s)' \in Nat
  OBVIOUS
<1>3. place' = place /\ open' = open /\ counted' = counted
  BY DEF place, open, counted, PlaceOf, CountsOf, Present, IsOpen
<1>4. cash'[s] \in Nat /\ cash' = [cash EXCEPT ![s] = cash'[s]]
  BY <1>1, <1>2 DEF cash
<1>5. s \in open
  BY DEF open
<1>6. Drawer!Move(s)
  BY <1>3, <1>4, <1>5 DEF Drawer!Move, place, open, cash, counted, PlaceOf, CountsOf
<1> QED BY <1>6 DEF Drawer!Next

LEMMA DrawerOpens ==
    ASSUME TypeOK, \A t \in Sessions : ExpectedCash(t)' \in Nat,
           NEW b \in Branches, NEW s \in Sessions, NEW m, m.session = s,
           ~Present(s), \A t \in SessionsOf(b) : ~IsOpen(t), SetStatus(s, "OPEN"),
           NEW row, row.branch = b, session' = [session EXCEPT ![s] = row],
           movements' = movements \cup {m}, UNCHANGED closures
    PROVE  Drawer!Next
<1>1. \A t \in Sessions : t # s => ExpectedCash(t)' = ExpectedCash(t)
  BY DEF ExpectedCash, Ledger
<1>2. ExpectedCash(s)' \in Nat
  OBVIOUS
<1>3. /\ \A t \in Sessions : t # s => /\ Present(t)' = Present(t) /\ IsOpen(t)' = IsOpen(t)
                                      /\ PlaceOf(t)' = PlaceOf(t)
      /\ Present(s)' /\ IsOpen(s)' /\ PlaceOf(s)' = b /\ PlaceOf(s) = "NOWHERE"
  BY DEF TypeOK, SetStatus, Present, IsOpen, PlaceOf
<1>4. /\ place[s] = "NOWHERE" /\ place' = [place EXCEPT ![s] = b]
      /\ open' = open \cup {s} /\ counted' = counted
  BY <1>3 DEF place, open, counted, CountsOf
<1>5. cash'[s] \in Nat /\ cash' = [cash EXCEPT ![s] = cash'[s]]
  BY <1>1, <1>2 DEF cash
<1>6. \A t \in open : place[t] # b
  BY DEF open, place, PlaceOf, SessionsOf, IsOpen, Present
<1>7. Drawer!Open(s, b)
  BY <1>4, <1>5, <1>6
     DEF Drawer!Open, Drawer!NoneOpenAt, place, open, cash, counted, PlaceOf, CountsOf
<1> QED BY <1>7 DEF Drawer!Next

LEMMA DrawerCloses ==
    ASSUME TypeOK, NEW s \in Sessions, NEW actual \in Money, NEW explained, NEW k \in Keys,
           CreateClosure(s, actual, explained, k)
    PROVE  Drawer!Next
<1> DEFINE new == [expected |-> ExpectedCash(s), actual |-> actual, key |-> k]
<1>1. /\ closures' = [closures EXCEPT ![s] = Append(closures[s], new)]
      /\ status' = [status EXCEPT ![s] = "CLOSED"] /\ IsOpen(s)
      /\ UNCHANGED <<session, movements>> /\ ExpectedCash(s) \in Nat
  BY DEF CreateClosure, Closure, SetStatus
<1>2. new \in ClosureRow /\ new.expected = ExpectedCash(s)
  BY <1>1 DEF ClosureRow
<1>3. closures[s] \in Seq(ClosureRow)
  BY DEF TypeOK
<1> HIDE DEF new
<1>4. CountsOf(s)' = Append(CountsOf(s), ExpectedCash(s))
  <2> DEFINE n == Len(closures[s])
             after == Append(closures[s], new)
  <2>1. /\ n \in Nat /\ DOMAIN closures[s] = 1 .. n /\ DOMAIN after = 1 .. (n + 1)
        /\ \A i \in 1 .. n : after[i] = closures[s][i]
        /\ after[n + 1] = new
    BY <1>2, <1>3
  <2>2. closures'[s] = after
    BY <1>1 DEF TypeOK
  <2> HIDE DEF after, n
  <2>3. CountsOf(s)' = [i \in 1 .. (n + 1) |-> after[i].expected]
    BY <2>1, <2>2 DEF CountsOf
  <2>4. CountsOf(s) = [i \in 1 .. n |-> closures[s][i].expected]
    BY <2>1 DEF CountsOf
  <2>5. Len(CountsOf(s)) = n /\ DOMAIN CountsOf(s) = 1 .. n
    <3>1. \A i \in 1 .. n : closures[s][i] \in ClosureRow
      BY <1>3, <2>1
    <3>2. CountsOf(s) \in Seq(Nat)
      BY <2>1, <2>4, <3>1 DEF ClosureRow
    <3> QED BY <2>1, <2>4, <3>2
  <2>6. \A i \in 1 .. (n + 1) : after[i].expected = IF i = n + 1 THEN ExpectedCash(s)
                                                                ELSE closures[s][i].expected
    BY <1>2, <2>1
  <2>7. Append(CountsOf(s), ExpectedCash(s)) =
            [i \in 1 .. (n + 1) |-> IF i = n + 1 THEN ExpectedCash(s) ELSE closures[s][i].expected]
    BY <2>1, <2>4, <2>5
  <2> QED BY <2>3, <2>6, <2>7
<1>5. \A t \in Sessions : /\ ExpectedCash(t)' = ExpectedCash(t)
                          /\ t # s => CountsOf(t)' = CountsOf(t)
  BY <1>1 DEF ExpectedCash, Ledger, CountsOf, TypeOK
<1>6. /\ place' = place /\ cash' = cash /\ s \in open /\ open' = open \ {s}
      /\ counted' = [counted EXCEPT ![s] = Append(counted[s], cash[s])]
  BY <1>1, <1>4, <1>5 DEF place, cash, open, counted, PlaceOf, TypeOK, Present, IsOpen
<1>7. Drawer!Close(s)
  BY <1>6 DEF Drawer!Close, place, open, cash, counted, PlaceOf, CountsOf
<1> QED BY <1>7 DEF Drawer!Next

LEMMA DrawerReopens ==
    ASSUME TypeOK, NEW s \in Sessions, NEW k \in Keys, Present(s), CreateReopening(s, k)
    PROVE  Drawer!Next
<1>1. /\ status' = [status EXCEPT ![s] = "OPEN"] /\ status[s] = "CLOSED"
      /\ UNCHANGED <<session, movements, closures>> /\ Len(closures[s]) > 0
      /\ \A t \in SessionsOf(session[s].branch) : t # s => ~IsOpen(t)
  BY DEF CreateReopening, SetStatus
<1>2. s \notin open /\ place' = place /\ cash' = cash /\ counted' = counted
      /\ open' = open \cup {s}
  BY <1>1 DEF place, cash, open, counted, PlaceOf, CountsOf, ExpectedCash, Ledger,
              TypeOK, Present, IsOpen
<1>3. counted[s] # <<>>
  <2>1. closures[s] \in Seq(ClosureRow)
    BY DEF TypeOK
  <2>2. 1 \in DOMAIN closures[s]
    BY <1>1, <2>1
  <2>3. 1 \in DOMAIN counted[s]
    BY <2>2 DEF counted, CountsOf
  <2> QED BY <2>3
<1>4. \A t \in open : place[t] # place[s]
  BY <1>1 DEF open, place, PlaceOf, SessionsOf, IsOpen, Present
<1>5. Drawer!Reopen(s)
  BY <1>2, <1>3, <1>4
     DEF Drawer!Reopen, Drawer!NoneOpenAt, place, open, cash, counted, PlaceOf, CountsOf
<1> QED BY <1>5 DEF Drawer!Next

LEMMA DrawerStep ==
    ASSUME CashInv, [Next]_vars
    PROVE  [Drawer!Next]_Drawer!vars
<1>0. TypeOK /\ \A t \in Sessions : ExpectedCash(t)' \in Nat
  BY CashStep DEF CashInv
<1>1. ASSUME UNCHANGED <<status, session, movements, closures>>
      PROVE  UNCHANGED Drawer!vars
  BY <1>1 DEF Drawer!vars, ExpectedCash, Ledger, Present, IsOpen
<1>2. ASSUME NEW a \in Actors, NEW b \in Branches, NEW float \in Money, NEW k \in Keys,
             CreateSession(a, b, float, k)
      PROVE  Drawer!Next
  <2>1. PICK s \in Sessions :
            /\ ~Present(s)
            /\ SetStatus(s, "OPEN")
            /\ session' = [session EXCEPT ![s] =
                   [branch |-> b, date |-> today, key |-> k, opener |-> a]]
            /\ movements' = movements \cup
                   {[session |-> s, type |-> "OPENING_FLOAT", delta |-> float, ref |-> s]}
    BY <1>2 DEF CreateSession
  <2> DEFINE row == [branch |-> b, date |-> today, key |-> k, opener |-> a]
             m == [session |-> s, type |-> "OPENING_FLOAT", delta |-> float, ref |-> s]
  <2>2. row.branch = b /\ m.session = s
    OBVIOUS
  <2>3. (\A t \in SessionsOf(b) : ~IsOpen(t)) /\ UNCHANGED closures
    BY <1>2 DEF CreateSession
  <2> HIDE DEF row, m
  <2> QED BY <1>0, <2>1, <2>2, <2>3, DrawerOpens DEF row, m
<1>3. ASSUME NEW a \in Actors, NEW s \in Sessions, NEW source \in Sources,
             NEW delta \in (-MaxMoney) .. MaxMoney, RecordSourceMovement(a, s, source, delta)
      PROVE  Drawer!Next
  <2> DEFINE m == [session |-> s, type |-> SourceType[source], delta |-> delta, ref |-> source]
  <2>1. m.session = s
    OBVIOUS
  <2>2. IsOpen(s) /\ movements' = movements \cup {m} /\ UNCHANGED <<status, session, closures>>
    BY <1>3 DEF RecordSourceMovement, Accepts
  <2> HIDE DEF m
  <2> QED BY <1>0, <2>1, <2>2, DrawerMoves
<1>4. ASSUME NEW s \in Sessions, NEW type \in ManualTypes, NEW amount \in Money,
             NEW k \in Keys, CreateManual(s, type, amount, k)
      PROVE  Drawer!Next
  <2> DEFINE m == [session |-> s, type |-> type,
                   delta |-> IF type = "CASH_ADDED" THEN amount ELSE -amount, ref |-> k]
  <2>1. m.session = s
    OBVIOUS
  <2>2. IsOpen(s) /\ movements' = movements \cup {m} /\ UNCHANGED <<status, session, closures>>
    BY <1>4 DEF CreateManual, Accepts
  <2> HIDE DEF m
  <2> QED BY <1>0, <2>1, <2>2, DrawerMoves
<1> QED
  BY <1>0, <1>1, <1>2, <1>3, <1>4, DrawerCloses, DrawerReopens, StepCases,
     ReplayChangesNothing DEF NextDay, vars

-----------------------------------------------------------------------------
(* What the other apps see is the newest session.                          *)

LEMMA Least ==
    ASSUME NEW S \in SUBSET Nat, S # {}
    PROVE  \E m \in S : \A k \in S : ~(k < m)
<1>1. \E x \in S : \A y \in S : ~(<<y, x>> \in OpToRel(<, Nat))
  BY NatLessThanWellFounded, WFMin
<1> QED BY <1>1 DEF OpToRel

CurrentIsNewest(b) ==
    /\ Current(b) \in SessionsOf(b) /\ IsNewest(Current(b), b)
    /\ HasOpen(b) <=> IsOpen(Current(b))
    /\ \A s \in SessionsOf(b) : IsNewest(s, b) \/ IsOpen(s) => s = Current(b)
    /\ session[Current(b)].date \in 1 .. today /\ today \in Nat

LEMMA CurrentFacts ==
    ASSUME NEW b \in Branches
    PROVE  LifecycleInv /\ SessionsOf(b) # {} => CurrentIsNewest(b)
<1> SUFFICES ASSUME LifecycleInv, SessionsOf(b) # {} PROVE CurrentIsNewest(b)
  OBVIOUS
<1>1. \A s \in SessionsOf(b) : s \in Sessions /\ Present(s) /\ session[s].branch = b
                                   /\ session[s].date \in 1 .. today /\ today \in Nat
  BY MaxDayAssumption DEF LifecycleInv, TypeOK, SessionsOf, SessionRow, Days, DatesOrdered
<1>2. ASSUME NEW s \in SessionsOf(b), IsOpen(s) PROVE IsNewest(s, b)
  <2>1. \A t \in SessionsOf(b) : t # s => session[t].date < session[s].date
    BY <1>1, <1>2 DEF LifecycleInv, OpenSessionIsLatest
  <2> QED BY <1>1, <2>1 DEF IsNewest
<1>3. ASSUME NEW s \in SessionsOf(b), NEW t \in SessionsOf(b), IsNewest(s, b), IsNewest(t, b)
      PROVE  s = t
  <2>1. session[s].date = session[t].date
    BY <1>1, <1>3 DEF IsNewest
  <2> QED BY <1>1, <2>1 DEF LifecycleInv, DatesOrdered
<1>4. \E s \in SessionsOf(b) : IsNewest(s, b)
  <2> DEFINE ages == {today - session[s].date : s \in SessionsOf(b)}
  <2>1. ages \in SUBSET Nat /\ ages # {}
    BY <1>1
  <2>2. PICK m \in ages : \A k \in ages : ~(k < m)
    <3> HIDE DEF ages
    <3> QED BY <2>1, Least
  <2>3. PICK s \in SessionsOf(b) : m = today - session[s].date
    BY <2>2
  <2>4. ASSUME NEW t \in SessionsOf(b) PROVE session[t].date <= session[s].date
    <3>1. ~(today - session[t].date < today - session[s].date)
      BY <2>2, <2>3
    <3> QED BY <1>1, <3>1
  <2> QED BY <2>4 DEF IsNewest
<1>5. \E s \in SessionsOf(b) : IF HasOpen(b) THEN IsOpen(s) ELSE IsNewest(s, b)
  BY <1>4 DEF HasOpen
<1>6. Current(b) \in SessionsOf(b)
      /\ IF HasOpen(b) THEN IsOpen(Current(b)) ELSE IsNewest(Current(b), b)
  BY <1>5 DEF Current
<1>7. IsNewest(Current(b), b) /\ (HasOpen(b) <=> IsOpen(Current(b)))
  BY <1>2, <1>6 DEF HasOpen
<1> QED BY <1>1, <1>2, <1>3, <1>6, <1>7 DEF CurrentIsNewest

LEMMA CurrentAfter ==
    ASSUME NEW b \in Branches
    PROVE  (LifecycleInv /\ SessionsOf(b) # {} => CurrentIsNewest(b))'
<1>1. LifecycleInv /\ SessionsOf(b) # {} => CurrentIsNewest(b)
  BY CurrentFacts
<1> QED BY <1>1, PTL

\* Only an opening makes another session the newest.
LEMMA SameCurrent ==
    ASSUME LifecycleInv, LifecycleInv', NEW b \in Branches, SessionsOf(b)' = SessionsOf(b),
           \A s \in SessionsOf(b) : session'[s] = session[s], SessionsOf(b) # {}
    PROVE  Current(b)' = Current(b)
<1>1. Current(b) \in SessionsOf(b) /\ IsNewest(Current(b), b)
  BY CurrentFacts DEF CurrentIsNewest
<1>2. \A s \in SessionsOf(b)' : IsNewest(s, b)' => s = Current(b)'
  BY CurrentAfter DEF CurrentIsNewest
<1>3. \A s \in SessionsOf(b) : IsNewest(s, b)' <=> IsNewest(s, b)
  BY DEF IsNewest
<1> QED BY <1>1, <1>2, <1>3

\* What is seen of a branch before and after a step that leaves its rows alone.
SameSessions(b) ==
    SessionsOf(b)' = SessionsOf(b) /\ \A s \in SessionsOf(b) : session'[s] = session[s]

LEMMA NewestKeeps ==
    ASSUME LifecycleInv, LifecycleInv', NEW b \in Branches, SameSessions(b),
           \A s \in SessionsOf(b) : status'[s] = status[s] /\ ExpectedCash(s)' = ExpectedCash(s)
    PROVE  UNCHANGED BranchDrawer(b)!vars
<1>1. HasOpen(b)' = HasOpen(b)
  BY DEF HasOpen, IsOpen, SameSessions
<1>2. CASE SessionsOf(b) = {}
  BY <1>1, <1>2 DEF BranchDrawer!vars, SameSessions
<1>3. CASE SessionsOf(b) # {}
  <2>1. Current(b)' = Current(b) /\ Current(b) \in SessionsOf(b)
    BY <1>3, SameCurrent, CurrentFacts DEF CurrentIsNewest, SameSessions
  <2>2. ExpectedCash(Current(b))' = ExpectedCash(Current(b))
    BY <2>1
  <2> QED BY <1>1, <1>3, <2>1, <2>2 DEF BranchDrawer!vars, SameSessions
<1> QED BY <1>2, <1>3

LEMMA NewestMoves ==
    ASSUME LifecycleInv, LifecycleInv', NEW b \in Branches, SameSessions(b),
           UNCHANGED status, NEW s \in SessionsOf(b), IsOpen(s), ExpectedCash(s)' \in Nat
    PROVE  BranchDrawer(b)!Next
<1>1. HasOpen(b)' = HasOpen(b) /\ HasOpen(b)
  BY DEF HasOpen, IsOpen, SameSessions
<1>2. Current(b) = s /\ Current(b)' = s
  BY SameCurrent, CurrentFacts DEF CurrentIsNewest, SameSessions
<1>3. (IF SessionsOf(b) = {} THEN 0 ELSE ExpectedCash(Current(b)))' \in Nat
  BY <1>2 DEF SameSessions
<1> QED BY <1>1, <1>2, <1>3 DEF BranchDrawer!Next, BranchDrawer!Move, SameSessions

LEMMA NewestOpens ==
    ASSUME LifecycleInv, LifecycleInv', NEW b \in Branches, NEW s \in Sessions,
           SessionsOf(b)' = SessionsOf(b) \cup {s}, IsOpen(s)', session'[s].date = today,
           \A t \in SessionsOf(b) : session[t].date # today /\ ~IsOpen(t),
           ExpectedCash(s)' \in Nat
    PROVE  BranchDrawer(b)!Next
<1>1. ~HasOpen(b) /\ HasOpen(b)'
  BY DEF HasOpen
<1>2. Current(b)' = s /\ SessionsOf(b)' # {}
  BY CurrentAfter DEF CurrentIsNewest
<1>3. today \in Nat /\ today > 0
  BY DEF LifecycleInv, TypeOK, Days
<1>4. SessionsOf(b) # {} => session[Current(b)].date < today
  <2>1. ASSUME SessionsOf(b) # {}
        PROVE  session[Current(b)].date \in 1 .. today /\ Current(b) \in SessionsOf(b)
    BY <2>1, CurrentFacts DEF CurrentIsNewest
  <2> QED BY <1>3, <2>1
<1>5. /\ (IF SessionsOf(b) = {} THEN 0 ELSE session[Current(b)].date)' = today
      /\ (IF SessionsOf(b) = {} THEN 0 ELSE ExpectedCash(Current(b)))' \in Nat
  BY <1>2
<1>6. (IF SessionsOf(b) = {} THEN 0 ELSE session[Current(b)].date) < today
  BY <1>3, <1>4
<1> QED BY <1>1, <1>3, <1>5, <1>6 DEF BranchDrawer!Next, BranchDrawer!Open

LEMMA NewestCloses ==
    ASSUME LifecycleInv, LifecycleInv', NEW b \in Branches, SameSessions(b),
           NEW s \in SessionsOf(b), IsOpen(s), SetStatus(s, "CLOSED"),
           ExpectedCash(s)' = ExpectedCash(s)
    PROVE  BranchDrawer(b)!Next
<1>1. Current(b) = s /\ Current(b)' = s /\ HasOpen(b)
  BY SameCurrent, CurrentFacts DEF CurrentIsNewest, SameSessions, HasOpen
<1>2. ~IsOpen(s)'
  BY DEF SetStatus, IsOpen, LifecycleInv, TypeOK, SessionsOf
<1>3. ~HasOpen(b)'
  BY <1>1, <1>2, CurrentAfter DEF CurrentIsNewest, SameSessions
<1> QED BY <1>1, <1>3 DEF BranchDrawer!Next, BranchDrawer!Close, SameSessions

LEMMA NewestReopens ==
    ASSUME LifecycleInv, LifecycleInv', NEW b \in Branches, SameSessions(b),
           NEW s \in SessionsOf(b), ~IsOpen(s), \A t \in SessionsOf(b) : t # s => ~IsOpen(t),
           SetStatus(s, "OPEN"), ExpectedCash(s)' = ExpectedCash(s)
    PROVE  BranchDrawer(b)!Next
<1>1. IsOpen(s)' /\ HasOpen(b)' /\ ~HasOpen(b)
  BY DEF SetStatus, IsOpen, LifecycleInv, TypeOK, SessionsOf, HasOpen, SameSessions
<1>2. Current(b)' = s /\ Current(b) = s
  BY <1>1, SameCurrent, CurrentAfter DEF CurrentIsNewest, SameSessions
<1>3. session[s].date \in Nat /\ session[s].date > 0
  BY <1>2, CurrentFacts DEF CurrentIsNewest
<1> QED BY <1>1, <1>2, <1>3 DEF BranchDrawer!Next, BranchDrawer!Reopen, SameSessions

LEMMA NewestMovement ==
    ASSUME LifecycleInv, LifecycleInv', \A t \in Sessions : ExpectedCash(t)' \in Nat,
           NEW s \in Sessions, IsOpen(s), NEW m, m.session = s,
           movements' = movements \cup {m}, UNCHANGED <<status, session>>,
           NEW b \in Branches
    PROVE  [BranchDrawer(b)!Next]_(BranchDrawer(b)!vars)
<1>1. SameSessions(b)
  BY DEF SameSessions, SessionsOf, Present
<1>2. CASE s \in SessionsOf(b)
  BY <1>1, <1>2, NewestMoves
<1>3. CASE s \notin SessionsOf(b)
  <2>1. \A t \in SessionsOf(b) : ExpectedCash(t)' = ExpectedCash(t)
    BY <1>3 DEF ExpectedCash, Ledger
  <2> QED BY <1>1, <2>1, NewestKeeps
<1> QED BY <1>2, <1>3

LEMMA NewestCreation ==
    ASSUME LifecycleInv, LifecycleInv', \A t \in Sessions : ExpectedCash(t)' \in Nat,
           NEW a \in Actors, NEW o \in Branches, NEW float \in Money, NEW k \in Keys,
           CreateSession(a, o, float, k), NEW b \in Branches
    PROVE  [BranchDrawer(b)!Next]_(BranchDrawer(b)!vars)
<1>1. PICK s \in Sessions :
          /\ ~Present(s)
          /\ SetStatus(s, "OPEN")
          /\ session' = [session EXCEPT ![s] =
                 [branch |-> o, date |-> today, key |-> k, opener |-> a]]
          /\ movements' = movements \cup
                 {[session |-> s, type |-> "OPENING_FLOAT", delta |-> float, ref |-> s]}
  BY DEF CreateSession
<1>2. /\ session'[s].branch = o /\ session'[s].date = today /\ Present(s)' /\ IsOpen(s)'
      /\ \A t \in Sessions : t # s => session'[t] = session[t] /\ status'[t] = status[t]
  BY <1>1 DEF LifecycleInv, TypeOK, SetStatus, Present, IsOpen
<1>3. \A t \in Sessions : t # s => ExpectedCash(t)' = ExpectedCash(t)
  <2> DEFINE m == [session |-> s, type |-> "OPENING_FLOAT", delta |-> float, ref |-> s]
  <2>1. m.session = s /\ movements' = movements \cup {m}
    BY <1>1
  <2> HIDE DEF m
  <2> QED BY <2>1 DEF ExpectedCash, Ledger
<1>4. CASE b = o
  <2>1. SessionsOf(b)' = SessionsOf(b) \cup {s}
    BY <1>1, <1>2, <1>4 DEF SessionsOf, Present
  <2>2. \A t \in SessionsOf(b) : session[t].date # today /\ ~IsOpen(t)
    BY <1>4 DEF CreateSession
  <2> QED BY <1>2, <2>1, <2>2, NewestOpens
<1>5. CASE b # o
  <2>1. SessionsOf(b)' = SessionsOf(b) /\ s \notin SessionsOf(b)
    BY <1>1, <1>2, <1>5 DEF SessionsOf, Present
  <2>2. /\ SameSessions(b)
        /\ \A t \in SessionsOf(b) : status'[t] = status[t] /\ ExpectedCash(t)' = ExpectedCash(t)
    BY <1>2, <1>3, <2>1 DEF SameSessions, SessionsOf
  <2> QED BY <2>2, NewestKeeps
<1> QED BY <1>4, <1>5

\* A closing or a reopening is seen in the branch of its session only.
LEMMA NewestStatus ==
    ASSUME LifecycleInv, LifecycleInv', NEW s \in Sessions, NEW b \in Branches, Present(s),
           NEW x \in {"OPEN", "CLOSED"}, SetStatus(s, x), UNCHANGED <<session, movements>>,
           x = "CLOSED" => IsOpen(s),
           x = "OPEN" => \A t \in SessionsOf(session[s].branch) : ~IsOpen(t)
    PROVE  [BranchDrawer(b)!Next]_(BranchDrawer(b)!vars)
<1>1. /\ SessionsOf(b)' = SessionsOf(b)
      /\ \A t \in Sessions : t # s => status'[t] = status[t]
  BY DEF LifecycleInv, TypeOK, SetStatus, SessionsOf, Present
<1>2. SameSessions(b) /\ \A t \in Sessions : ExpectedCash(t)' = ExpectedCash(t)
  BY <1>1 DEF SameSessions, ExpectedCash, Ledger
<1>3. CASE s \notin SessionsOf(b)
  <2>1. \A t \in SessionsOf(b) : status'[t] = status[t] /\ ExpectedCash(t)' = ExpectedCash(t)
    BY <1>1, <1>2, <1>3 DEF SessionsOf
  <2> QED BY <1>2, <2>1, NewestKeeps
<1>4. CASE s \in SessionsOf(b) /\ x = "CLOSED"
  BY <1>2, <1>4, NewestCloses
<1>5. CASE s \in SessionsOf(b) /\ x = "OPEN"
  <2>1. session[s].branch = b
    BY <1>5 DEF SessionsOf
  <2> QED BY <1>2, <1>5, <2>1, NewestReopens
<1> QED BY <1>3, <1>4, <1>5

LEMMA NewestStep ==
    ASSUME LifecycleInv, LifecycleInv', CashInv, [Next]_vars
    PROVE  \A b \in Branches : [BranchDrawer(b)!Next]_(BranchDrawer(b)!vars)
<1> SUFFICES ASSUME NEW b \in Branches
             PROVE  [BranchDrawer(b)!Next]_(BranchDrawer(b)!vars)
  OBVIOUS
<1>0. \A t \in Sessions : ExpectedCash(t)' \in Nat
  BY CashStep
<1>1. ASSUME UNCHANGED <<status, session, movements>>
      PROVE  UNCHANGED BranchDrawer(b)!vars
  <2>1. SameSessions(b)
    BY <1>1 DEF SameSessions, SessionsOf, Present
  <2>2. \A t \in SessionsOf(b) : status'[t] = status[t] /\ ExpectedCash(t)' = ExpectedCash(t)
    BY <1>1 DEF ExpectedCash, Ledger
  <2> QED BY <2>1, <2>2, NewestKeeps
<1>2. ASSUME NEW a \in Actors, NEW s \in Sessions, NEW source \in Sources,
             NEW delta \in (-MaxMoney) .. MaxMoney, RecordSourceMovement(a, s, source, delta)
      PROVE  [BranchDrawer(b)!Next]_(BranchDrawer(b)!vars)
  <2> DEFINE m == [session |-> s, type |-> SourceType[source], delta |-> delta, ref |-> source]
  <2>1. m.session = s
    OBVIOUS
  <2>2. IsOpen(s) /\ movements' = movements \cup {m} /\ UNCHANGED <<status, session>>
    BY <1>2 DEF RecordSourceMovement, Accepts
  <2> HIDE DEF m
  <2> QED BY <1>0, <2>1, <2>2, NewestMovement
<1>3. ASSUME NEW s \in Sessions, NEW type \in ManualTypes, NEW amount \in Money,
             NEW k \in Keys, CreateManual(s, type, amount, k)
      PROVE  [BranchDrawer(b)!Next]_(BranchDrawer(b)!vars)
  <2> DEFINE m == [session |-> s, type |-> type,
                   delta |-> IF type = "CASH_ADDED" THEN amount ELSE -amount, ref |-> k]
  <2>1. m.session = s
    OBVIOUS
  <2>2. IsOpen(s) /\ movements' = movements \cup {m} /\ UNCHANGED <<status, session>>
    BY <1>3 DEF CreateManual, Accepts
  <2> HIDE DEF m
  <2> QED BY <1>0, <2>1, <2>2, NewestMovement
<1>4. ASSUME NEW s \in Sessions, NEW actual \in Money, NEW explained \in BOOLEAN,
             NEW k \in Keys, CreateClosure(s, actual, explained, k)
      PROVE  [BranchDrawer(b)!Next]_(BranchDrawer(b)!vars)
  <2>1. /\ IsOpen(s) /\ Present(s) /\ SetStatus(s, "CLOSED")
        /\ UNCHANGED <<session, movements>>
    BY <1>4 DEF CreateClosure, IsOpen, Present
  <2> QED BY <2>1, NewestStatus
<1>5. ASSUME NEW s \in Sessions, NEW k \in Keys, Present(s), CreateReopening(s, k)
      PROVE  [BranchDrawer(b)!Next]_(BranchDrawer(b)!vars)
  <2>1. /\ SetStatus(s, "OPEN") /\ UNCHANGED <<session, movements>>
        /\ \A t \in SessionsOf(session[s].branch) : ~IsOpen(t)
    BY <1>5 DEF CreateReopening, IsOpen
  <2> QED BY <1>5, <2>1, NewestStatus
<1> QED
  BY <1>0, <1>1, <1>2, <1>3, <1>4, <1>5, NewestCreation, StepCases, ReplayChangesNothing
     DEF NextDay, vars

LEMMA NewestInit == Init => \A b \in Branches : BranchDrawer(b)!Init
<1> SUFFICES ASSUME Init, NEW b \in Branches PROVE BranchDrawer(b)!Init
  OBVIOUS
<1>1. SessionsOf(b) = {} /\ ~HasOpen(b)
  BY DEF Init, SessionsOf, Present, HasOpen
<1> QED BY <1>1 DEF BranchDrawer!Init

\* Every branch shows the other apps one drawer, the newest: cash is moved in it alone,
\* only a later one takes its place, and lock_open_cash_session and reopen_cash_session
\* can never bring back one that was left behind.
THEOREM EachBranchHasItsNewest == Spec => EachBranchHasADrawer
<1>1. LifecycleInv /\ LifecycleInv' /\ CashInv /\ [Next]_vars =>
          \A b \in Branches : [BranchDrawer(b)!Next]_(BranchDrawer(b)!vars)
  BY NewestStep
<1>2. Init => \A b \in Branches : BranchDrawer(b)!Init
  BY NewestInit
<1> QED
  BY <1>1, <1>2, LifecycleCorrect, CashInvariant, PTL DEF Spec, EachBranchHasADrawer

\* Keys, rows and replays show a caller nothing but a drawer: cash/services.py keeps one
\* open session a branch, never owes and remembers each count with what it expected,
\* and the rest of the program sees the newest session of a branch and no other.
THEOREM ServicesAreADrawer == Spec => DrawerSpec
<1>1. CashInv /\ [Next]_vars => [Drawer!Next]_Drawer!vars
  BY DrawerStep
<1>2. Spec => Drawer!Spec
  BY <1>1, DrawerInit, CashInvariant, PTL DEF Spec, Drawer!Spec
<1> QED BY <1>2, EachBranchHasItsNewest DEF DrawerSpec

-----------------------------------------------------------------------------
(* The books of a day are closed for good by the next one.                 *)

Superseded(s) ==
    Present(s) /\ \E t \in SessionsOf(session[s].branch) : session[t].date > session[s].date
BookOf(s) == <<session[s], status[s], Ledger(s), closures[s],
               {r \in reopenings : r.session = s}>>

LEMMA RowsStay ==
    ASSUME TypeOK, [Next]_vars, NEW s \in Sessions, Present(s)
    PROVE  Present(s)' /\ session'[s] = session[s]
<1>1. CASE Replay
  BY <1>1, ReplayChangesNothing DEF Present
<1> QED
  BY <1>1, StepCases
     DEF TypeOK, Present, CreateSession, CreateManual, CreateClosure, CreateReopening,
         RecordSourceMovement, NextDay, vars, SetStatus, IsLatest, Accepts

LEMMA SupersededStays ==
    ASSUME LifecycleInv, [Next]_vars, NEW s \in Sessions, Superseded(s)
    PROVE  Superseded(s)' /\ status[s] = "CLOSED"
<1>1. PICK t \in SessionsOf(session[s].branch) : session[t].date > session[s].date
  BY DEF Superseded
<1>2. Present(s) /\ t \in Sessions /\ Present(t) /\ session[t].branch = session[s].branch
  BY <1>1 DEF Superseded, SessionsOf
<1>3. /\ Present(s)' /\ session'[s] = session[s]
      /\ Present(t)' /\ session'[t] = session[t]
  BY <1>2, RowsStay DEF LifecycleInv
<1>4. Superseded(s)'
  BY <1>1, <1>2, <1>3 DEF Superseded, SessionsOf
<1>5. session[s].date \in Int /\ session[t].date \in Int
  BY <1>2, MaxDayAssumption DEF LifecycleInv, TypeOK, SessionRow, Days
<1>6. ~IsOpen(s)
  BY <1>1, <1>2, <1>5 DEF LifecycleInv, OpenSessionIsLatest
<1> QED BY <1>2, <1>4, <1>6 DEF LifecycleInv, TypeOK, Present, IsOpen

LEMMA SupersededStep ==
    ASSUME LifecycleInv, [Next]_vars, NEW s \in Sessions, Superseded(s)
    PROVE  UNCHANGED BookOf(s)
<1>1. status[s] = "CLOSED" /\ Present(s) /\ session'[s] = session[s]
  BY SupersededStays, RowsStay DEF LifecycleInv, Superseded
<1>2. Ledger(s)' = Ledger(s)
  BY <1>1, LedgerStep DEF LifecycleInv
<1>3. ASSUME UNCHANGED <<status, closures, reopenings>>
      PROVE  UNCHANGED BookOf(s)
  BY <1>1, <1>2, <1>3 DEF BookOf
<1>4. ASSUME NEW a \in Actors, NEW b \in Branches, NEW float \in Money, NEW k \in Keys,
             CreateSession(a, b, float, k)
      PROVE  UNCHANGED BookOf(s)
  <2>1. status'[s] = status[s] /\ UNCHANGED <<closures, reopenings>>
    BY <1>1, <1>4 DEF CreateSession, SetStatus, LifecycleInv, TypeOK, Present
  <2> QED BY <1>1, <1>2, <2>1 DEF BookOf
<1>5. ASSUME NEW t \in Sessions, NEW actual \in Money, NEW explained \in BOOLEAN,
             NEW k \in Keys, CreateClosure(t, actual, explained, k)
      PROVE  UNCHANGED BookOf(s)
  <2>1. t # s
    BY <1>1, <1>5 DEF CreateClosure, IsOpen
  <2>2. status'[s] = status[s] /\ closures'[s] = closures[s] /\ UNCHANGED reopenings
    BY <1>5, <2>1 DEF CreateClosure, SetStatus, LifecycleInv, TypeOK
  <2> QED BY <1>1, <1>2, <2>2 DEF BookOf
<1>6. ASSUME NEW t \in Sessions, NEW k \in Keys, Present(t), CreateReopening(t, k)
      PROVE  UNCHANGED BookOf(s)
  <2>1. \A o \in SessionsOf(session[t].branch) : session[o].date <= session[t].date
    BY <1>6 DEF CreateReopening, IsLatest
  <2>2. \A o \in Sessions : Present(o) => session[o].date \in Int
    BY MaxDayAssumption DEF LifecycleInv, TypeOK, SessionRow, Days
  <2>3. t # s
    BY <1>1, <2>1, <2>2 DEF Superseded, SessionsOf
  <2>4. status'[s] = status[s] /\ UNCHANGED closures
    BY <1>6, <2>3 DEF CreateReopening, SetStatus, LifecycleInv, TypeOK
  <2>5. {r \in reopenings' : r.session = s} = {r \in reopenings : r.session = s}
    BY <1>6, <2>3 DEF CreateReopening
  <2> QED BY <1>1, <1>2, <2>4, <2>5 DEF BookOf
<1> QED
  BY <1>3, <1>4, <1>5, <1>6, StepCases, ReplayChangesNothing
     DEF CreateManual, RecordSourceMovement, NextDay, vars

\* Once a later session of its branch has been opened, nothing of a session is ever
\* touched again: no movement, no closure and no reopening, however the two are closed
\* and reopened (reopen_cash_session looks for a later session under the branch's lock).
SupersededIsFinal ==
    [][\A s \in Sessions : Superseded(s) => Superseded(s)' /\ UNCHANGED BookOf(s)]_vars
THEOREM PastDaysAreFinal == Spec => SupersededIsFinal
<1>1. LifecycleInv /\ [Next]_vars =>
          \A s \in Sessions : Superseded(s) => Superseded(s)' /\ UNCHANGED BookOf(s)
  BY SupersededStays, SupersededStep
<1> QED BY <1>1, LifecycleCorrect, PTL DEF Spec, SupersededIsFinal

=============================================================================
