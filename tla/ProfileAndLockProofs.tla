------------------------ MODULE ProfileAndLockProofs ------------------------
(***************************************************************************)
(* Theorems about two modules that share no state.  PublicProfile: for any *)
(* indicators, requests, visitors, days and staff, no view is lost in a    *)
(* bucket and no indicator leaves the page unrecorded.  RowLocks: for any  *)
(* callers, branches and documents, services that agree on one order of    *)
(* the tables never wait for each other in a circle.                       *)
(***************************************************************************)
EXTENDS PublicProfile, RowLocks, WellFoundedInduction, TLAPS

ProfileTyped ==
    profile \in [status : {"DRAFT", "PUBLISHED", "UNPUBLISHED"}, suspended : BOOLEAN,
                 described : BOOLEAN, subject : [Types -> Subjects]]
RequestTyped ==
    request \in [Requests -> {NoRequest} \cup
        [type : Types, status : {"PENDING", "APPROVED", "REJECTED"}]]
DecisionRows ==
    {NoDecision} \cup [action : Negative] \cup
        [action : Positive, subject : Subjects, expires : 0 .. Never]
VerificationTyped == /\ ProfileTyped
                     /\ RequestTyped
                     /\ latest \in [Types -> DecisionRows]
                     /\ stale \in SUBSET Types
                     /\ today \in Days

\* A visitor that looked for a bucket did so on a day of the calendar, and may have read
\* that there is none.
Places == {Away} \cup [step : {"READ"}] \cup [step : {"LOOKED"}, day : Days, read : Nat]
MetricsTyped == /\ today \in Days
                /\ visit \in [Visitors -> Places]
                /\ bucket \in [Days -> Nat]

CountInv == MetricsTyped /\ ViewsAreCounted

-----------------------------------------------------------------------------
(* Visits.                                                                 *)

LEMMA CountInvInit == Init => CountInv
<1> USE ProfileAssumption DEF Days
<1>1. Init => MetricsTyped
  BY DEF Init, MetricsTyped, Places
<1>2. Init => ViewsAreCounted
  BY DEF Init, ViewsAreCounted
<1> QED BY <1>1, <1>2 DEF CountInv

\* Looking, counting and leaving send a visitor to another place.
LEMMA GotoTyped ==
  ASSUME CountInv, NEW v \in Visitors, NEW place \in Places, Goto(v, place)
  PROVE  visit' \in [Visitors -> Places]
BY DEF Goto, CountInv, MetricsTyped

LEMMA LookedRow ==
  ASSUME CountInv, NEW v \in Visitors, visit[v].step = "LOOKED"
  PROVE  visit[v].day \in Days /\ visit[v].read \in Nat
<1>1. visit[v] \in Places
  BY DEF CountInv, MetricsTyped
<1>2. visit[v] # Away /\ visit[v] \notin [step : {"READ"}]
  BY DEF Away
<1> QED BY <1>1, <1>2 DEF Places

\* A step that adds one to a bucket adds it to the count of visits.
LEMMA CountPreserves ==
  ASSUME CountInv, NEW v \in Visitors, visit[v].step = "LOOKED",
         Count(v, bucket[visit[v].day] + 1)
  PROVE  CountInv'
<1>1. visit[v].day \in Days
  BY LookedRow
<1>2. /\ bucket \in [Days -> Nat] /\ viewed = bucket
      /\ bucket[visit[v].day] \in Nat
  BY <1>1 DEF CountInv, MetricsTyped, ViewsAreCounted
<1>3. bucket' \in [Days -> Nat]
  BY <1>1, <1>2 DEF Count
<1>4. viewed' = bucket'
  BY <1>2 DEF Count
<1>5. visit' \in [Visitors -> Places]
  BY GotoTyped DEF Count, Places
<1>6. today' \in Days
  BY DEF Count, CountInv, MetricsTyped
<1> QED BY <1>3, <1>4, <1>5, <1>6 DEF CountInv, MetricsTyped, ViewsAreCounted

LEMMA CountInvStep == CountInv /\ [Next]_vars => CountInv'
<1> SUFFICES ASSUME CountInv, [Next]_vars PROVE CountInv'
  OBVIOUS
<1>1. ASSUME UNCHANGED <<today, metrics>> PROVE CountInv'
  BY <1>1 DEF metrics, CountInv, MetricsTyped, ViewsAreCounted
<1>2. ASSUME NEW v \in Visitors, NEW place \in Places, Goto(v, place),
             UNCHANGED <<today, bucket, viewed>>
      PROVE  CountInv'
  <2>1. visit' \in [Visitors -> Places]
    BY <1>2, GotoTyped
  <2> QED BY <1>2, <2>1 DEF CountInv, MetricsTyped, ViewsAreCounted
<1>3. ASSUME NEW a \in Managers, UpdateProfile(a) \/ UpdateContactLinks(a)
                 \/ Publish(a) \/ Unpublish(a)
      PROVE  CountInv'
  BY <1>3, <1>1 DEF UpdateProfile, UpdateContactLinks, Publish, Unpublish
<1>4. ASSUME NEW a \in Managers, NEW r \in Requests, NEW t \in Types, SubmitRequest(a, r, t)
      PROVE  CountInv'
  BY <1>4, <1>1 DEF SubmitRequest
<1>5. ASSUME NEW u \in Suspenders, Suspend(u) \/ Reinstate(u)
      PROVE  CountInv'
  BY <1>5, <1>1 DEF Suspend, Reinstate
<1>6. ASSUME NEW u \in Reviewers, NEW r \in Requests, Approve(u, r) \/ Reject(u, r)
      PROVE  CountInv'
  BY <1>6, <1>1 DEF Approve, Reject, Reviewed, Decide
<1>7. ASSUME NEW u \in Reviewers, NEW t \in Types, Revoke(u, t) \/ Renew(u, t) \/ Expire(u, t)
      PROVE  CountInv'
  BY <1>7, <1>1 DEF Revoke, Renew, Expire, Reviewed, Decide
<1>8. ASSUME NEW v \in Visitors, OpenPage(v) PROVE CountInv'
  BY <1>8, <1>2 DEF OpenPage, Places
<1>9. ASSUME NEW v \in Visitors, Look(v) PROVE CountInv'
  <2>1. today \in Days /\ bucket[today] \in Nat
    BY DEF CountInv, MetricsTyped
  <2>2. [step |-> "LOOKED", day |-> today, read |-> bucket[today]] \in Places
    BY <2>1 DEF Places
  <2> QED BY <1>9, <2>2, <1>2 DEF Look
<1>10. ASSUME NEW v \in Visitors, Insert(v) PROVE CountInv'
  <2>1. bucket[visit[v].day] + 1 = 1
    BY <1>10 DEF Insert
  <2> QED BY <1>10, <2>1, CountPreserves DEF Insert
<1>11. ASSUME NEW v \in Visitors, LoseInsert(v) PROVE CountInv'
  <2>1. visit[v].day \in Days /\ bucket[visit[v].day] \in Nat
    BY <1>11, LookedRow DEF LoseInsert, CountInv, MetricsTyped
  <2>2. [step |-> "LOOKED", day |-> visit[v].day, read |-> bucket[visit[v].day]] \in Places
    BY <2>1 DEF Places
  <2> QED BY <1>11, <2>2, <1>2 DEF LoseInsert
<1>12. ASSUME NEW v \in Visitors, Update(v) PROVE CountInv'
  BY <1>12, CountPreserves DEF Update, Increased
<1>13. ASSUME NEW v \in Visitors, Die(v) PROVE CountInv'
  BY <1>13, <1>2 DEF Die, Places
<1>14. CASE ActivateBusiness
  BY <1>14, <1>1 DEF ActivateBusiness
<1>15. CASE NextDay
  <2>1. today' \in Days
    BY <1>15, ProfileAssumption DEF NextDay, Days, CountInv, MetricsTyped
  <2> QED BY <1>15, <2>1 DEF NextDay, metrics, CountInv, MetricsTyped, ViewsAreCounted
<1>16. CASE UNCHANGED vars
  BY <1>16, <1>1 DEF vars
<1> QED
  BY <1>3, <1>4, <1>5, <1>6, <1>7, <1>8, <1>9, <1>10, <1>11, <1>12, <1>13, <1>14, <1>15,
     <1>16 DEF Next

\* increment_metric: whatever looks, inserts and updates interleave, the bucket of a day
\* counts the visits that went through.
THEOREM EveryViewIsCounted == Spec => []ViewsAreCounted
<1>1. Init => CountInv
  BY CountInvInit
<1>2. CountInv /\ [Next]_vars => CountInv'
  BY CountInvStep
<1>3. CountInv => ViewsAreCounted
  BY DEF CountInv
<1> QED BY <1>1, <1>2, <1>3, PTL DEF Spec

-----------------------------------------------------------------------------
(* Verification.                                                           *)

AuditInv == VerificationTyped /\ RemovalsAreAudited

LEMMA AuditInvInit == Init => AuditInv
<1> SUFFICES ASSUME Init PROVE AuditInv
  OBVIOUS
<1>1. ProfileTyped
  BY DEF Init, ProfileTyped, Subjects
<1>2. RequestTyped
  BY DEF Init, RequestTyped
<1>3. latest \in [Types -> DecisionRows] /\ stale \in SUBSET Types
  BY DEF Init, DecisionRows
<1>4. \A t \in Types : latest[t].action = "NONE"
  BY DEF Init, NoDecision
<1>5. RemovalsAreAudited
  BY <1>4 DEF RemovalsAreAudited, Positive
<1>6. today \in Days
  BY ProfileAssumption DEF Init, Days
<1> QED BY <1>1, <1>2, <1>3, <1>5, <1>6 DEF AuditInv, VerificationTyped

\* A decision: it is about the subject the profile has now, unless it is negative.
LEMMA DecidePreserves ==
  ASSUME AuditInv, NEW t \in Types, NEW decision \in DecisionRows, Decide(t, decision),
         decision.action \in Positive => decision.subject = profile.subject[t],
         RequestTyped'
  PROVE  AuditInv'
<1>1. UNCHANGED <<profile, today>>
  BY DEF Decide, content
<1>2. latest' = [latest EXCEPT ![t] = decision] /\ stale' = stale \ {t}
  BY DEF Decide
<1>3. latest \in [Types -> DecisionRows] /\ stale \in SUBSET Types /\ ProfileTyped
  BY DEF AuditInv, VerificationTyped
<1>4. latest' \in [Types -> DecisionRows] /\ stale' \in SUBSET Types
  BY <1>2, <1>3
<1>5. ProfileTyped'
  BY <1>1, <1>3 DEF ProfileTyped
<1>6. ASSUME NEW u \in Types, latest'[u].action \in Positive, latest'[u].expires >= today'
      PROVE  Shown(u)' \/ u \in stale'
  <2>1. CASE u = t
    <3>1. latest'[t] = decision
      BY <1>2, <1>3
    <3>2. latest'[t].subject = profile'.subject[t]
      BY <1>1, <1>6, <2>1, <3>1
    <3> QED BY <1>6, <2>1, <3>2 DEF Shown, Current
  <2>2. CASE u # t
    <3>1. latest'[u] = latest[u]
      BY <1>2, <1>3, <2>2
    <3>2. Shown(u) \/ u \in stale
      BY <1>1, <1>6, <3>1 DEF AuditInv, RemovalsAreAudited
    <3> QED BY <1>1, <1>2, <2>2, <3>1, <3>2 DEF Shown, Current
  <2> QED BY <2>1, <2>2
<1>7. RemovalsAreAudited'
  BY <1>6 DEF RemovalsAreAudited
<1> QED BY <1>1, <1>4, <1>5, <1>7 DEF AuditInv, VerificationTyped

LEMMA NegativePreserves ==
  ASSUME AuditInv, NEW t \in Types, NEW action \in Negative, Decide(t, [action |-> action]),
         RequestTyped'
  PROVE  AuditInv'
<1>1. [action |-> action] \in DecisionRows
  BY DEF DecisionRows
<1>2. action \notin Positive
  BY DEF Positive, Negative
<1> DEFINE decision == [action |-> action]
<1>3. decision.action \notin Positive
  BY <1>2
<1> HIDE DEF decision
<1> QED BY <1>1, <1>3, DecidePreserves DEF decision

LEMMA ReviewedPreserves ==
  ASSUME AuditInv, NEW t \in Types, NEW action \in Positive, Reviewed(t, action),
         RequestTyped'
  PROVE  AuditInv'
<1>1. PICK expires \in 0 .. Never :
          Decide(t, [action |-> action, subject |-> profile.subject[t], expires |-> expires])
  BY DEF Reviewed
<1>2. profile.subject[t] \in Subjects
  BY DEF AuditInv, VerificationTyped, ProfileTyped
<1> DEFINE decision == [action |-> action, subject |-> profile.subject[t], expires |-> expires]
<1>3. decision \in DecisionRows
  BY <1>2 DEF DecisionRows
<1>4. decision.subject = profile.subject[t]
  OBVIOUS
<1>5. Decide(t, decision)
  BY <1>1
<1> HIDE DEF decision
<1> QED BY <1>3, <1>4, <1>5, DecidePreserves

LEMMA PendingType ==
  ASSUME AuditInv, NEW r \in Requests, request[r].status = "PENDING"
  PROVE  request[r].type \in Types
<1>1. request[r] # NoRequest
  BY DEF NoRequest
<1> QED BY <1>1 DEF AuditInv, VerificationTyped, RequestTyped

LEMMA RequestSet ==
  ASSUME AuditInv, NEW r \in Requests, NEW t \in Types,
         NEW status \in {"PENDING", "APPROVED", "REJECTED"},
         request' = [request EXCEPT ![r] = [type |-> t, status |-> status]]
  PROVE  RequestTyped'
BY DEF AuditInv, VerificationTyped, RequestTyped

\* An update that takes an indicator from the page names its type.
LEMMA UpdatePreserves ==
  ASSUME AuditInv, NEW a \in Managers, UpdateProfile(a)
  PROVE  AuditInv'
<1>1. PICK subjects \in [Types -> Subjects], described \in BOOLEAN :
          /\ profile' = [profile EXCEPT !.subject = subjects, !.described = described]
          /\ stale' = stale \cup TurnedStale(subjects)
  BY Zenon DEF UpdateProfile
<1>2. UNCHANGED <<today, request, latest>>
  BY DEF UpdateProfile
<1>3. profile \in [status : {"DRAFT", "PUBLISHED", "UNPUBLISHED"}, suspended : BOOLEAN,
                   described : BOOLEAN, subject : [Types -> Subjects]]
  BY DEF AuditInv, VerificationTyped, ProfileTyped
<1>4. profile' = [status |-> profile.status, suspended |-> profile.suspended,
                  described |-> described, subject |-> subjects]
  BY <1>1, <1>3
<1>5. ProfileTyped' /\ profile'.subject = subjects
  BY <1>3, <1>4 DEF ProfileTyped
<1>6. stale' \in SUBSET Types
  BY <1>1 DEF AuditInv, VerificationTyped, TurnedStale
<1>7. ASSUME NEW t \in Types, latest'[t].action \in Positive, latest'[t].expires >= today'
      PROVE  Shown(t)' \/ t \in stale'
  <2>1. Shown(t) \/ t \in stale
    BY <1>2, <1>7 DEF AuditInv, RemovalsAreAudited
  <2>2. CASE t \in stale
    BY <1>1, <2>2
  <2>3. CASE Shown(t) /\ profile.subject[t] = subjects[t]
    BY <1>2, <1>5, <2>3 DEF Shown, Current
  <2>4. CASE Shown(t) /\ profile.subject[t] # subjects[t]
    BY <1>1, <2>4 DEF Shown, TurnedStale
  <2> QED BY <2>1, <2>2, <2>3, <2>4
<1>8. RemovalsAreAudited'
  BY <1>7 DEF RemovalsAreAudited
<1> QED BY <1>2, <1>5, <1>6, <1>8 DEF AuditInv, VerificationTyped, RequestTyped

LEMMA AuditInvStep == AuditInv /\ [Next]_vars => AuditInv'
<1> SUFFICES ASSUME AuditInv, [Next]_vars PROVE AuditInv'
  OBVIOUS
<1>1. ASSUME UNCHANGED <<today, latest, stale>>, profile'.subject = profile.subject,
             ProfileTyped', RequestTyped'
      PROVE  AuditInv'
  <2>1. RemovalsAreAudited'
    BY <1>1 DEF AuditInv, RemovalsAreAudited, Shown, Current
  <2> QED BY <1>1, <2>1 DEF AuditInv, VerificationTyped
<1>2. ASSUME UNCHANGED <<profile, today, verification>> PROVE AuditInv'
  BY <1>1, <1>2 DEF verification, AuditInv, VerificationTyped, ProfileTyped, RequestTyped
<1>3. ASSUME NEW row \in [status : {"DRAFT", "PUBLISHED", "UNPUBLISHED"}, suspended : BOOLEAN],
             profile' = [profile EXCEPT !.status = row.status]
                 \/ profile' = [profile EXCEPT !.suspended = row.suspended],
             UNCHANGED <<today, verification>>
      PROVE  AuditInv'
  <2>1. profile \in [status : {"DRAFT", "PUBLISHED", "UNPUBLISHED"}, suspended : BOOLEAN,
                     described : BOOLEAN, subject : [Types -> Subjects]]
    BY DEF AuditInv, VerificationTyped, ProfileTyped
  <2>2. /\ profile' \in [status : {"DRAFT", "PUBLISHED", "UNPUBLISHED"}, suspended : BOOLEAN,
                         described : BOOLEAN, subject : [Types -> Subjects]]
        /\ profile'.subject = profile.subject
    BY <1>3, <2>1
  <2> QED BY <1>1, <1>3, <2>2 DEF verification, AuditInv, VerificationTyped, ProfileTyped, RequestTyped
<1> DEFINE row(status, suspended) == [status |-> status, suspended |-> suspended]
<1>4. ASSUME NEW a \in Managers, Publish(a) PROVE AuditInv'
  <2>1. row("PUBLISHED", FALSE) \in
            [status : {"DRAFT", "PUBLISHED", "UNPUBLISHED"}, suspended : BOOLEAN]
    OBVIOUS
  <2> QED BY <1>3, <1>4, <2>1 DEF Publish
<1>5. ASSUME NEW a \in Managers, Unpublish(a) PROVE AuditInv'
  <2>1. row("UNPUBLISHED", FALSE) \in
            [status : {"DRAFT", "PUBLISHED", "UNPUBLISHED"}, suspended : BOOLEAN]
    OBVIOUS
  <2> QED BY <1>3, <1>5, <2>1 DEF Unpublish
<1>6. ASSUME NEW u \in Suspenders, Suspend(u) \/ Reinstate(u) PROVE AuditInv'
  <2>1. row("DRAFT", TRUE) \in
            [status : {"DRAFT", "PUBLISHED", "UNPUBLISHED"}, suspended : BOOLEAN]
    OBVIOUS
  <2>2. row("DRAFT", FALSE) \in
            [status : {"DRAFT", "PUBLISHED", "UNPUBLISHED"}, suspended : BOOLEAN]
    OBVIOUS
  <2> QED BY <1>3, <1>6, <2>1, <2>2 DEF Suspend, Reinstate
<1>7. ASSUME NEW a \in Managers, UpdateProfile(a) PROVE AuditInv'
  BY <1>7, UpdatePreserves
<1>8. ASSUME NEW a \in Managers, UpdateContactLinks(a) PROVE AuditInv'
  BY <1>8, <1>2 DEF UpdateContactLinks
<1>9. ASSUME NEW a \in Managers, NEW r \in Requests, NEW t \in Types, SubmitRequest(a, r, t)
      PROVE  AuditInv'
  <2>1. RequestTyped'
    BY <1>9, RequestSet DEF SubmitRequest
  <2> QED BY <1>1, <1>9, <2>1 DEF SubmitRequest, content, AuditInv, VerificationTyped, ProfileTyped
<1>10. ASSUME NEW u \in Reviewers, NEW r \in Requests, Approve(u, r) PROVE AuditInv'
  <2>1. request[r].type \in Types
    BY <1>10, PendingType DEF Approve
  <2>2. RequestTyped'
    BY <1>10, <2>1, RequestSet DEF Approve
  <2>3. "APPROVE" \in Positive
    BY DEF Positive
  <2> QED BY <1>10, <2>1, <2>2, <2>3, ReviewedPreserves DEF Approve
<1>11. ASSUME NEW u \in Reviewers, NEW r \in Requests, Reject(u, r) PROVE AuditInv'
  <2>1. request[r].type \in Types
    BY <1>11, PendingType DEF Reject
  <2>2. RequestTyped'
    BY <1>11, <2>1, RequestSet DEF Reject
  <2>3. "REJECT" \in Negative
    BY DEF Negative
  <2> QED BY <1>11, <2>1, <2>2, <2>3, NegativePreserves DEF Reject
<1>12. ASSUME NEW u \in Reviewers, NEW t \in Types, Revoke(u, t) \/ Expire(u, t) PROVE AuditInv'
  <2>1. RequestTyped'
    BY <1>12 DEF Revoke, Expire, AuditInv, VerificationTyped, RequestTyped
  <2>2. "REVOKE" \in Negative /\ "EXPIRE" \in Negative
    BY DEF Negative
  <2> QED BY <1>12, <2>1, <2>2, NegativePreserves DEF Revoke, Expire
<1>13. ASSUME NEW u \in Reviewers, NEW t \in Types, Renew(u, t) PROVE AuditInv'
  <2>1. RequestTyped'
    BY <1>13 DEF Renew, AuditInv, VerificationTyped, RequestTyped
  <2>2. "RENEW" \in Positive
    BY DEF Positive
  <2> QED BY <1>13, <2>1, <2>2, ReviewedPreserves DEF Renew
<1>14. ASSUME NEW v \in Visitors,
              OpenPage(v) \/ Look(v) \/ Insert(v) \/ LoseInsert(v) \/ Update(v) \/ Die(v)
       PROVE  AuditInv'
  <2>1. UNCHANGED <<content, today, verification>>
    BY <1>14 DEF OpenPage, Look, Insert, LoseInsert, Update, Die, Count
  <2> QED BY <1>2, <2>1 DEF content
<1>15. CASE ActivateBusiness
  BY <1>2, <1>15 DEF ActivateBusiness
<1>16. CASE NextDay
  <2>1. UNCHANGED <<profile, request, latest, stale>> /\ today' = today + 1
    BY <1>16 DEF NextDay, content, verification
  <2>2. today \in Nat /\ today' \in Days
    BY <1>16, <2>1, ProfileAssumption DEF NextDay, Days, AuditInv, VerificationTyped
  <2>3. ASSUME NEW t \in Types, latest[t].action \in Positive, latest[t].expires >= today + 1
        PROVE  latest[t].expires >= today
    <3>1. latest[t] \in DecisionRows
      BY DEF AuditInv, VerificationTyped
    <3>2. latest[t] # NoDecision /\ latest[t] \notin [action : Negative]
      BY <2>3 DEF NoDecision, Positive, Negative
    <3>3. latest[t].expires \in Nat
      BY <3>1, <3>2, ProfileAssumption DEF DecisionRows, Never
    <3> QED BY <2>2, <2>3, <3>3
  <2>4. RemovalsAreAudited'
    BY <2>1, <2>3 DEF AuditInv, RemovalsAreAudited, Shown, Current
  <2> QED BY <2>1, <2>2, <2>4 DEF AuditInv, VerificationTyped, ProfileTyped, RequestTyped
<1>17. CASE UNCHANGED vars
  BY <1>2, <1>17 DEF vars, content
<1> QED
  BY <1>4, <1>5, <1>6, <1>7, <1>8, <1>9, <1>10, <1>11, <1>12, <1>13, <1>14, <1>15, <1>16,
     <1>17 DEF Next

\* update_profile: for any indicators and any values of their fields, one that staff gave
\* and that has not run out is shown, or an event names it.
THEOREM EveryRemovalIsAudited == Spec => []RemovalsAreAudited
<1>1. Init => AuditInv
  BY AuditInvInit
<1>2. AuditInv /\ [Next]_vars => AuditInv'
  BY AuditInvStep
<1>3. AuditInv => RemovalsAreAudited
  BY DEF AuditInv
<1> QED BY <1>1, <1>2, <1>3, PTL DEF Spec

-----------------------------------------------------------------------------
(* RowLocks: rows and orders.                                              *)

\* An order names every table once.
IsOrder(o) ==
    /\ Len(o) \in Nat /\ DOMAIN o = 1 .. Len(o)
    /\ \A i, j \in 1 .. Len(o) : o[i] = o[j] => i = j

LEMMA Orders == \A s \in DOMAIN LockOrder : IsOrder(LockOrder[s])
<1>1. \A s \in DOMAIN CashOrder : IsOrder(CashOrder[s])
  <2>1. IsOrder(<<"branch">>)
    BY DEF IsOrder
  <2>2. IsOrder(<<"drawer", "branch">>)
    BY DEF IsOrder
  <2> QED BY <2>1, <2>2 DEF CashOrder
<1>2. \A s \in DOMAIN SalesOrder : IsOrder(SalesOrder[s])
  <2>1. IsOrder(<<"sale">>)
    BY DEF IsOrder
  <2>2. IsOrder(<<"sale", "branch">>)
    BY DEF IsOrder
  <2>3. IsOrder(<<"sale", "branch", "variants", "products", "drawer", "business">>)
    BY DEF IsOrder
  <2>4. IsOrder(<<"sale", "branch", "saleReturn">>)
    BY DEF IsOrder
  <2>5. IsOrder(<<"saleReturn", "branch", "sale">>)
    BY DEF IsOrder
  <2>6. IsOrder(<<"saleReturn", "branch", "sale", "variants", "drawer", "business">>)
    BY DEF IsOrder
  <2>7. IsOrder(<<"saleReturn", "branch", "sale", "business", "variants">>)
    BY DEF IsOrder
  <2> QED BY <2>1, <2>2, <2>3, <2>4, <2>5, <2>6, <2>7 DEF SalesOrder
<1>3. \A s \in DOMAIN PurchasingOrder : IsOrder(PurchasingOrder[s])
  <2>1. IsOrder(<<"purchase">>)
    BY DEF IsOrder
  <2>2. IsOrder(<<"purchase", "branch", "business", "variants">>)
    BY DEF IsOrder
  <2>3. IsOrder(<<"purchase", "branch", "supplier", "purchaseReturn">>)
    BY DEF IsOrder
  <2>4. IsOrder(<<"purchaseReturn">>)
    BY DEF IsOrder
  <2>5. IsOrder(<<"purchaseReturn", "branch", "supplier", "purchase", "business", "variants">>)
    BY DEF IsOrder
  <2>6. IsOrder(<<"purchase", "purchaseReturn", "branch", "business", "variants">>)
    BY DEF IsOrder
  <2> QED BY <2>1, <2>2, <2>3, <2>4, <2>5, <2>6 DEF PurchasingOrder, ReversalOrder
<1>4. \A s \in DOMAIN SettlementOrder : IsOrder(SettlementOrder[s])
  <2>1. IsOrder(<<"expense", "branch", "drawer">>)
    BY DEF IsOrder
  <2>2. IsOrder(<<"purchase", "branch", "supplier", "drawer">>)
    BY DEF IsOrder
  <2>3. IsOrder(<<"purchase", "branch", "supplier", "purchaseReturn", "drawer">>)
    BY DEF IsOrder
  <2> QED BY <2>1, <2>2, <2>3 DEF SettlementOrder
<1>5. \A s \in DOMAIN InventoryOrder : IsOrder(InventoryOrder[s])
  <2>1. IsOrder(<<"branch", "business", "variants">>)
    BY DEF IsOrder
  <2>2. IsOrder(<<"branch", "business", "variants", "products">>)
    BY DEF IsOrder
  <2> QED BY <2>1, <2>2 DEF InventoryOrder, CountOrder
<1>6. \A app \in Apps : \A s \in DOMAIN app : IsOrder(app[s])
  BY <1>1, <1>2, <1>3, <1>4, <1>5 DEF Apps
<1>7. ASSUME NEW s \in DOMAIN LockOrder PROVE IsOrder(LockOrder[s])
  <2>1. PICK app \in Apps : s \in DOMAIN app
    BY DEF LockOrder
  <2> DEFINE chosen == CHOOSE a \in Apps : s \in DOMAIN a
  <2>2. chosen \in Apps /\ s \in DOMAIN chosen
    BY <2>1
  <2>3. LockOrder[s] = chosen[s]
    BY <2>1 DEF LockOrder
  <2> HIDE DEF chosen
  <2> QED BY <1>6, <2>2, <2>3
<1> QED BY <1>7

LEMMA OrderOfCall ==
    ASSUME NEW c, call[c] \in Target
    PROVE  IsOrder(Needs(c))
BY Orders, ServicesAssumption DEF Target, Needs

LEMMA RowsOfCall ==
    ASSUME NEW c, call[c] \in Target, NEW i \in 1 .. Len(Needs(c))
    PROVE  /\ RowAt(c, i) \in Rows
           /\ \A j \in 1 .. Len(Needs(c)) : RowAt(c, j) = RowAt(c, i) => j = i
<1>1. Needs(c)[i] \in ToSet(LockOrder[call[c].service])
  <2>1. i \in DOMAIN LockOrder[call[c].service]
    BY OrderOfCall DEF IsOrder, Needs
  <2> QED BY <2>1 DEF ToSet, Needs
<1>2. RowAt(c, i) \in Rows
  <2> DEFINE rowsOf(x) == {Row(t, x) : t \in ToSet(LockOrder[x.service])}
  <2>1. RowAt(c, i) \in rowsOf(call[c])
    BY <1>1 DEF RowAt
  <2>2. Rows = UNION {rowsOf(x) : x \in Target}
    BY DEF Rows
  <2> HIDE DEF rowsOf
  <2> QED BY <2>1, <2>2
<1>3. ASSUME NEW j \in 1 .. Len(Needs(c)), RowAt(c, j) = RowAt(c, i)
      PROVE  j = i
  <2>1. Needs(c)[j] = Needs(c)[i]
    BY <1>3 DEF RowAt, Row
  <2> QED BY <2>1, OrderOfCall DEF IsOrder
<1> QED BY <1>2, <1>3

LEMMA IdleIsNoTarget == Idle \notin Target
<1>1. "none" \notin DOMAIN LockOrder
  BY DEF LockOrder, Apps, CashOrder, SalesOrder, PurchasingOrder, SettlementOrder, InventoryOrder
<1> QED BY <1>1, ServicesAssumption DEF Idle, Target

-----------------------------------------------------------------------------
(* RowLocks: queues and calls.                                             *)

CallsOK ==
    /\ call \in [Callers -> Target \cup {Idle}]
    /\ asked \in [Callers -> Nat]
    /\ queue \in [Rows -> Seq(Callers)]
    /\ \A c \in Callers : IF call[c] = Idle THEN asked[c] = 0 ELSE asked[c] <= Len(Needs(c))

IsIn(c, q) == \E k \in 1 .. Len(q) : q[k] = c
\* Who is in a queue has asked for its row, and the other way round; once each.
QueuesAreAsked ==
    \A r \in Rows : \A c \in Callers :
        IsIn(c, queue[r]) => call[c] # Idle /\ \E i \in 1 .. asked[c] : RowAt(c, i) = r
AskedIsQueued ==
    \A c \in Callers : \A i \in 1 .. asked[c] : IsIn(c, queue[RowAt(c, i)])
Once(q) == \A k, l \in 1 .. Len(q) : q[k] = q[l] => k = l
QueuedOnce == \A r \in Rows : Once(queue[r])
\* A call asks for the next row when it has got the one before.
PassedIsHeld ==
    \A c \in Callers : \A i \in 1 .. asked[c] - 1 : Head(queue[RowAt(c, i)]) = c

QueueInv == CallsOK /\ QueuesAreAsked /\ AskedIsQueued /\ QueuedOnce /\ PassedIsHeld

LEMMA JoinFacts ==
    ASSUME NEW c \in Callers, NEW q \in Seq(Callers), Once(q), ~IsIn(c, q)
    PROVE  /\ Join(c, q) \in Seq(Callers) /\ Once(Join(c, q))
           /\ \A d : IsIn(d, Join(c, q)) <=> d = c \/ IsIn(d, q)
           /\ q # <<>> => Head(Join(c, q)) = Head(q)
<1>1. /\ Join(c, q) \in Seq(Callers) /\ Len(Join(c, q)) = Len(q) + 1
      /\ \A k \in 1 .. Len(q) : Join(c, q)[k] = q[k]
      /\ Join(c, q)[Len(q) + 1] = c
  BY DEF Join
<1>2. Once(Join(c, q))
  BY <1>1 DEF Once, IsIn
<1>3. ASSUME NEW d PROVE IsIn(d, Join(c, q)) <=> d = c \/ IsIn(d, q)
  BY <1>1 DEF IsIn
<1>4. q # <<>> => Head(Join(c, q)) = Head(q)
  BY <1>1
<1> QED BY <1>1, <1>2, <1>3, <1>4

LEMMA LeaveFacts ==
    ASSUME NEW c \in Callers, NEW q \in Seq(Callers), Once(q), IsIn(c, q) => Head(q) = c
    PROVE  /\ Leave(c, q) \in Seq(Callers) /\ Once(Leave(c, q))
           /\ \A d : IsIn(d, Leave(c, q)) <=> d # c /\ IsIn(d, q)
           /\ q # <<>> /\ Head(q) # c => Leave(c, q) = q
<1>1. CASE q # <<>> /\ Head(q) = c
  <2>1. /\ Leave(c, q) = Tail(q) /\ Len(q) \in Nat \ {0} /\ q[1] = c
        /\ Len(Tail(q)) = Len(q) - 1 /\ Tail(q) \in Seq(Callers)
        /\ \A k \in 1 .. Len(q) - 1 : Tail(q)[k] = q[k + 1]
    BY <1>1 DEF Leave
  <2>2. Once(Tail(q))
    BY <2>1 DEF Once
  <2>3. ASSUME NEW d, IsIn(d, Tail(q)) PROVE d # c /\ IsIn(d, q)
    BY <2>1, <2>3 DEF Once, IsIn
  <2>4. ASSUME NEW d, d # c, IsIn(d, q) PROVE IsIn(d, Tail(q))
    <3>1. PICK k \in 1 .. Len(q) : q[k] = d
      BY <2>4 DEF IsIn
    <3>2. k - 1 \in 1 .. Len(Tail(q)) /\ Tail(q)[k - 1] = d
      BY <2>1, <2>4, <3>1
    <3> QED BY <3>2 DEF IsIn
  <2> QED BY <1>1, <2>1, <2>2, <2>3, <2>4
<1>2. CASE ~(q # <<>> /\ Head(q) = c)
  <2>1. Leave(c, q) = q
    BY <1>2 DEF Leave
  <2>2. ~IsIn(c, q)
    BY <1>2 DEF IsIn
  <2> QED BY <2>1, <2>2
<1> QED BY <1>1, <1>2

LEMMA QueueInit == RLInit => QueueInv
BY DEF RLInit, QueueInv, CallsOK, QueuesAreAsked, AskedIsQueued, QueuedOnce, PassedIsHeld, IsIn, Once

LEMMA BeginStep ==
    ASSUME QueueInv, NEW c \in Callers, NEW x \in Target, Begin(c, x)
    PROVE  QueueInv'
<1>1. /\ asked[c] = 0 /\ call[c] = Idle /\ UNCHANGED <<asked, queue>>
      /\ call' \in [Callers -> Target \cup {Idle}] /\ call'[c] = x /\ x # Idle
      /\ \A d \in Callers : d # c => call'[d] = call[d]
  BY IdleIsNoTarget DEF QueueInv, CallsOK, Begin
<1>2. \A d \in Callers : d # c => \A i : RowAt(d, i)' = RowAt(d, i) /\ Needs(d)' = Needs(d)
  BY <1>1 DEF RowAt, Needs
<1>3. CallsOK'
  <2>1. IsOrder(Needs(c)')
    BY <1>1, Orders, ServicesAssumption DEF Needs, Target
  <2>2. asked'[c] = 0 /\ Len(Needs(c)') \in Nat
    BY <1>1, <2>1 DEF IsOrder
  <2>3. ASSUME NEW d \in Callers
        PROVE  IF call'[d] = Idle THEN asked'[d] = 0 ELSE asked'[d] <= Len(Needs(d)')
    <3>1. CASE d = c
      BY <1>1, <2>2, <3>1
    <3>2. CASE d # c
      BY <1>1, <1>2, <3>2 DEF QueueInv, CallsOK
    <3> QED BY <3>1, <3>2
  <2> QED BY <1>1, <2>3 DEF QueueInv, CallsOK
<1>4. QueuesAreAsked'
  BY <1>1, <1>2 DEF QueueInv, QueuesAreAsked
<1>5. AskedIsQueued'
  <2> SUFFICES ASSUME NEW d \in Callers, NEW i \in 1 .. asked'[d]
               PROVE  IsIn(d, queue'[RowAt(d, i)'])
    BY DEF AskedIsQueued
  <2>1. d # c
    BY <1>1
  <2> QED BY <1>1, <1>2, <2>1 DEF QueueInv, AskedIsQueued
<1>6. QueuedOnce'
  BY <1>1 DEF QueueInv, QueuedOnce
<1>7. PassedIsHeld'
  <2> SUFFICES ASSUME NEW d \in Callers, NEW i \in 1 .. asked'[d] - 1
               PROVE  Head(queue'[RowAt(d, i)']) = d
    BY DEF PassedIsHeld
  <2>1. d # c
    BY <1>1
  <2> QED BY <1>1, <1>2, <2>1 DEF QueueInv, PassedIsHeld
<1> QED BY <1>3, <1>4, <1>5, <1>6, <1>7 DEF QueueInv

LEMMA AskStep ==
    ASSUME QueueInv, NEW c \in Callers, Ask(c)
    PROVE  QueueInv'
<1> DEFINE n == asked[c] + 1
           r == RowAt(c, n)
<1>1. /\ call[c] \in Target /\ asked[c] \in Nat /\ asked[c] < Len(Needs(c)) /\ ~Waiting(c)
      /\ asked' = [asked EXCEPT ![c] = n] /\ queue' = [queue EXCEPT ![r] = Join(c, @)]
      /\ call' = call /\ IsOrder(Needs(c))
  BY OrderOfCall DEF QueueInv, CallsOK, Ask
<1>2. n \in 1 .. Len(Needs(c)) /\ r \in Rows
  <2>1. n \in 1 .. Len(Needs(c))
    BY <1>1 DEF IsOrder
  <2> QED BY <1>1, <2>1, RowsOfCall
<1>3. \A d, i : RowAt(d, i)' = RowAt(d, i) /\ Needs(d)' = Needs(d)
  BY <1>1 DEF RowAt, Needs
<1>4. ~IsIn(c, queue[r])
  <2> SUFFICES ASSUME IsIn(c, queue[r]) PROVE FALSE
    OBVIOUS
  <2>1. PICK i \in 1 .. asked[c] : RowAt(c, i) = r
    BY <1>2 DEF QueueInv, QueuesAreAsked
  <2>2. i \in 1 .. Len(Needs(c)) /\ i # n
    BY <1>1, <1>2, <2>1
  <2> QED BY <1>1, <1>2, <2>1, <2>2, RowsOfCall
<1>5. /\ Join(c, queue[r]) \in Seq(Callers) /\ Once(Join(c, queue[r]))
      /\ \A d : IsIn(d, Join(c, queue[r])) <=> d = c \/ IsIn(d, queue[r])
      /\ queue[r] # <<>> => Head(Join(c, queue[r])) = Head(queue[r])
  <2>1. queue[r] \in Seq(Callers) /\ Once(queue[r])
    BY <1>2 DEF QueueInv, CallsOK, QueuedOnce
  <2> QED BY <1>4, <2>1, JoinFacts
<1> HIDE DEF r
<1>6. /\ asked'[c] = n /\ \A d \in Callers : d # c => asked'[d] = asked[d]
      /\ queue'[r] = Join(c, queue[r]) /\ \A x \in Rows : x # r => queue'[x] = queue[x]
      /\ asked' \in [Callers -> Nat] /\ queue' \in [Rows -> Seq(Callers)]
  BY <1>1, <1>2, <1>5 DEF QueueInv, CallsOK
<1>7. CallsOK'
  <2>1. call[c] # Idle
    BY <1>1, IdleIsNoTarget
  <2> QED BY <1>1, <1>2, <1>3, <1>6, <2>1 DEF QueueInv, CallsOK
<1>8. QueuesAreAsked'
  <2> SUFFICES ASSUME NEW x \in Rows, NEW d \in Callers, IsIn(d, queue'[x])
               PROVE  call'[d] # Idle /\ \E i \in 1 .. asked'[d] : RowAt(d, i)' = x
    BY DEF QueuesAreAsked
  <2>1. CASE x = r /\ d = c
    BY <1>1, <1>2, <1>3, <1>6, <2>1, IdleIsNoTarget DEF r
  <2>2. CASE ~(x = r /\ d = c)
    <3>1. IsIn(d, queue[x])
      BY <1>5, <1>6, <2>2
    <3>2. call[d] # Idle /\ \E i \in 1 .. asked[d] : RowAt(d, i) = x
      BY <3>1 DEF QueueInv, QueuesAreAsked
    <3>3. asked[d] \in Nat /\ asked'[d] \in Nat /\ asked[d] <= asked'[d]
      BY <1>1, <1>6
    <3>4. PICK i \in 1 .. asked[d] : RowAt(d, i) = x
      BY <3>2
    <3>5. i \in 1 .. asked'[d] /\ RowAt(d, i)' = x
      BY <1>3, <3>3, <3>4
    <3> QED BY <1>1, <3>2, <3>5
  <2> QED BY <2>1, <2>2
<1>9. AskedIsQueued'
  <2> SUFFICES ASSUME NEW d \in Callers, NEW i \in 1 .. asked'[d]
               PROVE  IsIn(d, queue'[RowAt(d, i)])
    BY <1>3 DEF AskedIsQueued
  <2>1. CASE d = c /\ i = n
    BY <1>5, <1>6, <2>1 DEF r
  <2>2. CASE ~(d = c /\ i = n)
    <3>1. i \in 1 .. asked[d]
      BY <1>1, <1>6, <2>2
    <3>2. IsIn(d, queue[RowAt(d, i)])
      BY <3>1 DEF QueueInv, AskedIsQueued
    <3>3. call[d] \in Target /\ i \in 1 .. Len(Needs(d))
      <4>1. call[d] \in Target /\ asked[d] <= Len(Needs(d)) /\ asked[d] \in Nat
        BY <3>1 DEF QueueInv, CallsOK
      <4>2. IsOrder(Needs(d))
        BY <4>1, OrderOfCall
      <4> QED BY <3>1, <4>1, <4>2 DEF IsOrder
    <3>4. RowAt(d, i) \in Rows
      BY <3>3, RowsOfCall
    <3> QED BY <1>5, <1>6, <3>2, <3>4
  <2> QED BY <2>1, <2>2
<1>10. QueuedOnce'
  <2> SUFFICES ASSUME NEW x \in Rows PROVE Once(queue'[x])
    BY DEF QueuedOnce
  <2> QED BY <1>5, <1>6 DEF QueueInv, QueuedOnce
<1>11. PassedIsHeld'
  <2> SUFFICES ASSUME NEW d \in Callers, NEW i \in 1 .. asked'[d] - 1
               PROVE  Head(queue'[RowAt(d, i)]) = d
    BY <1>3 DEF PassedIsHeld
  <2>1. i \in 1 .. asked[d] /\ asked[d] \in Nat
    BY <1>1, <1>6 DEF QueueInv, CallsOK
  <2>2. Head(queue[RowAt(d, i)]) = d
    <3>1. CASE i \in 1 .. asked[d] - 1
      BY <3>1 DEF QueueInv, PassedIsHeld
    <3>2. CASE i \notin 1 .. asked[d] - 1
      <4>1. d = c /\ i = asked[c] /\ asked[c] > 0
        BY <1>1, <1>6, <2>1, <3>2
      <4> QED BY <1>1, <4>1 DEF Waiting, Wanted
    <3> QED BY <3>1, <3>2
  <2>3. IsIn(d, queue[RowAt(d, i)])
    BY <2>1 DEF QueueInv, AskedIsQueued
  <2>4. call[d] \in Target /\ i \in 1 .. Len(Needs(d))
    <3>1. call[d] \in Target /\ asked[d] <= Len(Needs(d))
      BY <2>1 DEF QueueInv, CallsOK
    <3>2. IsOrder(Needs(d))
      BY <3>1, OrderOfCall
    <3> QED BY <2>1, <3>1, <3>2 DEF IsOrder
  <2>5. RowAt(d, i) \in Rows
    BY <2>4, RowsOfCall
  <2>6. queue[RowAt(d, i)] # <<>>
    BY <2>3 DEF IsIn
  <2> QED BY <1>5, <1>6, <2>2, <2>5, <2>6
<1> QED BY <1>7, <1>8, <1>9, <1>10, <1>11 DEF QueueInv

\* A call that ends has got every row it asked for.
LEMMA ReleaseStep ==
    ASSUME QueueInv, NEW c \in Callers, ~Waiting(c), Release(c)
    PROVE  QueueInv'
<1>1. /\ call' \in [Callers -> Target \cup {Idle}] /\ asked' \in [Callers -> Nat]
      /\ call'[c] = Idle /\ asked'[c] = 0
      /\ \A d \in Callers : d # c => call'[d] = call[d] /\ asked'[d] = asked[d]
      /\ queue' = [r \in Rows |-> Leave(c, queue[r])]
  BY DEF QueueInv, CallsOK, Release
<1>2. \A d \in Callers : d # c => \A i : RowAt(d, i)' = RowAt(d, i) /\ Needs(d)' = Needs(d)
  BY <1>1 DEF RowAt, Needs
<1>3. ASSUME NEW r \in Rows, IsIn(c, queue[r])
      PROVE  Head(queue[r]) = c
  <2>1. PICK i \in 1 .. asked[c] : RowAt(c, i) = r
    BY <1>3 DEF QueueInv, QueuesAreAsked
  <2>2. asked[c] \in Nat
    BY DEF QueueInv, CallsOK
  <2>3. CASE i = asked[c]
    BY <2>1, <2>2, <2>3 DEF Waiting, Wanted
  <2>4. CASE i # asked[c]
    BY <2>1, <2>2, <2>4 DEF QueueInv, PassedIsHeld
  <2> QED BY <2>3, <2>4
<1>4. ASSUME NEW r \in Rows
      PROVE  /\ queue'[r] \in Seq(Callers) /\ Once(queue'[r])
             /\ \A d : IsIn(d, queue'[r]) <=> d # c /\ IsIn(d, queue[r])
             /\ queue[r] # <<>> /\ Head(queue[r]) # c => queue'[r] = queue[r]
  <2>1. queue[r] \in Seq(Callers) /\ Once(queue[r]) /\ queue'[r] = Leave(c, queue[r])
    BY <1>1 DEF QueueInv, CallsOK, QueuedOnce
  <2>2. IsIn(c, queue[r]) => Head(queue[r]) = c
    BY <1>3
  <2> QED BY <2>1, <2>2, LeaveFacts
<1>5. CallsOK'
  <2>1. queue' \in [Rows -> Seq(Callers)]
    BY <1>1, <1>4
  <2>2. ASSUME NEW d \in Callers
        PROVE  IF call'[d] = Idle THEN asked'[d] = 0 ELSE asked'[d] <= Len(Needs(d)')
    <3>1. CASE d = c
      BY <1>1, <3>1
    <3>2. CASE d # c
      BY <1>1, <1>2, <3>2 DEF QueueInv, CallsOK
    <3> QED BY <3>1, <3>2
  <2> QED BY <1>1, <2>1, <2>2 DEF CallsOK
<1>6. QueuesAreAsked'
  <2> SUFFICES ASSUME NEW r \in Rows, NEW d \in Callers, IsIn(d, queue'[r])
               PROVE  call'[d] # Idle /\ \E i \in 1 .. asked'[d] : RowAt(d, i)' = r
    BY DEF QueuesAreAsked
  <2>1. d # c /\ IsIn(d, queue[r])
    BY <1>4
  <2>2. call[d] # Idle /\ \E i \in 1 .. asked[d] : RowAt(d, i) = r
    BY <2>1 DEF QueueInv, QueuesAreAsked
  <2> QED BY <1>1, <1>2, <2>1, <2>2
<1>7. ASSUME NEW d \in Callers, NEW i \in 1 .. asked'[d]
      PROVE  /\ d # c /\ i \in 1 .. asked[d] /\ RowAt(d, i)' = RowAt(d, i) /\ RowAt(d, i) \in Rows
             /\ IsIn(d, queue[RowAt(d, i)])
  <2>1. d # c /\ i \in 1 .. asked[d] /\ RowAt(d, i)' = RowAt(d, i)
    BY <1>1, <1>2, <1>7
  <2>2. call[d] \in Target /\ asked[d] <= Len(Needs(d)) /\ asked[d] \in Nat
    BY <2>1 DEF QueueInv, CallsOK
  <2>3. IsOrder(Needs(d))
    BY <2>2, OrderOfCall
  <2>4. i \in 1 .. Len(Needs(d))
    BY <2>1, <2>2, <2>3 DEF IsOrder
  <2>5. RowAt(d, i) \in Rows
    BY <2>2, <2>4, RowsOfCall
  <2> QED BY <2>1, <2>5 DEF QueueInv, AskedIsQueued
<1>8. AskedIsQueued'
  <2> SUFFICES ASSUME NEW d \in Callers, NEW i \in 1 .. asked'[d]
               PROVE  IsIn(d, queue'[RowAt(d, i)'])
    BY DEF AskedIsQueued
  <2> QED BY <1>4, <1>7
<1>9. QueuedOnce'
  BY <1>4 DEF QueuedOnce
<1>10. PassedIsHeld'
  <2> SUFFICES ASSUME NEW d \in Callers, NEW i \in 1 .. asked'[d] - 1
               PROVE  Head(queue'[RowAt(d, i)']) = d
    BY DEF PassedIsHeld
  <2>1. asked'[d] \in Nat /\ i \in 1 .. asked'[d]
    BY <1>1
  <2>2. i \in 1 .. asked[d] - 1
    BY <1>1, <1>7, <2>1
  <2>3. Head(queue[RowAt(d, i)]) = d /\ d # c /\ RowAt(d, i) \in Rows /\ RowAt(d, i)' = RowAt(d, i)
    BY <1>7, <2>1, <2>2 DEF QueueInv, PassedIsHeld
  <2>4. queue[RowAt(d, i)] # <<>>
    BY <1>7, <2>1 DEF IsIn
  <2> QED BY <1>4, <2>3, <2>4
<1> QED BY <1>5, <1>6, <1>8, <1>9, <1>10 DEF QueueInv

LEMMA QueueStep == QueueInv /\ [RLNext]_rlVars => QueueInv'
<1> SUFFICES ASSUME QueueInv, [RLNext]_rlVars PROVE QueueInv'
  OBVIOUS
<1>1. ASSUME NEW c \in Callers, Commit(c) \/ Refuse(c) PROVE QueueInv'
  BY <1>1, ReleaseStep DEF Commit, Refuse
<1>2. ASSUME UNCHANGED rlVars PROVE QueueInv'
  BY <1>2 DEF rlVars, QueueInv, CallsOK, QueuesAreAsked, AskedIsQueued, QueuedOnce, PassedIsHeld,
              RowAt, Needs
<1> QED BY <1>1, <1>2, BeginStep, AskStep DEF RLNext

LEMMA QueuesInvariant == RLSpec => []QueueInv
BY QueueInit, QueueStep, PTL DEF RLSpec

-----------------------------------------------------------------------------
(* RowLocks: nobody waits in a circle.                                     *)

\* Two requests that have a row of table t in common have one of table g in common.
Covers(g, t) == \A x, y \in Target : Row(t, x) = Row(t, y) => Row(g, x) = Row(g, y)

\* The i-th lock of one service and the j-th of another can be one row that both get
\* as far as: no row they both locked before keeps them apart.
Meet(s, i, other, j) ==
    LET own == LockOrder[s]
        its == LockOrder[other]
    IN  /\ own[i] = its[j]
        /\ \A m \in 1 .. i - 1, n \in 1 .. j - 1 : own[m] = its[n] => ~Covers(own[m], own[i])

\* While a call holds its i-th row, one that holds others may come to wait for it.
Awaited(s, i) == \E other \in Services : \E j \in 2 .. Len(LockOrder[other]) : Meet(s, i, other, j)
\* A call may come to wait for its i-th row while the holder asks for more.
Awaits(s, i) == \E other \in Services : \E j \in 1 .. Len(LockOrder[other]) - 1 : Meet(s, i, other, j)

\* The services agree on one order of the tables, wherever they can be in each other's way.
InOneOrder ==
    \E depth \in [UNION {ToSet(LockOrder[s]) : s \in Services} -> Nat] :
        \A s \in Services : \A j \in DOMAIN LockOrder[s] : \A i \in 1 .. j - 1 :
            Awaited(s, i) /\ Awaits(s, j) => depth[LockOrder[s][j]] < depth[LockOrder[s][i]]

\* What a call that waits knows of the one it waits for.
LEMMA WaitingFacts ==
    ASSUME QueueInv, NEW c \in Callers, Waiting(c)
    PROVE  LET d == Head(queue[Wanted(c)])
           IN  /\ d \in Callers /\ d # c /\ call[d] \in Target /\ call[c] \in Target
               /\ asked[c] \in 1 .. Len(Needs(c))
               /\ \E i \in 1 .. asked[d] : RowAt(d, i) = Wanted(c)
<1> DEFINE r == Wanted(c)
           d == Head(queue[r])
<1>1. /\ asked[c] \in Nat \ {0} /\ call[c] \in Target /\ asked[c] <= Len(Needs(c)) /\ d # c
  BY DEF QueueInv, CallsOK, Waiting
<1>2. asked[c] \in 1 .. Len(Needs(c)) /\ r \in Rows
  <2>1. asked[c] \in 1 .. Len(Needs(c))
    BY <1>1, OrderOfCall DEF IsOrder
  <2> QED BY <1>1, <2>1, RowsOfCall DEF Wanted
<1>3. IsIn(c, queue[r])
  BY <1>1 DEF QueueInv, AskedIsQueued, Wanted
<1>4. d \in Callers /\ IsIn(d, queue[r])
  BY <1>2, <1>3 DEF QueueInv, CallsOK, IsIn
<1>5. call[d] \in Target /\ \E i \in 1 .. asked[d] : RowAt(d, i) = r
  <2>1. call[d] # Idle /\ \E i \in 1 .. asked[d] : RowAt(d, i) = r
    BY <1>2, <1>4 DEF QueueInv, QueuesAreAsked
  <2> QED BY <1>4, <2>1 DEF QueueInv, CallsOK
<1> QED BY <1>1, <1>2, <1>4, <1>5

\* Where two calls wait for one row, no row they both hold stood in the way.
LEMMA WhereTheyMeet ==
    ASSUME QueueInv, NEW c \in Callers, Waiting(c), NEW i \in 1 .. asked[Head(queue[Wanted(c)])],
           RowAt(Head(queue[Wanted(c)]), i) = Wanted(c)
    PROVE  LET d == Head(queue[Wanted(c)])
           IN  /\ Meet(call[d].service, i, call[c].service, asked[c])
               /\ Meet(call[c].service, asked[c], call[d].service, i)
<1> DEFINE d == Head(queue[Wanted(c)])
<1>1. d \in Callers /\ d # c /\ call[c] \in Target /\ call[d] \in Target
  BY WaitingFacts
<1>2. asked[c] \in Nat /\ asked[d] \in Nat
  BY <1>1 DEF QueueInv, CallsOK
<1> HIDE DEF d
<1>3. Needs(d)[i] = Needs(c)[asked[c]] /\ RowAt(d, i) = RowAt(c, asked[c])
  BY DEF d, Wanted, RowAt, Row
<1>4. ASSUME NEW m \in 1 .. i - 1, NEW n \in 1 .. asked[c] - 1, Needs(d)[m] = Needs(c)[n]
      PROVE  ~Covers(Needs(d)[m], Needs(d)[i])
  <2> SUFFICES ASSUME Covers(Needs(d)[m], Needs(d)[i]) PROVE FALSE
    OBVIOUS
  <2>1. RowAt(d, m) = RowAt(c, n)
    BY <1>1, <1>3, <1>4 DEF Covers, RowAt
  <2>2. m \in 1 .. asked[d] - 1
    BY <1>2 DEF d
  <2>3. Head(queue[RowAt(d, m)]) = d /\ Head(queue[RowAt(c, n)]) = c
    BY <1>1, <2>2 DEF QueueInv, PassedIsHeld
  <2> QED BY <1>1, <2>1, <2>3
<1>5. Meet(call[d].service, i, call[c].service, asked[c])
  BY <1>3, <1>4 DEF Meet, Needs
<1>6. Meet(call[c].service, asked[c], call[d].service, i)
  BY <1>3, <1>4 DEF Meet, Needs
<1> QED BY <1>5, <1>6 DEF d

\* A call that others wait for, and that waits itself, waits for a row it has asked for later.
LEMMA HeldBeforeWanted ==
    ASSUME QueueInv, NEW c \in Callers, Waiting(c), Waiting(Head(queue[Wanted(c)])),
           NEW i \in 1 .. asked[Head(queue[Wanted(c)])], RowAt(Head(queue[Wanted(c)]), i) = Wanted(c)
    PROVE  i < asked[Head(queue[Wanted(c)])]
<1> DEFINE d == Head(queue[Wanted(c)])
<1>1. d \in Callers
  BY WaitingFacts
<1>2. asked[d] \in Nat
  BY <1>1 DEF QueueInv, CallsOK
<1>3. Head(queue[RowAt(d, i)]) = d /\ Head(queue[RowAt(d, asked[d])]) # d
  BY DEF Waiting, Wanted
<1> HIDE DEF d
<1>4. i # asked[d]
  BY <1>3
<1> QED BY <1>2, <1>4 DEF d

LEMMA Least ==
    ASSUME NEW S \in SUBSET Nat, S # {}
    PROVE  \E m \in S : \A k \in S : ~(k < m)
<1>1. \E x \in S : \A y \in S : ~(<<y, x>> \in OpToRel(<, Nat))
  BY NatLessThanWellFounded, WFMin
<1> QED BY <1>1 DEF OpToRel

\* Along a circle the wanted tables would go down in the services' common order for ever.
LEMMA NoCircle == InOneOrder /\ QueueInv => NoCircularWait
<1> SUFFICES ASSUME InOneOrder, QueueInv, NEW D \in SUBSET Callers, D # {},
                    \A c \in D : \E d \in D : WaitsFor(c, d)
             PROVE  FALSE
  BY DEF NoCircularWait
<1> DEFINE held(c) == Head(queue[Wanted(c)])
           Tables == UNION {ToSet(LockOrder[s]) : s \in Services}
           Circle == {held(c) : c \in D}
           table(c) == Needs(c)[asked[c]]
<1>1. PICK depth \in [Tables -> Nat] :
          \A s \in Services : \A j \in DOMAIN LockOrder[s] : \A i \in 1 .. j - 1 :
              Awaited(s, i) /\ Awaits(s, j) => depth[LockOrder[s][j]] < depth[LockOrder[s][i]]
  BY DEF InOneOrder
<1>2. \A c \in D : Waiting(c) /\ held(c) \in D
  BY DEF WaitsFor
<1>3. ASSUME NEW c \in D
      PROVE  /\ call[c] \in Target /\ IsOrder(Needs(c)) /\ asked[c] \in 1 .. Len(Needs(c))
             /\ \E i \in 1 .. asked[held(c)] : RowAt(held(c), i) = Wanted(c)
  <2>1. c \in Callers /\ Waiting(c)
    BY <1>2
  <2>2. call[c] \in Target /\ asked[c] \in 1 .. Len(Needs(c))
        /\ \E i \in 1 .. asked[held(c)] : RowAt(held(c), i) = Wanted(c)
    BY <2>1, WaitingFacts
  <2> QED BY <2>2, OrderOfCall
<1>4. ASSUME NEW c \in D, NEW i \in 1 .. asked[held(c)], RowAt(held(c), i) = Wanted(c)
      PROVE  /\ Meet(call[held(c)].service, i, call[c].service, asked[c])
             /\ Meet(call[c].service, asked[c], call[held(c)].service, i)
             /\ i < asked[held(c)]
  BY <1>2, <1>4, WhereTheyMeet, HeldBeforeWanted
<1>5. \A c \in Circle : c \in D /\ asked[c] > 1
  <2> SUFFICES ASSUME NEW b \in D PROVE held(b) \in D /\ asked[held(b)] > 1
    OBVIOUS
  <2>1. PICK i \in 1 .. asked[held(b)] : RowAt(held(b), i) = Wanted(b)
    BY <1>3
  <2>2. i < asked[held(b)] /\ held(b) \in D
    BY <1>2, <1>4, <2>1
  <2>3. asked[held(b)] \in Nat
    BY <2>2 DEF QueueInv, CallsOK
  <2> QED BY <2>2, <2>3
<1> HIDE DEF Circle
<1>6. ASSUME NEW c \in Circle
      PROVE  held(c) \in Circle /\ depth[table(held(c))] < depth[table(c)]
  <2> DEFINE d == held(c)
             e == held(d)
             s == call[d].service
             j == asked[d]
  <2>1. c \in D /\ d \in D /\ e \in D /\ d \in Circle
    BY <1>2, <1>5 DEF Circle
  <2>2. PICK i \in 1 .. j : RowAt(d, i) = Wanted(c)
    BY <1>3, <2>1
  <2>3. PICK k \in 1 .. asked[e] : RowAt(e, k) = Wanted(d)
    BY <1>3, <2>1
  <2>4. Meet(s, i, call[c].service, asked[c]) /\ i < j
    BY <1>4, <2>1, <2>2
  <2>5. Meet(s, j, call[e].service, k) /\ k < asked[e]
    BY <1>4, <2>1, <2>3
  <2> HIDE DEF d, e, held
  <2>6. /\ s \in Services /\ call[c].service \in Services /\ call[e].service \in Services
        /\ Needs(c) = LockOrder[call[c].service] /\ Needs(d) = LockOrder[s]
        /\ Needs(e) = LockOrder[call[e].service]
    BY <1>3, <2>1 DEF Target, Needs
  <2>7. Awaited(s, i)
    <3>1. asked[c] > 1 /\ asked[c] \in 1 .. Len(Needs(c)) /\ Len(Needs(c)) \in Nat
      BY <1>3, <1>5, <2>1 DEF IsOrder
    <3>2. asked[c] \in 2 .. Len(LockOrder[call[c].service])
      BY <2>6, <3>1
    <3> QED BY <2>4, <2>6, <3>2 DEF Awaited
  <2>8. Awaits(s, j)
    <3>1. asked[e] \in 1 .. Len(Needs(e)) /\ Len(Needs(e)) \in Nat
      BY <1>3, <2>1 DEF IsOrder
    <3>2. k \in 1 .. Len(LockOrder[call[e].service]) - 1
      BY <2>3, <2>5, <2>6, <3>1
    <3> QED BY <2>5, <2>6, <3>2 DEF Awaits
  <2>9. j \in DOMAIN LockOrder[s] /\ i \in 1 .. j - 1
    <3>1. j \in 1 .. Len(Needs(d)) /\ DOMAIN Needs(d) = 1 .. Len(Needs(d))
      BY <1>3, <2>1 DEF IsOrder
    <3>2. j \in Nat
      BY <3>1
    <3> QED BY <2>2, <2>4, <2>6, <3>1, <3>2
  <2>10. depth[LockOrder[s][j]] < depth[LockOrder[s][i]]
    BY <1>1, <2>6, <2>7, <2>8, <2>9
  <2>11. table(d) = LockOrder[s][j] /\ table(c) = LockOrder[s][i]
    BY <2>2, <2>6 DEF RowAt, Row, Wanted
  <2> QED BY <2>1, <2>10, <2>11 DEF d
<1>7. ASSUME NEW c \in Circle
      PROVE  depth[table(c)] \in Nat
  <2>1. c \in D
    BY <1>5
  <2>2. asked[c] \in DOMAIN LockOrder[call[c].service] /\ call[c].service \in Services
    BY <1>3, <2>1 DEF IsOrder, Needs, Target
  <2>3. table(c) \in ToSet(LockOrder[call[c].service])
    BY <2>2 DEF ToSet, Needs
  <2>4. table(c) \in Tables
    BY <2>2, <2>3
  <2> QED BY <2>4
<1> HIDE DEF held, table
<1> DEFINE S == {depth[table(c)] : c \in Circle}
<1>8. S \in SUBSET Nat /\ S # {}
  BY <1>7 DEF Circle
<1>9. PICK m \in S : \A k \in S : ~(k < m)
  BY <1>8, Least
<1> QED BY <1>6, <1>9

\* A request may wait, but never all requests for one another: when the services called agree on
\* one order of the tables, no calls wait in a circle, whoever calls what, when, and for which rows.
THEOREM NoCircleInOneOrder ==
    ASSUME InOneOrder
    PROVE  RLSpec => []NoCircularWait
<1>1. QueueInv => NoCircularWait
  BY NoCircle
<1> QED BY <1>1, QueuesInvariant, PTL

\* As long as a request is being served, one of them does not wait.
SomeCallRuns ==
    (\E c \in Callers : call[c] # Idle) => \E c \in Callers : call[c] # Idle /\ ~Waiting(c)

\* The server never comes to a standstill on its locks: whoever waits, waits in the end for a
\* call that runs.
COROLLARY SomeCallAlwaysRuns ==
    ASSUME InOneOrder
    PROVE  RLSpec => []SomeCallRuns
<1>1. ASSUME QueueInv PROVE SomeCallRuns
  <2> DEFINE D == {c \in Callers : call[c] # Idle}
  <2> SUFFICES ASSUME D # {}, \A c \in D : Waiting(c) PROVE FALSE
    BY DEF SomeCallRuns
  <2>1. ASSUME NEW c \in D PROVE \E d \in D : WaitsFor(c, d)
    <3>1. Head(queue[Wanted(c)]) \in Callers /\ call[Head(queue[Wanted(c)])] \in Target
      BY <1>1, WaitingFacts
    <3>2. Head(queue[Wanted(c)]) \in D
      BY <3>1, IdleIsNoTarget
    <3> QED BY <3>2 DEF WaitsFor
  <2>2. NoCircularWait
    BY <1>1, NoCircle
  <2> HIDE DEF D
  <2>3. D \in SUBSET Callers
    BY DEF D
  <2> QED BY <2>1, <2>2, <2>3 DEF NoCircularWait
<1> QED BY <1>1, QueuesInvariant, PTL

-----------------------------------------------------------------------------
(* RowLocks: fifteen services of one order.                                *)

Ordered ==
    {"open_cash_session", "save_sale_draft", "cancel_sale", "save_sale_return_draft",
     "cancel_purchase", "receive_purchase", "save_purchase_return_draft",
     "cancel_purchase_return", "reverse_purchase_return", "post_operating_expense",
     "post_supplier_payment", "post_supplier_return_settlement", "start_stock_count",
     "approve_stock_count", "post_inventory_adjustment"}

\* The place of a table in their order.  The row of a purchase return is locked now before the
\* branch and now after it, but always under its purchase.
Place ==
    [sale |-> 1, purchase |-> 1, expense |-> 1, branch |-> 2, supplier |-> 3, saleReturn |-> 3,
     drawer |-> 4, business |-> 5, variants |-> 6, products |-> 7, purchaseReturn |-> 0]

InPlace(o) ==
    \A j \in DOMAIN o : \A i \in 1 .. j - 1 :
        o[i] = "purchaseReturn" \/ o[j] = "purchaseReturn" \/ Place[o[i]] < Place[o[j]]
UnderItsPurchase(o) ==
    \A k \in DOMAIN o : o[k] = "purchaseReturn" /\ Len(o) > 1 => k > 1 /\ o[1] = "purchase"
Fits(o) == ToSet(o) \subseteq DOMAIN Place /\ InPlace(o) /\ UnderItsPurchase(o)

LEMMA OrderIn ==
    ASSUME NEW app \in Apps, NEW s \in DOMAIN app
    PROVE  s \in DOMAIN LockOrder /\ LockOrder[s] = app[s]
<1>1. \A a, b \in Apps : DOMAIN a \cap DOMAIN b # {} => a = b
  <2>1. /\ DOMAIN CashOrder \cap DOMAIN SalesOrder = {}
        /\ DOMAIN CashOrder \cap DOMAIN PurchasingOrder = {}
        /\ DOMAIN CashOrder \cap DOMAIN SettlementOrder = {}
        /\ DOMAIN CashOrder \cap DOMAIN InventoryOrder = {}
    BY DEF CashOrder, SalesOrder, PurchasingOrder, SettlementOrder, InventoryOrder
  <2>2. /\ DOMAIN SalesOrder \cap DOMAIN PurchasingOrder = {}
        /\ DOMAIN SalesOrder \cap DOMAIN SettlementOrder = {}
        /\ DOMAIN SalesOrder \cap DOMAIN InventoryOrder = {}
    BY DEF SalesOrder, PurchasingOrder, SettlementOrder, InventoryOrder
  <2>3. /\ DOMAIN PurchasingOrder \cap DOMAIN SettlementOrder = {}
        /\ DOMAIN PurchasingOrder \cap DOMAIN InventoryOrder = {}
        /\ DOMAIN SettlementOrder \cap DOMAIN InventoryOrder = {}
    BY DEF PurchasingOrder, SettlementOrder, InventoryOrder
  <2> QED BY <2>1, <2>2, <2>3 DEF Apps
<1> DEFINE chosen == CHOOSE a \in Apps : s \in DOMAIN a
<1>2. chosen \in Apps /\ s \in DOMAIN chosen
  OBVIOUS
<1>3. s \in DOMAIN LockOrder /\ LockOrder[s] = chosen[s]
  BY DEF LockOrder
<1> HIDE DEF chosen
<1> QED BY <1>1, <1>2, <1>3

LEMMA OrderedFits == \A s \in Ordered : s \in DOMAIN LockOrder /\ Fits(LockOrder[s])
<1>1. /\ Fits(<<"branch">>) /\ Fits(<<"sale">>) /\ Fits(<<"sale", "branch">>)
      /\ Fits(<<"purchase">>) /\ Fits(<<"purchaseReturn">>)
  BY DEF Fits, ToSet, InPlace, UnderItsPurchase, Place
<1>2. Fits(<<"sale", "branch", "saleReturn">>) /\ Fits(<<"expense", "branch", "drawer">>)
  BY DEF Fits, ToSet, InPlace, UnderItsPurchase, Place
<1>3. Fits(<<"purchase", "branch", "business", "variants">>)
  BY DEF Fits, ToSet, InPlace, UnderItsPurchase, Place
<1>4. Fits(<<"purchase", "branch", "supplier", "purchaseReturn">>)
  BY DEF Fits, ToSet, InPlace, UnderItsPurchase, Place
<1>5. Fits(<<"purchase", "purchaseReturn", "branch", "business", "variants">>)
  BY DEF Fits, ToSet, InPlace, UnderItsPurchase, Place
<1>6. Fits(<<"purchase", "branch", "supplier", "drawer">>)
  BY DEF Fits, ToSet, InPlace, UnderItsPurchase, Place
<1>7. Fits(<<"purchase", "branch", "supplier", "purchaseReturn", "drawer">>)
  BY DEF Fits, ToSet, InPlace, UnderItsPurchase, Place
<1>8. Fits(<<"branch", "business", "variants">>)
  BY DEF Fits, ToSet, InPlace, UnderItsPurchase, Place
<1>9. Fits(<<"branch", "business", "variants", "products">>)
  BY DEF Fits, ToSet, InPlace, UnderItsPurchase, Place
<1>10. /\ \A s \in Ordered \cap DOMAIN CashOrder : Fits(CashOrder[s])
       /\ \A s \in Ordered \cap DOMAIN SettlementOrder : Fits(SettlementOrder[s])
       /\ \A s \in Ordered \cap DOMAIN InventoryOrder : Fits(InventoryOrder[s])
  BY <1>1, <1>2, <1>6, <1>7, <1>8, <1>9 DEF Ordered, CashOrder, SettlementOrder, InventoryOrder, CountOrder
<1>11. \A s \in Ordered \cap DOMAIN SalesOrder : Fits(SalesOrder[s])
  BY <1>1, <1>2 DEF Ordered, SalesOrder
<1>12. \A s \in Ordered \cap DOMAIN PurchasingOrder : Fits(PurchasingOrder[s])
  BY <1>1, <1>3, <1>4, <1>5 DEF Ordered, PurchasingOrder, ReversalOrder
<1>13. \A s \in Ordered : \E app \in Apps : s \in DOMAIN app
  BY DEF Ordered, Apps, CashOrder, SalesOrder, PurchasingOrder, SettlementOrder, InventoryOrder
<1>14. \A app \in Apps : \A s \in Ordered \cap DOMAIN app : Fits(app[s])
  BY <1>10, <1>11, <1>12 DEF Apps
<1> QED BY <1>13, <1>14, OrderIn

LEMMA PurchaseCoversItsReturn == Covers("purchase", "purchaseReturn")
BY DEF Covers, Row, OfBusiness, OfBranch

LEMMA OrderedInOneOrder == Services \subseteq Ordered => InOneOrder
<1> SUFFICES ASSUME Services \subseteq Ordered PROVE InOneOrder
  OBVIOUS
<1> DEFINE Tables == UNION {ToSet(LockOrder[s]) : s \in Services}
           depth == [t \in Tables |-> 7 - Place[t]]
<1>1. \A s \in Services : IsOrder(LockOrder[s]) /\ Fits(LockOrder[s])
  BY Orders, OrderedFits
<1>2. \A t \in DOMAIN Place : Place[t] \in 0 .. 7
  BY DEF Place
<1>3. depth \in [Tables -> Nat]
  <2>1. Tables \subseteq DOMAIN Place
    BY <1>1 DEF Fits
  <2> QED BY <1>2, <2>1
<1>4. ASSUME NEW s \in Services, NEW k \in DOMAIN LockOrder[s], Len(LockOrder[s]) > 1,
             LockOrder[s][k] = "purchaseReturn",
             NEW other \in Services, NEW l \in DOMAIN LockOrder[other], Len(LockOrder[other]) > 1
      PROVE  ~Meet(s, k, other, l)
  <2> SUFFICES ASSUME Meet(s, k, other, l) PROVE FALSE
    OBVIOUS
  <2>1. k > 1 /\ LockOrder[s][1] = "purchase"
    BY <1>1, <1>4 DEF Fits, UnderItsPurchase
  <2>2. LockOrder[other][l] = "purchaseReturn"
    BY <1>4 DEF Meet
  <2>3. l > 1 /\ LockOrder[other][1] = "purchase"
    BY <1>1, <1>4, <2>2 DEF Fits, UnderItsPurchase
  <2>4. k \in Nat /\ l \in Nat
    BY <1>1 DEF IsOrder
  <2>5. 1 \in 1 .. k - 1 /\ 1 \in 1 .. l - 1
    BY <2>1, <2>3, <2>4
  <2>6. ~Covers("purchase", "purchaseReturn")
    BY <1>4, <2>1, <2>3, <2>5 DEF Meet
  <2> QED BY <2>6, PurchaseCoversItsReturn
<1>5. ASSUME NEW s \in Services, NEW j \in DOMAIN LockOrder[s], NEW i \in 1 .. j - 1,
             Awaited(s, i), Awaits(s, j)
      PROVE  depth[LockOrder[s][j]] < depth[LockOrder[s][i]]
  <2>1. Len(LockOrder[s]) \in Nat /\ DOMAIN LockOrder[s] = 1 .. Len(LockOrder[s])
    BY <1>1 DEF IsOrder
  <2>2. i \in DOMAIN LockOrder[s] /\ Len(LockOrder[s]) > 1
    BY <2>1
  <2>3. PICK other \in Services : \E k \in 2 .. Len(LockOrder[other]) : Meet(s, i, other, k)
    BY <1>5 DEF Awaited
  <2>4. LockOrder[s][i] # "purchaseReturn"
    <3>1. PICK k \in 2 .. Len(LockOrder[other]) : Meet(s, i, other, k)
      BY <2>3
    <3>2. Len(LockOrder[other]) \in Nat /\ DOMAIN LockOrder[other] = 1 .. Len(LockOrder[other])
      BY <1>1 DEF IsOrder
    <3>3. k \in DOMAIN LockOrder[other] /\ Len(LockOrder[other]) > 1
      BY <3>2
    <3> QED BY <1>4, <2>2, <3>1, <3>3
  <2>5. LockOrder[s][j] # "purchaseReturn"
    <3>1. PICK its \in Services : \E k \in 1 .. Len(LockOrder[its]) - 1 : Meet(s, j, its, k)
      BY <1>5 DEF Awaits
    <3>2. Len(LockOrder[its]) \in Nat /\ DOMAIN LockOrder[its] = 1 .. Len(LockOrder[its])
      BY <1>1 DEF IsOrder
    <3>3. PICK k \in 1 .. Len(LockOrder[its]) - 1 : Meet(s, j, its, k)
      BY <3>1
    <3>4. k \in DOMAIN LockOrder[its] /\ Len(LockOrder[its]) > 1
      BY <3>2
    <3> QED BY <1>4, <2>2, <3>3, <3>4
  <2>6. Place[LockOrder[s][i]] < Place[LockOrder[s][j]]
    BY <1>1, <2>4, <2>5 DEF Fits, InPlace
  <2>7. LockOrder[s][i] \in ToSet(LockOrder[s]) /\ LockOrder[s][j] \in ToSet(LockOrder[s])
    BY <2>2 DEF ToSet
  <2>8. LockOrder[s][i] \in Tables /\ LockOrder[s][j] \in Tables
    BY <2>7
  <2>9. /\ Place[LockOrder[s][i]] \in 0 .. 7 /\ Place[LockOrder[s][j]] \in 0 .. 7
        /\ depth[LockOrder[s][i]] = 7 - Place[LockOrder[s][i]]
        /\ depth[LockOrder[s][j]] = 7 - Place[LockOrder[s][j]]
    BY <1>1, <1>2, <2>7, <2>8 DEF Fits
  <2> QED BY <2>6, <2>9
<1> HIDE DEF depth, Tables
<1>6. \E f \in [Tables -> Nat] :
        \A s \in Services : \A j \in DOMAIN LockOrder[s] : \A i \in 1 .. j - 1 :
            Awaited(s, i) /\ Awaits(s, j) => f[LockOrder[s][j]] < f[LockOrder[s][i]]
  BY <1>3, <1>5
<1> QED BY <1>6 DEF InOneOrder, Tables

\* Fifteen of the services never wait for one another in a circle, however many requests, branches
\* and documents there are.
THEOREM OrderedNeverCircle ==
    ASSUME Services \subseteq Ordered
    PROVE  RLSpec => []NoCircularWait
BY OrderedInOneOrder, NoCircleInOneOrder

=============================================================================
