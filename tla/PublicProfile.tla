---------------------------- MODULE PublicProfile ----------------------------
(***************************************************************************)
(* The public profile of a business: src/apps/public_profiles/services.py. *)
(* Managers keep its content and the owner publishes it, platform staff    *)
(* suspends it and decides on requests for verification indicators, and    *)
(* visitors are counted in daily buckets.                                  *)
(*                                                                         *)
(* Every service is one transaction on the locked profile, except that the *)
(* page of a visitor is read without a lock and its bucket counted after   *)
(* that.  An indicator is about a subject, the fields it was given for;    *)
(* the subject's fingerprint stands for their values, here a member of     *)
(* Values or Empty.  Of the decisions on an indicator only the latest is   *)
(* ever read again.                                                        *)
(***************************************************************************)
EXTENDS Naturals, FiniteSets

CONSTANTS
    Types,          \* VerificationType
    Contact,        \* the one whose subject is the phone, the e-mail and the website
    Values, Empty,  \* values of a subject
    Requests,       \* pool of verification requests
    Visitors,
    Owners, Managers, Reviewers, Suspenders,
    MaxToday,       \* bound on the clock
    MaxViews        \* bound on the views of a day

ASSUME ProfileAssumption ==
    /\ Contact \in Types /\ Empty \notin Values
    /\ Owners \subseteq Managers
    /\ MaxToday \in Nat /\ MaxViews \in Nat

VARIABLES
    profile,    \* PublicBusinessProfile
    links,      \* whether it has an active PublicContactLink
    active,     \* whether the business is
    today,
    request,    \* PublicVerificationRequest rows
    latest,     \* the latest PublicVerificationDecision on an indicator
    stale,      \* the types a VERIFICATION_STALE event has named since their latest decision
    visit,      \* visitors between reading a page and counting it
    bucket,     \* PublicStorefrontDailyMetric.count, 0 when there is no row
    viewed      \* number of counted visits

content == <<profile, links, active>>
verification == <<request, latest, stale>>
metrics == <<visit, bucket, viewed>>
vars == <<content, today, verification, metrics>>

Days == 0 .. MaxToday
Never == MaxToday + 1           \* expires_on is null
Subjects == Values \cup {Empty}
NoRequest == [status |-> "ABSENT"]
NoDecision == [action |-> "NONE"]
Positive == {"APPROVE", "RENEW"}
Negative == {"REJECT", "REVOKE", "EXPIRE"}
Away == [step |-> "AWAY"]

TypeOK ==
    /\ profile \in [status : {"DRAFT", "PUBLISHED", "UNPUBLISHED"}, suspended : BOOLEAN,
                    described : BOOLEAN, subject : [Types -> Subjects]]
    /\ links \in BOOLEAN
    /\ active \in BOOLEAN
    /\ today \in Days
    /\ request \in [Requests -> {NoRequest} \cup
           [type : Types, status : {"PENDING", "APPROVED", "REJECTED"}]]
    /\ latest \in [Types -> {NoDecision} \cup [action : Negative] \cup
           [action : Positive, subject : Subjects, expires : 0 .. Never]]
    /\ stale \in SUBSET Types
    /\ visit \in [Visitors -> {Away} \cup
           [step : {"READ"}] \cup [step : {"LOOKED"}, day : Days, read : 0 .. MaxViews]]
    /\ bucket \in [Days -> 0 .. MaxViews]
    /\ viewed \in [Days -> 0 .. MaxViews]

Init ==
    /\ profile = [status |-> "DRAFT", suspended |-> FALSE, described |-> FALSE,
                  subject |-> [t \in Types |-> Empty]]
    /\ links = FALSE
    /\ active = TRUE
    /\ today = 0
    /\ request = [r \in Requests |-> NoRequest]
    /\ latest = [t \in Types |-> NoDecision]
    /\ stale = {}
    /\ visit = [v \in Visitors |-> Away]
    /\ bucket = [d \in Days |-> 0]
    /\ viewed = [d \in Days |-> 0]

-----------------------------------------------------------------------------

MayManage(a) == a \in Managers /\ active
MayOwn(a) == a \in Owners /\ active

\* verification_is_current
Current(t, subject) ==
    /\ latest[t].action \in Positive
    /\ latest[t].subject = subject
    /\ latest[t].expires >= today

\* The types that were current before the update, and are not about the same subject
\* after it, are named in one system event.
TurnedStaleAfter(subjects) ==
    {t \in Types : Current(t, subjects[t]) /\ profile.subject[t] # subjects[t]}
TurnedStale(subjects) ==
    {t \in Types : Current(t, profile.subject[t]) /\ profile.subject[t] # subjects[t]}

UpdateProfile(a) ==
    /\ MayManage(a)
    /\ \E subjects \in [Types -> Subjects], described \in BOOLEAN :
           /\ profile' = [profile EXCEPT !.subject = subjects, !.described = described]
           /\ stale' = stale \cup TurnedStale(subjects)
    /\ UNCHANGED <<links, active, today, request, latest, metrics>>

UpdateContactLinks(a) ==
    /\ MayManage(a)
    /\ links' \in BOOLEAN
    /\ UNCHANGED <<profile, active, today, verification, metrics>>

\* publish_profile: the content is checked before a profile that is published already.
Ready ==
    /\ profile.described
    /\ profile.subject[Contact] # Empty \/ links
Publish(a) ==
    /\ MayOwn(a)
    /\ ~profile.suspended
    /\ Ready
    /\ profile' = [profile EXCEPT !.status = "PUBLISHED"]
    /\ UNCHANGED <<links, active, today, verification, metrics>>
Unpublish(a) ==
    /\ MayOwn(a)
    /\ profile' = [profile EXCEPT !.status = "UNPUBLISHED"]
    /\ UNCHANGED <<links, active, today, verification, metrics>>

Suspend(u) ==
    /\ u \in Suspenders
    /\ profile' = [profile EXCEPT !.suspended = TRUE]
    /\ UNCHANGED <<links, active, today, verification, metrics>>
Reinstate(u) ==
    /\ u \in Suspenders
    /\ profile' = [profile EXCEPT !.suspended = FALSE]
    /\ UNCHANGED <<links, active, today, verification, metrics>>

-----------------------------------------------------------------------------
(* Verification.                                                           *)

Pending(t) == {r \in Requests : request[r] = [type |-> t, status |-> "PENDING"]}

\* An appeal is a request as well, whose parent has been decided.
SubmitRequest(a, r, t) ==
    /\ MayOwn(a)
    /\ request[r] = NoRequest
    /\ profile.subject[t] # Empty
    /\ Pending(t) = {}
    /\ request' = [request EXCEPT ![r] = [type |-> t, status |-> "PENDING"]]
    /\ UNCHANGED <<content, today, latest, stale, metrics>>

Decide(t, decision) ==
    /\ latest' = [latest EXCEPT ![t] = decision]
    /\ stale' = stale \ {t}
    /\ UNCHANGED <<content, today, metrics>>

\* The subject is the one the profile has now, whatever it was when the request was made.
Reviewed(t, action) ==
    \E expires \in 0 .. Never :
        Decide(t, [action |-> action, subject |-> profile.subject[t], expires |-> expires])

Approve(u, r) ==
    /\ u \in Reviewers
    /\ request[r].status = "PENDING"
    /\ profile.subject[request[r].type] # Empty
    /\ Reviewed(request[r].type, "APPROVE")
    /\ request' = [request EXCEPT ![r] = [type |-> request[r].type, status |-> "APPROVED"]]
Reject(u, r) ==
    /\ u \in Reviewers
    /\ request[r].status = "PENDING"
    /\ Decide(request[r].type, [action |-> "REJECT"])
    /\ request' = [request EXCEPT ![r] = [type |-> request[r].type, status |-> "REJECTED"]]

Revoke(u, t) ==
    /\ u \in Reviewers
    /\ Current(t, profile.subject[t])
    /\ Decide(t, [action |-> "REVOKE"])
    /\ UNCHANGED request
\* Any decision can be renewed or expired, a rejection and a revocation too.
Renew(u, t) ==
    /\ u \in Reviewers
    /\ latest[t] # NoDecision
    /\ Reviewed(t, "RENEW")
    /\ UNCHANGED request
Expire(u, t) ==
    /\ u \in Reviewers
    /\ latest[t] # NoDecision
    /\ Decide(t, [action |-> "EXPIRE"])
    /\ UNCHANGED request

-----------------------------------------------------------------------------
(* Visitors.                                                               *)

\* _public_profile_queryset
Visible == active /\ profile.status = "PUBLISHED" /\ ~profile.suspended

Goto(v, place) == visit' = [visit EXCEPT ![v] = place]

OpenPage(v) ==
    /\ visit[v] = Away
    /\ Visible
    /\ Goto(v, [step |-> "READ"])
    /\ UNCHANGED <<content, today, verification, bucket, viewed>>

\* increment_metric: get_or_create looks for the bucket of the day ...
Look(v) ==
    /\ visit[v].step = "READ"
    /\ viewed[today] + Cardinality({w \in Visitors : visit[w].step = "LOOKED"}) < MaxViews
    /\ Goto(v, [step |-> "LOOKED", day |-> today, read |-> bucket[today]])
    /\ UNCHANGED <<content, today, verification, bucket, viewed>>

Count(v, count) ==
    /\ bucket' = [bucket EXCEPT ![visit[v].day] = count]
    /\ viewed' = [viewed EXCEPT ![visit[v].day] = @ + 1]
    /\ Goto(v, Away)
    /\ UNCHANGED <<content, today, verification>>

\* ... inserts one, unless another visitor has inserted it meanwhile ...
Insert(v) ==
    /\ visit[v].step = "LOOKED" /\ visit[v].read = 0
    /\ bucket[visit[v].day] = 0
    /\ Count(v, 1)
LoseInsert(v) ==
    /\ visit[v].step = "LOOKED" /\ visit[v].read = 0
    /\ bucket[visit[v].day] # 0
    /\ Goto(v, [step |-> "LOOKED", day |-> visit[v].day, read |-> bucket[visit[v].day]])
    /\ UNCHANGED <<content, today, verification, bucket, viewed>>

\* ... and adds one to what the database has then.
IncreasedFromRead(v) == visit[v].read + 1
Increased(v) == bucket[visit[v].day] + 1
Update(v) ==
    /\ visit[v].step = "LOOKED" /\ visit[v].read # 0
    /\ Count(v, Increased(v))

Die(v) ==
    /\ visit[v] # Away
    /\ Goto(v, Away)
    /\ UNCHANGED <<content, today, verification, bucket, viewed>>

-----------------------------------------------------------------------------
(* The rest of the world.                                                  *)

ActivateBusiness ==
    /\ active' = ~active
    /\ UNCHANGED <<profile, links, today, verification, metrics>>
NextDay ==
    /\ today < MaxToday
    /\ today' = today + 1
    /\ UNCHANGED <<content, verification, metrics>>

Next ==
    \/ \E a \in Managers :
        \/ UpdateProfile(a) \/ UpdateContactLinks(a)
        \/ Publish(a) \/ Unpublish(a)
        \/ \E r \in Requests, t \in Types : SubmitRequest(a, r, t)
    \/ \E u \in Suspenders : Suspend(u) \/ Reinstate(u)
    \/ \E u \in Reviewers :
        \/ \E r \in Requests : Approve(u, r) \/ Reject(u, r)
        \/ \E t \in Types : Revoke(u, t) \/ Renew(u, t) \/ Expire(u, t)
    \/ \E v \in Visitors :
        OpenPage(v) \/ Look(v) \/ Insert(v) \/ LoseInsert(v) \/ Update(v) \/ Die(v)
    \/ ActivateBusiness \/ NextDay

Spec == Init /\ [][Next]_vars

-----------------------------------------------------------------------------

\* No view is lost or counted twice: the count of a day's bucket is the number of visits
\* whose request went through, however their reads, inserts and updates interleave.
ViewsAreCounted == bucket = viewed

\* _active_verifications
Shown(t) == Current(t, profile.subject[t])

\* "every transition is immutable and auditable"
\* (docs/features/stage-7-public-profile-qr-storefront.md:304): an indicator that staff
\* gave and that has not run out is on the page, or a VERIFICATION_STALE event since the
\* decision says why it is not.
RemovalsAreAudited ==
    \A t \in Types :
        latest[t].action \in Positive /\ latest[t].expires >= today
            => Shown(t) \/ t \in stale

=============================================================================
