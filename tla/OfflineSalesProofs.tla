--------------------------- MODULE OfflineSalesProofs ---------------------------
(***************************************************************************)
(* Theorems about OfflineSales, for every set of drafts and prices and     *)
(* every bound: evidence and sale come together and once, and the queue of *)
(* the page and the services implement the abstract delivery.              *)
(***************************************************************************)
EXTENDS OfflineSales, FiniteSetTheorems, TLAPS

Domains == DOMAIN entry = Drafts /\ DOMAIN working = Drafts /\ DOMAIN evidence = Drafts

\* The row of a sync key is held by a request only until there is evidence.
ClaimsAreOpen ==
    \A d \in Drafts : working[d] # NoCall => evidence[d] = "none"

SalesHaveEvidence ==
    /\ \A s \in sales : s.draft \in Drafts /\ evidence[s.draft] \in Saved
    /\ \A s, t \in sales : s.draft = t.draft => s = t
    /\ \A d \in Drafts : evidence[d] \in Saved => \E s \in sales : s.draft = d

\* What a device hears, and what it has heard, of a sale is true of the server.
RepliesAreTrue ==
    \A d \in Drafts, status \in Saved :
        [draft |-> d, status |-> status] \in replies => evidence[d] \in Saved
EntriesAreTrue ==
    \A d \in Drafts : entry[d] \in Saved => evidence[d] \in Saved

DeliveryInv ==
    /\ Domains /\ ClaimsAreOpen /\ SalesHaveEvidence /\ RepliesAreTrue /\ EntriesAreTrue

-----------------------------------------------------------------------------
(* The invariant.                                                          *)

LEMMA DeliveryInvInit == Init => DeliveryInv
<1> SUFFICES ASSUME Init PROVE DeliveryInv
  OBVIOUS
<1>1. Domains /\ sales = {} /\ replies = {}
      /\ \A d \in Drafts : entry[d] = "none" /\ evidence[d] = "none"
  BY DEF Init, Domains
<1> QED
  BY <1>1 DEF DeliveryInv, ClaimsAreOpen, SalesHaveEvidence, RepliesAreTrue, EntriesAreTrue,
              Saved

\* A step that decides nothing may claim open drafts and repeat what is decided.
LEMMA UndecidedPreserves ==
  ASSUME DeliveryInv, UNCHANGED <<evidence, sales>>,
         DOMAIN entry' = Drafts, DOMAIN working' = Drafts,
         \A d \in Drafts : working'[d] # NoCall => working[d] # NoCall \/ evidence[d] = "none",
         \A d \in Drafts : entry'[d] \in Saved => entry[d] \in Saved \/ evidence[d] \in Saved,
         \A d \in Drafts, status \in Saved :
             [draft |-> d, status |-> status] \in replies'
                 => [draft |-> d, status |-> status] \in replies \/ evidence[d] \in Saved
  PROVE  DeliveryInv'
<1>1. Domains'
  BY DEF DeliveryInv, Domains
<1>2. ClaimsAreOpen'
  <2>1. \A d \in Drafts : working'[d] # NoCall => evidence'[d] = "none"
    BY DEF DeliveryInv, ClaimsAreOpen
  <2> QED BY <2>1 DEF ClaimsAreOpen, NoCall
<1>3. SalesHaveEvidence'
  <2>1. SalesHaveEvidence
    BY DEF DeliveryInv
  <2> QED BY <2>1 DEF SalesHaveEvidence, Saved
<1>4. RepliesAreTrue' /\ EntriesAreTrue'
  BY DEF DeliveryInv, RepliesAreTrue, EntriesAreTrue, Saved
<1> QED BY <1>1, <1>2, <1>3, <1>4 DEF DeliveryInv

\* The end of a request: its evidence, and a sale if the evidence says so.
LEMMA ConcludePreserves ==
  ASSUME DeliveryInv, NEW d \in Drafts, NEW status \in Decisions, Conclude(d, status),
         working[d] # NoCall, UNCHANGED entry,
         IF status \in Saved THEN CreateSale(d) ELSE UNCHANGED sales
  PROVE  DeliveryInv'
<1>1. /\ DOMAIN evidence' = Drafts /\ evidence'[d] = status
      /\ \A e \in Drafts : e # d => evidence'[e] = evidence[e]
      /\ DOMAIN working' = Drafts /\ working'[d] = NoCall
      /\ \A e \in Drafts : e # d => working'[e] = working[e]
  BY DEF Conclude, DeliveryInv, Domains
<1>2. evidence[d] = "none" /\ evidence[d] \notin Saved
  BY DEF DeliveryInv, ClaimsAreOpen, Saved
<1>3. Domains'
  BY <1>1 DEF DeliveryInv, Domains
<1>4. ClaimsAreOpen'
  <2>1. \A e \in Drafts : working'[e] # NoCall => evidence'[e] = "none"
    BY <1>1 DEF DeliveryInv, ClaimsAreOpen
  <2> QED BY <2>1 DEF ClaimsAreOpen, NoCall
<1>5. \A s \in sales : s.draft \in Drafts /\ s.draft # d /\ evidence[s.draft] \in Saved
  BY <1>2 DEF DeliveryInv, SalesHaveEvidence
<1>6. SalesHaveEvidence'
  <2> DEFINE sale == [number |-> Cardinality(sales), draft |-> d,
                      price |-> catalog.price, day |-> draft[d].made]
  <2>1. sale.draft = d
    OBVIOUS
  <2>2. sales' = IF status \in Saved THEN sales \cup {sale} ELSE sales
    BY DEF CreateSale
  <2> HIDE DEF sale
  <2>3. \A s \in sales' : s \in sales \/ (s = sale /\ status \in Saved)
    BY <2>2
  <2>4. \A s \in sales' : s.draft \in Drafts /\ evidence'[s.draft] \in Saved
    BY <1>1, <1>5, <2>1, <2>3
  <2>5. \A s, t \in sales' : s.draft = t.draft => s = t
    BY <1>5, <2>1, <2>3 DEF DeliveryInv, SalesHaveEvidence
  <2>6. \A e \in Drafts : evidence'[e] \in Saved => \E s \in sales' : s.draft = e
    BY <1>1, <2>1, <2>2 DEF DeliveryInv, SalesHaveEvidence
  <2> QED BY <2>4, <2>5, <2>6 DEF SalesHaveEvidence, Saved
<1>7. RepliesAreTrue'
  <2>1. \A e \in Drafts, other \in Saved :
            [draft |-> e, status |-> other] \in replies'
                => \/ [draft |-> e, status |-> other] \in replies
                   \/ e = d /\ other = status
    BY DEF Conclude, Answer
  <2>2. \A e \in Drafts, other \in Saved :
            [draft |-> e, status |-> other] \in replies' => evidence'[e] \in Saved
    BY <1>1, <1>2, <2>1 DEF DeliveryInv, RepliesAreTrue
  <2> QED BY <2>2 DEF RepliesAreTrue, Saved
<1>8. EntriesAreTrue'
  <2>1. \A e \in Drafts : entry'[e] \in Saved => evidence'[e] \in Saved
    BY <1>1, <1>2 DEF DeliveryInv, EntriesAreTrue
  <2> QED BY <2>1 DEF EntriesAreTrue, Saved
<1> QED BY <1>3, <1>4, <1>6, <1>7, <1>8 DEF DeliveryInv

\* Another answer in the queue, or a change of its owner.
LEMMA HearPreserves ==
  ASSUME DeliveryInv, NEW d \in Drafts, NEW status \in Decisions, Hear(d, status)
  PROVE  DeliveryInv'
<1>1. /\ UNCHANGED <<working, evidence, sales>>
      /\ DOMAIN entry' = Drafts /\ entry'[d] = status
      /\ \A e \in Drafts : e # d => entry'[e] = entry[e]
      /\ replies' \subseteq replies /\ [draft |-> d, status |-> status] \in replies
  BY DEF Hear, Store, server, DeliveryInv, Domains
<1>2. status \in Saved => evidence[d] \in Saved
  BY <1>1 DEF DeliveryInv, RepliesAreTrue
<1>3. DOMAIN working' = Drafts
  BY <1>1 DEF DeliveryInv, Domains
<1> QED BY <1>1, <1>2, <1>3, UndecidedPreserves

LEMMA EditPreserves ==
  ASSUME DeliveryInv, NEW d \in Drafts, SaveDraft(d) \/ DiscardDraft(d) \/ Acknowledge(d)
  PROVE  DeliveryInv'
<1>1. /\ UNCHANGED <<replies, working, evidence, sales>>
      /\ DOMAIN entry' = Drafts /\ entry'[d] \in {"pending", "removed"}
      /\ \A e \in Drafts : e # d => entry'[e] = entry[e]
  BY DEF SaveDraft, DiscardDraft, Acknowledge, network, server, DeliveryInv, Domains
<1>2. DOMAIN working' = Drafts /\ entry'[d] \notin Saved
  BY <1>1 DEF DeliveryInv, Domains, Saved
<1> QED BY <1>1, <1>2, UndecidedPreserves

LEMMA ClaimPreserves ==
  ASSUME DeliveryInv, NEW d \in Drafts, NEW by, Claim(d, by)
  PROVE  DeliveryInv'
<1>1. UNCHANGED <<entry, evidence, sales>>
  BY DEF Claim, device
<1>2. CASE Undecided(d)
  <2>1. /\ DOMAIN working' = Drafts /\ UNCHANGED replies /\ evidence[d] = "none"
        /\ \A e \in Drafts : e # d => working'[e] = working[e]
    BY <1>2 DEF Claim, Undecided, DeliveryInv, Domains
  <2> QED BY <1>1, <2>1, UndecidedPreserves DEF DeliveryInv, Domains
<1>3. CASE ~Undecided(d)
  <2>1. Answer(d, by, evidence[d]) /\ UNCHANGED working
    BY <1>3 DEF Claim
  <2>2. \A e \in Drafts, status \in Saved :
            [draft |-> e, status |-> status] \in replies'
                => [draft |-> e, status |-> status] \in replies \/ evidence[e] \in Saved
    BY <2>1 DEF Answer
  <2> QED BY <1>1, <2>1, <2>2, UndecidedPreserves DEF DeliveryInv, Domains
<1> QED BY <1>2, <1>3

LEMMA TurnedPreserves ==
  ASSUME DeliveryInv, NEW d \in Drafts, Turned(d)
  PROVE  DeliveryInv'
<1>1. UNCHANGED <<entry, working, evidence, sales>>
  BY DEF Turned, device, server
<1>2. \A e \in Drafts, status \in Saved :
          [draft |-> e, status |-> status] \in replies'
              => [draft |-> e, status |-> status] \in replies
  BY DEF Turned, Answer, Saved
<1> QED BY <1>1, <1>2, UndecidedPreserves DEF DeliveryInv, Domains

\* What the first read of the catalogue or the second may decide.
LEMMA DecisionOf ==
  ASSUME NEW d \in Drafts, Check(d) \/ Save(d)
  PROVE  /\ working[d] # NoCall /\ UNCHANGED entry
         /\ \/ UNCHANGED <<replies, evidence, sales>> /\ Check(d) /\ Acceptable(d)
            \/ \E status \in Decisions :
                   /\ Conclude(d, status)
                   /\ IF status \in Saved THEN CreateSale(d) ELSE UNCHANGED sales
<1>1. working[d].step \in {"CLAIMED", "CHECKED"} /\ UNCHANGED entry
  BY DEF Check, Save, device
<1>2. working[d] # NoCall
  BY <1>1 DEF NoCall
<1>3. Reject(d) => /\ Conclude(d, "rejected") /\ UNCHANGED sales
                   /\ "rejected" \in Decisions /\ "rejected" \notin Saved
  BY DEF Reject, Decisions, Saved
<1>4. \A status \in {"synced", "needs_review"} : status \in Decisions /\ status \in Saved
  BY DEF Decisions, Saved
<1>5. CASE Check(d)
  BY <1>1, <1>2, <1>3, <1>5 DEF Check
<1>6. CASE Save(d)
  <2>1. CASE catalog.active
    <3>1. PICK status \in {"synced", "needs_review"} : Conclude(d, status)
      BY <1>6, <2>1 DEF Save
    <3> QED BY <1>1, <1>2, <1>4, <1>6, <2>1, <3>1 DEF Save
  <2>2. CASE ~catalog.active
    BY <1>1, <1>2, <1>3, <1>6, <2>2 DEF Save
  <2> QED BY <2>1, <2>2
<1> QED BY <1>5, <1>6

LEMMA RequestPreserves ==
  ASSUME DeliveryInv, NEW d \in Drafts, Check(d) \/ Save(d)
  PROVE  DeliveryInv'
<1>1. CASE UNCHANGED <<replies, evidence, sales>> /\ Check(d) /\ Acceptable(d)
  <2>1. /\ DOMAIN working' = Drafts /\ UNCHANGED entry
        /\ \A e \in Drafts : e # d => working'[e] = working[e]
    BY <1>1, DecisionOf DEF Check, DeliveryInv, Domains
  <2>2. working[d] # NoCall
    BY DecisionOf
  <2> QED BY <1>1, <2>1, <2>2, UndecidedPreserves DEF DeliveryInv, Domains
<1>2. CASE \E status \in Decisions :
               /\ Conclude(d, status)
               /\ IF status \in Saved THEN CreateSale(d) ELSE UNCHANGED sales
  BY <1>2, DecisionOf, ConcludePreserves
<1> QED BY <1>1, <1>2, DecisionOf

LEMMA DiePreserves ==
  ASSUME DeliveryInv, NEW d \in Drafts, Die(d)
  PROVE  DeliveryInv'
<1>1. /\ UNCHANGED <<entry, replies, evidence, sales>>
      /\ DOMAIN working' = Drafts /\ working'[d] = NoCall
      /\ \A e \in Drafts : e # d => working'[e] = working[e]
  BY DEF Die, device, network, DeliveryInv, Domains
<1> QED BY <1>1, UndecidedPreserves DEF DeliveryInv, Domains

LEMMA DeliveryInvStep == DeliveryInv /\ [Next]_vars => DeliveryInv'
<1> SUFFICES ASSUME DeliveryInv, [Next]_vars PROVE DeliveryInv'
  OBVIOUS
<1>1. ASSUME UNCHANGED <<entry, working, evidence, sales>>, replies' \subseteq replies
      PROVE  DeliveryInv'
  BY <1>1, UndecidedPreserves DEF DeliveryInv, Domains
<1>2. ASSUME LoadPage \/ SyncAll \/ LoseReply PROVE DeliveryInv'
  BY <1>1, <1>2 DEF LoadPage, SyncAll, LoseReply, device, network, server
<1>3. ASSUME NEW d \in Drafts, SaveDraft(d) \/ DiscardDraft(d) \/ Acknowledge(d)
      PROVE  DeliveryInv'
  BY <1>3, EditPreserves
<1>4. ASSUME NEW d \in Drafts, CopyDraft(d) \/ SyncDraft(d) \/ SyncListed(d) \/ LoseCall(d)
      PROVE  DeliveryInv'
  BY <1>1, <1>4 DEF CopyDraft, SyncDraft, SyncListed, LoseCall, device, network, server
<1>5. ASSUME NEW d \in Drafts, NEW status \in Decisions, Hear(d, status) PROVE DeliveryInv'
  BY <1>5, HearPreserves
<1>6. ASSUME NEW d \in Drafts, Turned(d) PROVE DeliveryInv'
  BY <1>6, TurnedPreserves
<1>7. ASSUME NEW d \in Drafts, Receive(d) \/ Recover(d) PROVE DeliveryInv'
  BY <1>7, ClaimPreserves DEF Receive, Recover
<1>8. ASSUME NEW d \in Drafts, Check(d) \/ Save(d) PROVE DeliveryInv'
  BY <1>8, RequestPreserves
<1>9. ASSUME NEW d \in Drafts, Die(d) PROVE DeliveryInv'
  BY <1>9, DiePreserves
<1>10. ASSUME ChangeCatalog \/ ChangeMembership \/ ChangeBranch \/ NextDay PROVE DeliveryInv'
  BY <1>1, <1>10 DEF ChangeCatalog, ChangeMembership, ChangeBranch, Change, NextDay,
                     device, network, server
<1>11. CASE UNCHANGED vars
  BY <1>1, <1>11 DEF vars, device, network, server
<1> QED
  BY <1>2, <1>3, <1>4, <1>5, <1>6, <1>7, <1>8, <1>9, <1>10, <1>11 DEF Next

-----------------------------------------------------------------------------

\* sync_offline_sale under retries, recoveries and deaths: one sale if the evidence says
\* so, none otherwise.
THEOREM SalesComeWithEvidence == Spec => []SalesMatchEvidence
<1>1. Init => DeliveryInv
  BY DeliveryInvInit
<1>2. DeliveryInv /\ [Next]_vars => DeliveryInv'
  BY DeliveryInvStep
<1>3. DeliveryInv => SalesMatchEvidence
  <2> SUFFICES ASSUME DeliveryInv, NEW d \in Drafts
               PROVE  Cardinality({s \in sales : s.draft = d})
                          = IF evidence[d] \in Saved THEN 1 ELSE 0
    BY DEF SalesMatchEvidence
  <2>1. CASE evidence[d] \in Saved
    <3>1. PICK s \in sales : s.draft = d
      BY <2>1 DEF DeliveryInv, SalesHaveEvidence
    <3>2. {t \in sales : t.draft = d} = {s}
      BY <3>1 DEF DeliveryInv, SalesHaveEvidence
    <3> QED BY <2>1, <3>2, FS_Singleton
  <2>2. CASE evidence[d] \notin Saved
    <3>1. {t \in sales : t.draft = d} = {}
      BY <2>2 DEF DeliveryInv, SalesHaveEvidence
    <3> QED BY <2>2, <3>1, FS_EmptySet
  <2> QED BY <2>1, <2>2
<1> QED BY <1>1, <1>2, <1>3, PTL DEF Spec

-----------------------------------------------------------------------------
(* The refinement.                                                         *)

Outcome(d) == IF \E s \in sales : s.draft = d THEN "sale"
              ELSE IF evidence[d] = "rejected" THEN "refused" ELSE "open"
Outcomes == [d \in Drafts |-> Outcome(d)]
Reported == {d \in Drafts : entry[d] \in Saved}

LEMMA OutcomeIsEvidence ==
  ASSUME DeliveryInv, NEW d \in Drafts
  PROVE  Outcome(d) = IF evidence[d] \in Saved THEN "sale"
                      ELSE IF evidence[d] = "rejected" THEN "refused" ELSE "open"
BY DEF DeliveryInv, SalesHaveEvidence, Outcome

LEMMA InitImplements == Init => Delivery!Init
<1> SUFFICES ASSUME Init PROVE Delivery!Init
  OBVIOUS
<1>1. Outcomes = [d \in Drafts |-> "open"]
  BY DEF Init, Outcomes, Outcome
<1>2. Reported = {}
  BY DEF Init, Reported, Saved
<1> QED BY <1>1, <1>2 DEF Delivery!Init, Outcomes, Outcome, Reported

\* The queue of the page changes in one place: it forgets a sale or reports one.
LEMMA EntryImplements ==
  ASSUME DeliveryInv, NEW d \in Drafts, UNCHANGED <<evidence, sales>>,
         \A e \in Drafts : e # d => entry'[e] = entry[e],
         entry'[d] \in Saved => evidence[d] \in Saved
  PROVE  Delivery!Next
<1>1. Outcomes' = Outcomes
  BY DEF Outcomes, Outcome
<1>2. CASE entry'[d] \in Saved
  <2>1. Reported' = Reported \cup {d}
    BY <1>2 DEF Reported, Saved
  <2>2. Outcomes[d] = "sale"
    BY <1>2, OutcomeIsEvidence DEF Outcomes
  <2>3. Delivery!Report(d)
    BY <1>1, <2>1, <2>2 DEF Delivery!Report, Outcomes, Outcome, Reported
  <2> QED BY <2>3 DEF Delivery!Next
<1>3. CASE entry'[d] \notin Saved
  <2>1. Reported' = Reported \ {d}
    BY <1>3 DEF Reported, Saved
  <2>2. Delivery!Forget(d)
    BY <1>1, <2>1 DEF Delivery!Forget, Outcomes, Outcome, Reported
  <2> QED BY <2>2 DEF Delivery!Next
<1> QED BY <1>2, <1>3

\* The end of a request decides about a draft that was open.
LEMMA ConcludeImplements ==
  ASSUME DeliveryInv, DeliveryInv', NEW d \in Drafts, NEW status \in Decisions,
         Conclude(d, status), working[d] # NoCall, UNCHANGED entry
  PROVE  Delivery!Next
<1>1. /\ evidence'[d] = status
      /\ \A e \in Drafts : e # d => evidence'[e] = evidence[e]
      /\ evidence[d] = "none"
  BY DEF Conclude, DeliveryInv, Domains, ClaimsAreOpen
<1>2. \A e \in Drafts :
          /\ Outcome(e) = IF evidence[e] \in Saved THEN "sale"
                          ELSE IF evidence[e] = "rejected" THEN "refused" ELSE "open"
          /\ Outcome(e)' = IF evidence'[e] \in Saved THEN "sale"
                           ELSE IF evidence'[e] = "rejected" THEN "refused" ELSE "open"
  <2>1. ASSUME NEW e \in Drafts
        PROVE  Outcome(e)' = IF evidence'[e] \in Saved THEN "sale"
                             ELSE IF evidence'[e] = "rejected" THEN "refused" ELSE "open"
    BY DEF DeliveryInv, SalesHaveEvidence, Outcome, Saved
  <2> QED BY <2>1, OutcomeIsEvidence
<1> DEFINE decision == IF status \in Saved THEN "sale" ELSE "refused"
<1>3. /\ decision \in {"sale", "refused"}
      /\ Outcome(d) = "open" /\ Outcome(d)' = decision
      /\ \A e \in Drafts : e # d => Outcome(e)' = Outcome(e)
  BY <1>1, <1>2 DEF Saved, Decisions
<1> HIDE DEF decision
<1>4. Outcomes[d] = "open" /\ Outcomes' = [Outcomes EXCEPT ![d] = decision]
  BY <1>3 DEF Outcomes
<1>5. Reported' = Reported
  BY DEF Reported, Saved
<1>6. Delivery!Decide(d, decision)
  BY <1>4, <1>5 DEF Delivery!Decide, Outcomes, Outcome, Reported
<1> QED BY <1>3, <1>6 DEF Delivery!Next

LEMMA NextImplements ==
  DeliveryInv /\ DeliveryInv' /\ [Next]_vars => [Delivery!Next]_Delivery!vars
<1> SUFFICES ASSUME DeliveryInv, DeliveryInv', [Next]_vars
             PROVE  [Delivery!Next]_Delivery!vars
  OBVIOUS
<1>1. ASSUME UNCHANGED <<entry, evidence, sales>> PROVE UNCHANGED Delivery!vars
  BY <1>1 DEF Delivery!vars, Saved
<1>2. ASSUME LoadPage \/ SyncAll \/ LoseReply PROVE UNCHANGED Delivery!vars
  BY <1>1, <1>2 DEF LoadPage, SyncAll, LoseReply, device, server
<1>3. ASSUME NEW d \in Drafts, SaveDraft(d) \/ DiscardDraft(d) \/ Acknowledge(d)
      PROVE  Delivery!Next
  <2>1. /\ UNCHANGED <<evidence, sales>> /\ entry'[d] \in {"pending", "removed"}
        /\ \A e \in Drafts : e # d => entry'[e] = entry[e]
    BY <1>3 DEF SaveDraft, DiscardDraft, Acknowledge, server, DeliveryInv, Domains
  <2> QED BY <2>1, EntryImplements DEF Saved
<1>4. ASSUME NEW d \in Drafts, CopyDraft(d) \/ SyncDraft(d) \/ SyncListed(d) \/ LoseCall(d)
      PROVE  UNCHANGED Delivery!vars
  BY <1>1, <1>4 DEF CopyDraft, SyncDraft, SyncListed, LoseCall, device, server
<1>5. ASSUME NEW d \in Drafts, NEW status \in Decisions, Hear(d, status) PROVE Delivery!Next
  <2>1. /\ UNCHANGED <<evidence, sales>> /\ entry'[d] = status
        /\ \A e \in Drafts : e # d => entry'[e] = entry[e]
        /\ [draft |-> d, status |-> status] \in replies
    BY <1>5 DEF Hear, Store, server, DeliveryInv, Domains
  <2> QED BY <2>1, EntryImplements DEF DeliveryInv, RepliesAreTrue
<1>6. ASSUME NEW d \in Drafts, Turned(d) \/ Receive(d) \/ Recover(d) \/ Die(d)
      PROVE  UNCHANGED Delivery!vars
  BY <1>1, <1>6 DEF Turned, Receive, Recover, Claim, Die, device, server
<1>7. ASSUME NEW d \in Drafts, Check(d) \/ Save(d) PROVE [Delivery!Next]_Delivery!vars
  BY <1>1, <1>7, DecisionOf, ConcludeImplements
<1>8. ASSUME ChangeCatalog \/ ChangeMembership \/ ChangeBranch \/ NextDay
      PROVE  UNCHANGED Delivery!vars
  BY <1>1, <1>8 DEF ChangeCatalog, ChangeMembership, ChangeBranch, Change, NextDay,
                    device, server
<1>9. CASE UNCHANGED vars
  BY <1>1, <1>9 DEF vars, device, server
<1> QED
  BY <1>2, <1>3, <1>4, <1>5, <1>6, <1>7, <1>8, <1>9 DEF Next

\* offline-sales.js and sync_offline_sale over a network that loses and delays implement
\* the delivery: the server decides once, and what a device shows as a sale is one.
THEOREM SynchronizationDelivers == Spec => DeliverySpec
<1>1. Init => DeliveryInv
  BY DeliveryInvInit
<1>2. DeliveryInv /\ [Next]_vars => DeliveryInv'
  BY DeliveryInvStep
<1>3. Init => Delivery!Init
  BY InitImplements
<1>4. DeliveryInv /\ DeliveryInv' /\ [Next]_vars => [Delivery!Next]_Delivery!vars
  BY NextImplements
<1> QED BY <1>1, <1>2, <1>3, <1>4, PTL DEF Spec, DeliverySpec, Delivery!Spec

=============================================================================
