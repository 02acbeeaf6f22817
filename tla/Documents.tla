------------------------------- MODULE Documents -------------------------------
(***************************************************************************)
(* Captured source documents: src/apps/documents/services.py.  A document  *)
(* has files, whose rows are in the database and whose bytes are objects   *)
(* of a storage that knows no transactions; attempts to transcribe it; and *)
(* the purchase, expense or opening stock an owner's confirmation makes of *)
(* an attempt.                                                             *)
(*                                                                         *)
(* A capture, a scan, a purge and the reconciliation command touch both    *)
(* stores, so that they take more than one step and may die between them;  *)
(* every other service is one transaction on locked rows, and one action.  *)
(* The content of an attempt is the set of its lines, empty while it is    *)
(* incomplete.  An object's name is the capture that stored it and its     *)
(* position: names are random and never used again.                        *)
(***************************************************************************)
EXTENDS Naturals, FiniteSets, FiniteSetsExt

CONSTANTS
    Documents,       \* pool of captures
    DraftSources,    \* uploads, each with its kind: they become a purchase or an expense,
    StockSources,    \* or opening stock
    Files,           \* positions of the files of an upload
    Variants,
    MaxAttempts,     \* bound on the attempts at a document
    Owners, Managers

ASSUME DocumentsAssumption ==
    /\ MaxAttempts \in Nat \ {0}
    /\ DraftSources \cap StockSources = {}
    /\ Files \subseteq Nat
    /\ Owners \subseteq Managers

VARIABLES
    document,   \* CapturedDocument rows
    file,       \* DocumentFile rows
    attempt,    \* DocumentTranscription rows with their lines and target, by attempt_number
    scanning,   \* verdicts of a scan that has not committed
    purging,    \* files a running purge_document_files has listed, and the one whose
                \* bytes it has taken and whose row not
    stored,     \* age of the objects in the storage
    sweep,      \* the running reconcile_document_storage --delete-orphans
    operations, \* opening stock operations posted from attempts
    moved       \* variants somebody else moved

rows == <<document, file, attempt>>
storage == <<scanning, purging, stored, sweep>>
inventory == <<operations, moved>>
vars == <<rows, storage, inventory>>

Sources == DraftSources \cup StockSources
Numbers == 1 .. MaxAttempts
Objects == Documents \X Files
Verdicts == {"CLEAN", "INFECTED", "ERROR"}
NoDocument == [status |-> "ABSENT"]
NoAttempt == [status |-> "ABSENT"]
NewFile == [scan |-> "PENDING", purged |-> FALSE]
NoPurge == [listed |-> {}, taken |-> {}]

Captured == {"QUARANTINED", "AVAILABLE", "REJECTED"}
Unconfirmed == {"DRAFT", "AWAITING"}

TypeOK ==
    /\ document \in [Documents ->
           {NoDocument} \cup [status : {"CAPTURING", "FAILED"} \cup Captured, source : Sources]
               \cup [status : {"CANCELLED"}, source : Sources, expired : BOOLEAN]]
    /\ file \in [Documents -> [Files -> [scan : {"PENDING"} \cup Verdicts, purged : BOOLEAN]]]
    /\ attempt \in [Documents -> [Numbers ->
           {NoAttempt} \cup [status : Unconfirmed \cup {"CANCELLED", "CONFIRMED"},
                             of : {0} \cup Numbers, lines : SUBSET Variants,
                             target : {"NONE", "DRAFT", "POSTED", "CANCELLED"}]]]
    /\ scanning \in [Documents -> UNION {[S -> Verdicts] : S \in SUBSET Files}]
    /\ purging \in [listed : SUBSET Objects, taken : SUBSET Objects]
    /\ stored \in [Objects -> {"NO", "NEW", "OLD"}]
    /\ sweep \in [step : {"IDLE", "READ", "LISTED"}, names : SUBSET Objects]
    /\ operations \in SUBSET (Documents \X Numbers \X Variants)
    /\ moved \in SUBSET Variants

Init ==
    /\ document = [d \in Documents |-> NoDocument]
    /\ file = [d \in Documents |-> [i \in Files |-> NewFile]]
    /\ attempt = [d \in Documents |-> [n \in Numbers |-> NoAttempt]]
    /\ scanning = [d \in Documents |-> <<>>]
    /\ purging = NoPurge
    /\ stored = [o \in Objects |-> "NO"]
    /\ sweep = [step |-> "IDLE", names |-> {}]
    /\ operations = {}
    /\ moved = {}

SetDocument(d, status) ==
    document' = [document EXCEPT ![d] = [status |-> status, source |-> document[d].source]]
ObjectsOf(d) == {d} \X Files
Store(objects) == stored' = [o \in Objects |-> IF o \in objects THEN "NEW" ELSE stored[o]]
Delete(objects) == stored' = [o \in Objects |-> IF o \in objects THEN "NO" ELSE stored[o]]

-----------------------------------------------------------------------------
(* Capture.                                                                *)

\* The fingerprint is unique among the documents not cancelled; an insert of the
\* same fingerprint waits for a capture that has not committed.
Uncaptured(source) ==
    \A d \in Documents : document[d].status \in Captured \cup {"CAPTURING"}
                            => document[d].source # source

BeginCapture(a, d, source) ==
    /\ a \in Managers
    /\ document[d] = NoDocument
    /\ Uncaptured(source)
    /\ document' = [document EXCEPT ![d] = [status |-> "CAPTURING", source |-> source]]
    /\ Store(ObjectsOf(d))
    /\ UNCHANGED <<file, attempt, scanning, purging, sweep, inventory>>

NewAttempt(of, lines) ==
    [status |-> "DRAFT", of |-> of, lines |-> lines, target |-> "NONE"]

CommitCapture(d) ==
    /\ document[d].status = "CAPTURING"
    /\ SetDocument(d, "QUARANTINED")
    /\ attempt' = [attempt EXCEPT ![d][1] = NewAttempt(0, {})]
    /\ UNCHANGED <<file, storage, inventory>>

\* The transaction fails or the process dies: no row is left, but the objects are that
\* were stored by then and that the handler of an IntegrityError does not delete.
FailCapture(d) ==
    /\ document[d].status = "CAPTURING"
    /\ SetDocument(d, "FAILED")
    /\ \E gone \in SUBSET ObjectsOf(d) : Delete(gone)
    /\ UNCHANGED <<file, attempt, scanning, purging, sweep, inventory>>

-----------------------------------------------------------------------------
(* Malware scan.  The transaction holds the document; the bytes of an      *)
(* infected file are deleted before it commits.                            *)

Idle(d) == scanning[d] = <<>>
Unscanned(d) ==
    {i \in Files : ~file[d][i].purged /\ file[d][i].scan \in {"PENDING", "ERROR"}}

Scannable(a, d) ==
    /\ a \in Managers
    /\ Idle(d)
    /\ document[d].status \in {"QUARANTINED", "REJECTED"}

\* One that dies half way has deleted what a verdict on fewer infected files deletes.
BeginScan(a, d) ==
    /\ Scannable(a, d)
    /\ Unscanned(d) # {}
    /\ \A i \in Unscanned(d) : stored[<<d, i>>] # "NO"
    /\ \E verdict \in [Unscanned(d) -> Verdicts] :
           /\ scanning' = [scanning EXCEPT ![d] = verdict]
           /\ Delete({d} \X {i \in DOMAIN verdict : verdict[i] = "INFECTED"})
    /\ UNCHANGED <<rows, purging, sweep, inventory>>

\* The files are opened by position.  At one whose bytes are missing the scan fails,
\* when it has deleted the infected before it; their verdicts are rolled back.
FailScan(a, d) ==
    /\ Scannable(a, d)
    /\ \E missing \in Unscanned(d) :
           LET passed == {i \in Unscanned(d) : i < missing}
           IN  /\ stored[<<d, missing>>] = "NO"
               /\ \A i \in passed : stored[<<d, i>>] # "NO"
               /\ \E infected \in SUBSET passed : Delete({d} \X infected)
    /\ UNCHANGED <<rows, scanning, purging, sweep, inventory>>

StatusOf(files) ==
    LET scans == {files[i].scan : i \in Files}
    IN  IF "INFECTED" \in scans THEN "REJECTED"
        ELSE IF scans = {"CLEAN"} THEN "AVAILABLE" ELSE "QUARANTINED"

CommitScan(d) ==
    /\ ~Idle(d)
    /\ LET files == [i \in Files |->
               IF i \in DOMAIN scanning[d]
               THEN [scan |-> scanning[d][i], purged |-> scanning[d][i] = "INFECTED"]
               ELSE file[d][i]]
       IN  /\ file' = [file EXCEPT ![d] = files]
           /\ SetDocument(d, StatusOf(files))
    /\ scanning' = [scanning EXCEPT ![d] = <<>>]
    /\ UNCHANGED <<attempt, purging, stored, sweep, inventory>>

\* The verdicts are rolled back, the deleted bytes are not.
DieScan(d) ==
    /\ ~Idle(d)
    /\ scanning' = [scanning EXCEPT ![d] = <<>>]
    /\ UNCHANGED <<rows, purging, stored, sweep, inventory>>

-----------------------------------------------------------------------------
(* Transcription.                                                          *)

SetAttempt(d, n, row) == attempt' = [attempt EXCEPT ![d][n] = row]
SetStatus(d, n, status) == SetAttempt(d, n, [attempt[d][n] EXCEPT !.status = status])

\* _lock_draft
Editable(a, d, n) ==
    /\ a \in Managers
    /\ attempt[d][n].status = "DRAFT"
    /\ document[d].status = "AVAILABLE"

SaveTranscription(a, d, n) ==
    /\ Editable(a, d, n)
    /\ \E lines \in (SUBSET Variants) \ {{}} :
           SetAttempt(d, n, [attempt[d][n] EXCEPT !.lines = lines])
    /\ UNCHANGED <<document, file, storage, inventory>>

Complete(d, n) == attempt[d][n].lines # {}
Submit(a, d, n) ==
    /\ Editable(a, d, n)
    /\ Complete(d, n)
    /\ SetStatus(d, n, "AWAITING")
    /\ UNCHANGED <<document, file, storage, inventory>>

ReturnToDraft(a, d, n) ==
    /\ a \in Owners
    /\ attempt[d][n].status = "AWAITING"
    /\ SetStatus(d, n, "DRAFT")
    /\ UNCHANGED <<document, file, storage, inventory>>

IsStock(d) == document[d].source \in StockSources

\* The document itself is not looked at: a draft purchase or expense is made of what
\* the attempt says.  Confirming again with the same key changes nothing.
Confirm(a, d, n) ==
    /\ a \in Owners
    /\ attempt[d][n].status = "AWAITING"
    /\ Complete(d, n)
    /\ SetAttempt(d, n, [attempt[d][n] EXCEPT
           !.status = "CONFIRMED", !.target = IF IsStock(d) THEN "NONE" ELSE "DRAFT"])
    /\ UNCHANGED <<document, file, storage, inventory>>

CancelTranscription(a, d, n) ==
    /\ a \in Managers
    /\ attempt[d][n].status \in Unconfirmed
    /\ SetStatus(d, n, "CANCELLED")
    /\ UNCHANGED <<document, file, storage, inventory>>

OperationsOf(d, n) == {o \in operations : o[1] = d /\ o[2] = n}

\* post_opening_balance on every line: a line already posted under the key of the line
\* is passed over, and one variant that has moved otherwise refuses the batch.
Unmoved(v) == v \notin moved /\ \A o \in operations : o[3] # v
PostOpeningStock(a, d, n) ==
    /\ a \in Managers
    /\ attempt[d][n].status = "CONFIRMED" /\ IsStock(d)
    /\ \A v \in attempt[d][n].lines : <<d, n, v>> \in operations \/ Unmoved(v)
    /\ operations' = operations \cup ({d} \X {n} \X attempt[d][n].lines)
    /\ UNCHANGED <<rows, storage, moved>>

Attempts(d) == {n \in Numbers : attempt[d][n] # NoAttempt}
Replaceable(d, n) ==
    /\ attempt[d][n].status = "CONFIRMED"
    /\ IF IsStock(d) THEN OperationsOf(d, n) = {} ELSE attempt[d][n].target = "CANCELLED"

\* One attempt at a document is active: the unique constraint refuses another.
StartReplacement(a, d, n) ==
    /\ a \in Managers
    /\ Replaceable(d, n)
    /\ \A m \in Attempts(d) : attempt[d][m].status \notin Unconfirmed
    /\ Cardinality(Attempts(d)) < MaxAttempts
    /\ SetAttempt(d, Max(Attempts(d)) + 1, NewAttempt(n, attempt[d][n].lines))
    /\ UNCHANGED <<document, file, storage, inventory>>

CancellableDrafts(d) == {n \in Numbers : attempt[d][n].status = "DRAFT"}
Cancellable(d) == {n \in Numbers : attempt[d][n].status \in Unconfirmed}

\* A document cancelled before may be cancelled again, with a new date.
CancelDocument(a, d) ==
    /\ a \in Managers
    /\ document[d].status \in Captured \cup {"CANCELLED"}
    /\ Idle(d)
    /\ \A n \in Numbers : attempt[d][n].status # "CONFIRMED"
    /\ attempt' = [attempt EXCEPT ![d] = [n \in Numbers |->
           IF n \in Cancellable(d) THEN [attempt[d][n] EXCEPT !.status = "CANCELLED"]
                                   ELSE attempt[d][n]]]
    /\ document' = [document EXCEPT ![d] =
           [status |-> "CANCELLED", source |-> document[d].source, expired |-> FALSE]]
    /\ UNCHANGED <<file, storage, inventory>>

-----------------------------------------------------------------------------
(* Targets and inventory are in the hands of other services.               *)

SetTarget(d, n, from, to) ==
    /\ attempt[d][n].status = "CONFIRMED" /\ attempt[d][n].target \in from
    /\ SetAttempt(d, n, [attempt[d][n] EXCEPT !.target = to])
    /\ UNCHANGED <<document, file, storage, inventory>>
PostTarget(a, d, n) == a \in Managers /\ SetTarget(d, n, {"DRAFT"}, "POSTED")
CancelTarget(a, d, n) == a \in Managers /\ SetTarget(d, n, {"DRAFT"}, "CANCELLED")

MoveStock(v) ==
    /\ v \notin moved
    /\ moved' = moved \cup {v}
    /\ UNCHANGED <<rows, storage, operations>>

-----------------------------------------------------------------------------
(* Retention and reconciliation, by commands an operator schedules.        *)

Expired(d) == document[d].status = "CANCELLED" /\ document[d].expired
Purgeable(d, i) ==
    /\ Expired(d)
    /\ ~file[d][i].purged
\* One run at a time.  It reads the list of the files once, then deletes the bytes of
\* one file after the other and saves its row, whatever has become of the document since.
ListPurge ==
    /\ purging = NoPurge
    /\ purging' = [listed |-> {o \in Objects : Purgeable(o[1], o[2])}, taken |-> {}]
    /\ UNCHANGED <<rows, scanning, stored, sweep, inventory>>
PurgeBytes(d, i) ==
    /\ <<d, i>> \in purging.listed
    /\ purging.taken = {}
    /\ purging' = [listed |-> purging.listed \ {<<d, i>>}, taken |-> {<<d, i>>}]
    /\ Delete({<<d, i>>})
    /\ UNCHANGED <<rows, scanning, sweep, inventory>>
SavePurge ==
    /\ \E d \in Documents, i \in Files :
           /\ <<d, i>> \in purging.taken
           /\ file' = [file EXCEPT ![d][i] = [scan |-> file[d][i].scan, purged |-> TRUE]]
    /\ purging' = [listed |-> purging.listed, taken |-> {}]
    /\ UNCHANGED <<document, attempt, scanning, stored, sweep, inventory>>
DiePurge ==
    /\ purging # NoPurge
    /\ purging' = NoPurge
    /\ UNCHANGED <<rows, scanning, stored, sweep, inventory>>

\* reconcile_document_storage reads the rows first and lists the storage afterwards.
HasRow(o) == document[o[1]].status \in Captured \cup {"CANCELLED"} /\ ~file[o[1]][o[2]].purged
SweepReadsRows ==
    /\ sweep.step = "IDLE"
    /\ sweep' = [step |-> "READ", names |-> {o \in Objects : HasRow(o)}]
    /\ UNCHANGED <<rows, scanning, purging, stored, inventory>>
SweepListsObjects ==
    /\ sweep.step = "READ"
    /\ sweep' = [step |-> "LISTED",
                 names |-> {o \in Objects : stored[o] # "NO"} \ sweep.names]
    /\ UNCHANGED <<rows, scanning, purging, stored, inventory>>

\* DOCUMENT_ORPHAN_RETENTION_HOURS
PastAnyAge(o) == TRUE
PastUnlessOld(o) == stored[o] # "OLD"
Past(o) == stored[o] = "OLD"
SweepDeletesOrphans ==
    /\ sweep.step = "LISTED"
    /\ Delete({o \in sweep.names : Past(o)})
    /\ sweep' = [step |-> "IDLE", names |-> {}]
    /\ UNCHANGED <<rows, scanning, purging, inventory>>

\* DOCUMENT_ORPHAN_RETENTION_HOURS and DOCUMENT_CANCELLED_RETENTION_DAYS pass.  No
\* capture and no reconciliation lasts as long as the first.
GrowOld(o) ==
    /\ stored[o] = "NEW"
    /\ document[o[1]].status # "CAPTURING" /\ sweep.step = "IDLE"
    /\ stored' = [stored EXCEPT ![o] = "OLD"]
    /\ UNCHANGED <<rows, scanning, purging, sweep, inventory>>
Expire(d) ==
    /\ document[d].status = "CANCELLED" /\ ~document[d].expired
    /\ document' = [document EXCEPT ![d] =
           [status |-> "CANCELLED", source |-> document[d].source, expired |-> TRUE]]
    /\ UNCHANGED <<file, attempt, storage, inventory>>

-----------------------------------------------------------------------------

Next ==
    \/ \E a \in Managers, d \in Documents :
        \/ \E source \in Sources : BeginCapture(a, d, source)
        \/ BeginScan(a, d) \/ FailScan(a, d) \/ CancelDocument(a, d)
        \/ \E n \in Numbers :
            \/ SaveTranscription(a, d, n) \/ Submit(a, d, n) \/ ReturnToDraft(a, d, n)
            \/ Confirm(a, d, n) \/ CancelTranscription(a, d, n) \/ StartReplacement(a, d, n)
            \/ PostOpeningStock(a, d, n) \/ PostTarget(a, d, n) \/ CancelTarget(a, d, n)
    \/ \E d \in Documents :
        \/ CommitCapture(d) \/ FailCapture(d) \/ CommitScan(d) \/ DieScan(d) \/ Expire(d)
        \/ \E i \in Files : PurgeBytes(d, i)
    \/ \E v \in Variants : MoveStock(v)
    \/ ListPurge \/ SavePurge \/ DiePurge
    \/ SweepReadsRows \/ SweepListsObjects \/ SweepDeletesOrphans
    \/ \E o \in Objects : GrowOld(o)

Spec == Init /\ [][Next]_vars

\* Requests end one way or the other, windows pass, not every purge dies before it comes
\* to a file, and an operator runs both commands again and again, the reconciliation
\* with the flag that deletes.
Fairness ==
    /\ \A d \in Documents : /\ WF_vars(CommitCapture(d) \/ FailCapture(d))
                            /\ WF_vars(CommitScan(d) \/ DieScan(d))
    /\ \A o \in Objects : SF_vars(GrowOld(o)) /\ SF_vars(PurgeBytes(o[1], o[2]))
    /\ SF_vars(ListPurge) /\ WF_vars(SavePurge \/ DiePurge)
    /\ SF_vars(SweepReadsRows) /\ WF_vars(SweepListsObjects) /\ WF_vars(SweepDeletesOrphans)
FairSpec == Spec /\ Fairness

-----------------------------------------------------------------------------

\* record_document_access
Readable(o) ==
    /\ document[o[1]].status = "AVAILABLE"
    /\ file[o[1]][o[2]].scan = "CLEAN" /\ ~file[o[1]][o[2]].purged

\* Whoever may look at a document finds all of it: every file of an available document
\* was found clean and still has its bytes, whatever captures, scans, purges and
\* reconciliations die or run beside each other.
AvailableIsWhole ==
    \A d \in Documents : document[d].status = "AVAILABLE" =>
        \A o \in ObjectsOf(d) : Readable(o) /\ stored[o] # "NO"

\* What an owner confirmed stays backed by its source: confirm_transcription does not
\* look at the document, which is cancelled, rejected or purged by others.
ConfirmedSourceIsKept ==
    \A d \in Documents, n \in Numbers : attempt[d][n].status = "CONFIRMED" =>
        document[d].status = "AVAILABLE"

\* "object-storage success followed by database failure produces a detectable orphan that
\* a reconciliation command can remove"
\* (docs/features/stage-8-document-capture-digitization.md:384): the bytes of a failed
\* capture go, and so do those of a document that stays cancelled.
BytesGo ==
    \A o \in Objects :
        /\ document[o[1]].status = "FAILED" ~> stored[o] = "NO"
        /\ Expired(o[1]) ~> stored[o] = "NO" \/ ~Expired(o[1])

LiveTargets(d) ==
    {n \in Attempts(d) : attempt[d][n].target \in {"DRAFT", "POSTED"} \/ OperationsOf(d, n) # {}}

\* "correction before posting cancels the source-derived target and starts a replacement
\* transcription" (docs/features/stage-8-document-capture-digitization.md:236): one
\* document backs at most one purchase, expense or posting of opening stock that stands.
OneLiveTarget == \A d \in Documents : Cardinality(LiveTargets(d)) <= 1

=============================================================================
