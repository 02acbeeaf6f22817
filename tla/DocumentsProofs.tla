--------------------------- MODULE DocumentsProofs ---------------------------
(***************************************************************************)
(* Theorems about Documents, for every set of captures, files, variants    *)
(* and people and every number of attempts: confirmed evidence keeps its   *)
(* source, and an available document is whole.                             *)
(***************************************************************************)
EXTENDS Documents, TLAPS

AttemptRow ==
    {NoAttempt} \cup [status : Unconfirmed \cup {"CANCELLED", "CONFIRMED"},
                      of : {0} \cup Numbers, lines : SUBSET Variants,
                      target : {"NONE", "DRAFT", "POSTED", "CANCELLED"}]

\* A scan runs on documents nobody has transcribed.
SourceInv ==
    /\ DOMAIN document = Documents /\ DOMAIN scanning = Documents
    /\ attempt \in [Documents -> [Numbers -> AttemptRow]]
    /\ \A d \in Documents : ~Idle(d) => document[d].status \in {"QUARANTINED", "REJECTED"}
    /\ \A d \in Documents, n \in Numbers :
           attempt[d][n].status \in {"AWAITING", "CONFIRMED"} => document[d].status = "AVAILABLE"

-----------------------------------------------------------------------------
(* Helpers.                                                                *)

LEMMA DocumentSet ==
  ASSUME DOMAIN document = Documents, NEW d \in Documents, NEW status, SetDocument(d, status)
  PROVE  /\ DOMAIN document' = Documents
         /\ document'[d].status = status
         /\ \A e \in Documents : e # d => document'[e] = document[e]
BY DEF SetDocument

LEMMA AttemptSet ==
  ASSUME attempt \in [Documents -> [Numbers -> AttemptRow]],
         NEW d \in Documents, NEW n, NEW row \in AttemptRow, SetAttempt(d, n, row)
  PROVE  /\ attempt' \in [Documents -> [Numbers -> AttemptRow]]
         /\ \A e \in Documents, m \in Numbers :
                attempt'[e][m] = attempt[e][m] \/ (e = d /\ m = n /\ attempt'[e][m] = row)
<1>1. attempt' = [attempt EXCEPT ![d] = [attempt[d] EXCEPT ![n] = row]]
  BY DEF SetAttempt
<1>2. attempt[d] \in [Numbers -> AttemptRow]
  OBVIOUS
<1>3. [attempt[d] EXCEPT ![n] = row] \in [Numbers -> AttemptRow]
  BY <1>2
<1> DEFINE f == [attempt[d] EXCEPT ![n] = row]
<1>4. \A m \in Numbers : f[m] = attempt[d][m] \/ (m = n /\ f[m] = row)
  BY <1>2
<1> HIDE DEF f
<1>5. attempt' = [attempt EXCEPT ![d] = f]
  BY <1>1 DEF f
<1>6. f \in [Numbers -> AttemptRow]
  BY <1>3 DEF f
<1>7. attempt' \in [Documents -> [Numbers -> AttemptRow]]
  BY <1>5, <1>6
<1>8. \A e \in Documents : IF e = d THEN attempt'[e] = f ELSE attempt'[e] = attempt[e]
  BY <1>5
<1> QED BY <1>4, <1>7, <1>8

LEMMA AttemptColumns ==
  ASSUME NEW row \in AttemptRow, row.status # "ABSENT"
  PROVE  row \in [status : Unconfirmed \cup {"CANCELLED", "CONFIRMED"},
                  of : {0} \cup Numbers, lines : SUBSET Variants,
                  target : {"NONE", "DRAFT", "POSTED", "CANCELLED"}]
<1>1. row # NoAttempt
  BY DEF NoAttempt
<1> QED BY <1>1 DEF AttemptRow

LEMMA StatusRow ==
  ASSUME NEW row \in AttemptRow, row.status # "ABSENT",
         NEW status \in Unconfirmed \cup {"CANCELLED", "CONFIRMED"}
  PROVE  /\ [row EXCEPT !.status = status] \in AttemptRow
         /\ [row EXCEPT !.status = status].status = status
BY AttemptColumns DEF AttemptRow

\* An attempt may change on any document, as long as it awaits a confirmation or is
\* confirmed on an available one only.
LEMMA AttemptPreserves ==
  ASSUME SourceInv, NEW d \in Documents, NEW n, NEW row \in AttemptRow, SetAttempt(d, n, row),
         row.status \in {"AWAITING", "CONFIRMED"} => document[d].status = "AVAILABLE",
         UNCHANGED <<document, scanning>>
  PROVE  SourceInv'
<1>1. /\ attempt' \in [Documents -> [Numbers -> AttemptRow]]
      /\ \A e \in Documents, m \in Numbers :
             attempt'[e][m] = attempt[e][m] \/ (e = d /\ m = n /\ attempt'[e][m] = row)
  BY AttemptSet DEF SourceInv
<1> QED BY <1>1 DEF SourceInv, Idle

LEMMA StatusPreserves ==
  ASSUME SourceInv, NEW d \in Documents, NEW n \in Numbers, attempt[d][n].status # "ABSENT",
         NEW status \in Unconfirmed \cup {"CANCELLED", "CONFIRMED"}, SetStatus(d, n, status),
         status \in {"AWAITING", "CONFIRMED"} => document[d].status = "AVAILABLE",
         UNCHANGED <<document, scanning>>
  PROVE  SourceInv'
<1>1. attempt[d][n] \in AttemptRow
  BY DEF SourceInv
<1> DEFINE row == [attempt[d][n] EXCEPT !.status = status]
<1>2. row \in AttemptRow /\ row.status = status
  BY <1>1, StatusRow
<1>3. SetAttempt(d, n, row)
  BY DEF SetStatus
<1> HIDE DEF row
<1> QED BY <1>2, <1>3, AttemptPreserves

\* A document that is not available may change in any way.
LEMMA DocumentPreserves ==
  ASSUME SourceInv, NEW d \in Documents, document[d].status # "AVAILABLE",
         DOMAIN document' = Documents, DOMAIN scanning' = Documents,
         \A e \in Documents : e # d => document'[e] = document[e] /\ scanning'[e] = scanning[e],
         scanning'[d] # <<>> => document'[d].status \in {"QUARANTINED", "REJECTED"},
         UNCHANGED attempt
  PROVE  SourceInv'
<1>1. \A n \in Numbers : attempt[d][n].status \notin {"AWAITING", "CONFIRMED"}
  BY DEF SourceInv
<1>2. \A e \in Documents : ~Idle(e)' => document'[e].status \in {"QUARANTINED", "REJECTED"}
  BY DEF SourceInv, Idle
<1>3. \A e \in Documents, n \in Numbers :
          attempt'[e][n].status \in {"AWAITING", "CONFIRMED"}
              => document'[e].status = "AVAILABLE"
  BY <1>1 DEF SourceInv
<1> QED BY <1>2, <1>3 DEF SourceInv

-----------------------------------------------------------------------------
(* Confirmed evidence keeps its source.                                    *)

LEMMA SourceInvInit == Init => SourceInv
<1> SUFFICES ASSUME Init PROVE SourceInv
  OBVIOUS
<1>1. attempt \in [Documents -> [Numbers -> AttemptRow]]
  BY DEF Init, AttemptRow
<1>2. \A d \in Documents, n \in Numbers : attempt[d][n].status = "ABSENT"
  BY DEF Init, NoAttempt
<1>3. DOMAIN document = Documents /\ DOMAIN scanning = Documents /\ \A d \in Documents : Idle(d)
  BY DEF Init, Idle
<1> QED BY <1>1, <1>2, <1>3 DEF SourceInv

LEMMA CapturePreserves ==
  ASSUME SourceInv, NEW d \in Documents, CommitCapture(d)
  PROVE  SourceInv'
<1>1. document[d].status = "CAPTURING" /\ DOMAIN document = Documents /\ Idle(d)
  BY DEF CommitCapture, SourceInv
<1>2. /\ DOMAIN document' = Documents
      /\ document'[d].status = "QUARANTINED"
      /\ \A e \in Documents : e # d => document'[e] = document[e]
  BY <1>1, DocumentSet DEF CommitCapture
<1>3. NewAttempt(0, {}) \in AttemptRow /\ NewAttempt(0, {}).status = "DRAFT"
  BY DEF NewAttempt, AttemptRow, Unconfirmed
<1>4. SetAttempt(d, 1, NewAttempt(0, {}))
  BY DEF CommitCapture, SetAttempt
<1>5. /\ attempt' \in [Documents -> [Numbers -> AttemptRow]]
      /\ \A e \in Documents, m \in Numbers :
             attempt'[e][m] = attempt[e][m]
                 \/ (e = d /\ m = 1 /\ attempt'[e][m] = NewAttempt(0, {}))
  BY <1>3, <1>4, AttemptSet DEF SourceInv
<1>6. UNCHANGED scanning
  BY DEF CommitCapture, storage
<1>7. \A e \in Documents : ~Idle(e)' => document'[e].status \in {"QUARANTINED", "REJECTED"}
  BY <1>1, <1>2, <1>6 DEF SourceInv, Idle
<1>8. ASSUME NEW e \in Documents, NEW m \in Numbers,
             attempt'[e][m].status \in {"AWAITING", "CONFIRMED"}
      PROVE  document'[e].status = "AVAILABLE"
  <2>1. attempt'[e][m] = attempt[e][m]
    BY <1>3, <1>5, <1>8
  <2>2. document[e].status = "AVAILABLE"
    BY <1>8, <2>1 DEF SourceInv
  <2> QED BY <1>1, <1>2, <2>2
<1> QED BY <1>2, <1>5, <1>6, <1>7, <1>8 DEF SourceInv

LEMMA CancelPreserves ==
  ASSUME SourceInv, NEW a \in Managers, NEW d \in Documents, CancelDocument(a, d)
  PROVE  SourceInv'
<1> DEFINE row(n) == IF n \in Cancellable(d) THEN [attempt[d][n] EXCEPT !.status = "CANCELLED"]
                                             ELSE attempt[d][n]
           f == [n \in Numbers |-> row(n)]
<1>1. attempt' = [attempt EXCEPT ![d] = f]
  BY DEF CancelDocument
<1>2. ASSUME NEW n \in Numbers
      PROVE  row(n) \in AttemptRow /\ row(n).status \notin {"AWAITING", "CONFIRMED"}
  <2>1. attempt[d][n] \in AttemptRow
    BY DEF SourceInv
  <2>2. attempt[d][n].status # "CONFIRMED"
    BY DEF CancelDocument
  <2>3. CASE n \in Cancellable(d)
    <3>1. attempt[d][n].status # "ABSENT"
      BY <2>3 DEF Cancellable, Unconfirmed
    <3> QED BY <2>1, <2>3, <3>1, StatusRow
  <2>4. CASE n \notin Cancellable(d)
    BY <2>1, <2>2, <2>4 DEF Cancellable, Unconfirmed
  <2> QED BY <2>3, <2>4
<1> HIDE DEF row
<1>3. f \in [Numbers -> AttemptRow] /\ \A n \in Numbers : f[n] = row(n)
  BY <1>2
<1> HIDE DEF f
<1>4. /\ attempt' \in [Documents -> [Numbers -> AttemptRow]]
      /\ \A e \in Documents : IF e = d THEN attempt'[e] = f ELSE attempt'[e] = attempt[e]
  BY <1>1, <1>3 DEF SourceInv
<1>5. /\ DOMAIN document' = Documents
      /\ \A e \in Documents : e # d => document'[e] = document[e]
      /\ UNCHANGED scanning /\ Idle(d)
  BY DEF CancelDocument, SourceInv, storage
<1>6. \A e \in Documents : ~Idle(e)' => document'[e].status \in {"QUARANTINED", "REJECTED"}
  BY <1>5 DEF SourceInv, Idle
<1>7. \A e \in Documents, n \in Numbers :
          attempt'[e][n].status \in {"AWAITING", "CONFIRMED"}
              => document'[e].status = "AVAILABLE"
  BY <1>2, <1>3, <1>4, <1>5 DEF SourceInv
<1> QED BY <1>4, <1>5, <1>6, <1>7 DEF SourceInv

LEMMA ConfirmPreserves ==
  ASSUME SourceInv, NEW a \in Managers, NEW d \in Documents, NEW n \in Numbers, Confirm(a, d, n)
  PROVE  SourceInv'
<1> DEFINE target == IF IsStock(d) THEN "NONE" ELSE "DRAFT"
           row == [attempt[d][n] EXCEPT !.status = "CONFIRMED", !.target = target]
<1>1. attempt[d][n].status = "AWAITING" /\ attempt[d][n] \in AttemptRow
  BY DEF Confirm, SourceInv
<1>2. attempt[d][n] \in [status : Unconfirmed \cup {"CANCELLED", "CONFIRMED"},
                         of : {0} \cup Numbers, lines : SUBSET Variants,
                         target : {"NONE", "DRAFT", "POSTED", "CANCELLED"}]
  BY <1>1, AttemptColumns
<1>3. target \in {"NONE", "DRAFT", "POSTED", "CANCELLED"}
  OBVIOUS
<1> HIDE DEF target
<1>4. row \in AttemptRow
  BY <1>2, <1>3 DEF AttemptRow
<1>5. document[d].status = "AVAILABLE"
  BY <1>1 DEF SourceInv
<1>6. SetAttempt(d, n, row) /\ UNCHANGED <<document, scanning>>
  BY DEF Confirm, storage, target
<1> HIDE DEF row
<1> QED BY <1>4, <1>5, <1>6, AttemptPreserves

LEMMA SavePreserves ==
  ASSUME SourceInv, NEW a \in Managers, NEW d \in Documents, NEW n \in Numbers,
         SaveTranscription(a, d, n)
  PROVE  SourceInv'
<1>1. PICK lines \in (SUBSET Variants) \ {{}} :
          SetAttempt(d, n, [attempt[d][n] EXCEPT !.lines = lines])
  BY DEF SaveTranscription
<1> DEFINE row == [attempt[d][n] EXCEPT !.lines = lines]
<1>2. attempt[d][n].status = "DRAFT" /\ attempt[d][n] \in AttemptRow
  BY DEF SaveTranscription, Editable, SourceInv
<1>3. attempt[d][n] \in [status : Unconfirmed \cup {"CANCELLED", "CONFIRMED"},
                         of : {0} \cup Numbers, lines : SUBSET Variants,
                         target : {"NONE", "DRAFT", "POSTED", "CANCELLED"}]
  BY <1>2, AttemptColumns
<1>4. row \in AttemptRow /\ row.status = "DRAFT"
  BY <1>2, <1>3 DEF AttemptRow
<1>5. SetAttempt(d, n, row) /\ UNCHANGED <<document, scanning>>
  BY <1>1 DEF SaveTranscription, storage
<1> HIDE DEF row
<1> QED BY <1>4, <1>5, AttemptPreserves

LEMMA TargetPreserves ==
  ASSUME SourceInv, NEW d \in Documents, NEW n \in Numbers, NEW from,
         NEW to \in {"NONE", "DRAFT", "POSTED", "CANCELLED"}, SetTarget(d, n, from, to)
  PROVE  SourceInv'
<1> DEFINE row == [attempt[d][n] EXCEPT !.target = to]
<1>1. attempt[d][n].status = "CONFIRMED" /\ attempt[d][n] \in AttemptRow
  BY DEF SetTarget, SourceInv
<1>2. attempt[d][n] \in [status : Unconfirmed \cup {"CANCELLED", "CONFIRMED"},
                         of : {0} \cup Numbers, lines : SUBSET Variants,
                         target : {"NONE", "DRAFT", "POSTED", "CANCELLED"}]
  BY <1>1, AttemptColumns
<1>3. row \in AttemptRow
  BY <1>2 DEF AttemptRow
<1>4. document[d].status = "AVAILABLE"
  BY <1>1 DEF SourceInv
<1>5. SetAttempt(d, n, row) /\ UNCHANGED <<document, scanning>>
  BY DEF SetTarget, storage
<1> HIDE DEF row
<1> QED BY <1>3, <1>4, <1>5, AttemptPreserves

LEMMA ReplacementPreserves ==
  ASSUME SourceInv, NEW a \in Managers, NEW d \in Documents, NEW n \in Numbers,
         StartReplacement(a, d, n)
  PROVE  SourceInv'
<1> DEFINE row == NewAttempt(n, attempt[d][n].lines)
<1>1. attempt[d][n].status = "CONFIRMED" /\ attempt[d][n] \in AttemptRow
  BY DEF StartReplacement, Replaceable, SourceInv
<1>2. attempt[d][n] \in [status : Unconfirmed \cup {"CANCELLED", "CONFIRMED"},
                         of : {0} \cup Numbers, lines : SUBSET Variants,
                         target : {"NONE", "DRAFT", "POSTED", "CANCELLED"}]
  BY <1>1, AttemptColumns
<1>3. attempt[d][n].lines \in SUBSET Variants
  BY <1>2
<1>4. row \in AttemptRow /\ row.status = "DRAFT"
  BY <1>3 DEF NewAttempt, AttemptRow, Unconfirmed
<1>5. SetAttempt(d, Max(Attempts(d)) + 1, row) /\ UNCHANGED <<document, scanning>>
  BY DEF StartReplacement, storage
<1> HIDE DEF row
<1> QED BY <1>4, <1>5, AttemptPreserves

LEMMA ScanPreserves ==
  ASSUME SourceInv, NEW d \in Documents, CommitScan(d) \/ DieScan(d)
  PROVE  SourceInv'
<1>1. document[d].status \in {"QUARANTINED", "REJECTED"} /\ UNCHANGED attempt
  BY DEF SourceInv, CommitScan, DieScan, rows
<1>2. /\ DOMAIN scanning' = Documents /\ scanning'[d] = <<>>
      /\ \A e \in Documents : e # d => scanning'[e] = scanning[e]
  BY DEF SourceInv, CommitScan, DieScan
<1>3. /\ DOMAIN document' = Documents
      /\ \A e \in Documents : e # d => document'[e] = document[e]
  <2>1. CASE CommitScan(d)
    <3>1. \E status : SetDocument(d, status)
      BY <2>1 DEF CommitScan
    <3> QED BY <3>1, DocumentSet DEF SourceInv
  <2>2. CASE DieScan(d)
    BY <2>2 DEF DieScan, rows, SourceInv
  <2> QED BY <2>1, <2>2
<1> QED BY <1>1, <1>2, <1>3, DocumentPreserves

LEMMA SourceInvStep == SourceInv /\ [Next]_vars => SourceInv'
<1> SUFFICES ASSUME SourceInv, [Next]_vars PROVE SourceInv'
  OBVIOUS
<1>1. ASSUME UNCHANGED <<document, attempt, scanning>> PROVE SourceInv'
  BY <1>1 DEF SourceInv, Idle
<1>2. ASSUME NEW a \in Managers, NEW d \in Documents, NEW source \in Sources,
             BeginCapture(a, d, source)
      PROVE  SourceInv'
  <2>1. document[d].status = "ABSENT" /\ Idle(d) /\ UNCHANGED <<attempt, scanning>>
    BY <1>2 DEF BeginCapture, NoDocument, SourceInv
  <2>2. /\ DOMAIN document' = Documents
        /\ \A e \in Documents : e # d => document'[e] = document[e]
    BY <1>2 DEF BeginCapture, SourceInv
  <2> QED BY <2>1, <2>2, DocumentPreserves DEF SourceInv, Idle
<1>3. ASSUME NEW a \in Managers, NEW d \in Documents, BeginScan(a, d) PROVE SourceInv'
  <2>1. /\ document[d].status \in {"QUARANTINED", "REJECTED"}
        /\ UNCHANGED <<document, attempt>>
    BY <1>3 DEF BeginScan, Scannable, rows
  <2>2. /\ DOMAIN scanning' = Documents
        /\ \A e \in Documents : e # d => scanning'[e] = scanning[e]
    BY <1>3 DEF BeginScan, SourceInv
  <2> QED BY <2>1, <2>2, DocumentPreserves DEF SourceInv
<1>4. ASSUME NEW a \in Managers, NEW d \in Documents, CancelDocument(a, d) PROVE SourceInv'
  BY <1>4, CancelPreserves
<1>5. ASSUME NEW a \in Managers, NEW d \in Documents, NEW n \in Numbers,
             SaveTranscription(a, d, n) \/ StartReplacement(a, d, n) \/ Confirm(a, d, n)
      PROVE  SourceInv'
  BY <1>5, SavePreserves, ReplacementPreserves, ConfirmPreserves
<1>6. ASSUME NEW a \in Managers, NEW d \in Documents, NEW n \in Numbers, Submit(a, d, n)
      PROVE  SourceInv'
  <2>1. /\ attempt[d][n].status # "ABSENT" /\ document[d].status = "AVAILABLE"
        /\ SetStatus(d, n, "AWAITING") /\ UNCHANGED <<document, scanning>>
    BY <1>6 DEF Submit, Editable, storage
  <2>2. "AWAITING" \in Unconfirmed \cup {"CANCELLED", "CONFIRMED"}
    BY DEF Unconfirmed
  <2> QED BY <2>1, <2>2, StatusPreserves
<1>7. ASSUME NEW a \in Managers, NEW d \in Documents, NEW n \in Numbers, ReturnToDraft(a, d, n)
      PROVE  SourceInv'
  <2>1. /\ attempt[d][n].status # "ABSENT"
        /\ SetStatus(d, n, "DRAFT") /\ UNCHANGED <<document, scanning>>
    BY <1>7 DEF ReturnToDraft, storage
  <2>2. "DRAFT" \in Unconfirmed \cup {"CANCELLED", "CONFIRMED"}
    BY DEF Unconfirmed
  <2> QED BY <2>1, <2>2, StatusPreserves
<1>8. ASSUME NEW a \in Managers, NEW d \in Documents, NEW n \in Numbers,
             CancelTranscription(a, d, n)
      PROVE  SourceInv'
  <2>1. /\ attempt[d][n].status # "ABSENT"
        /\ SetStatus(d, n, "CANCELLED") /\ UNCHANGED <<document, scanning>>
    BY <1>8 DEF CancelTranscription, Unconfirmed, storage
  <2> QED BY <2>1, StatusPreserves
<1>9. ASSUME NEW a \in Managers, NEW d \in Documents, NEW n \in Numbers,
             PostTarget(a, d, n) \/ CancelTarget(a, d, n)
      PROVE  SourceInv'
  BY <1>9, TargetPreserves DEF PostTarget, CancelTarget
<1>10. ASSUME NEW a \in Managers, NEW d \in Documents, NEW n \in Numbers,
              PostOpeningStock(a, d, n)
       PROVE  SourceInv'
  BY <1>1, <1>10 DEF PostOpeningStock, rows, storage
<1>11. ASSUME NEW d \in Documents, CommitCapture(d) PROVE SourceInv'
  BY <1>11, CapturePreserves
<1>12. ASSUME NEW d \in Documents, FailCapture(d) PROVE SourceInv'
  <2>1. document[d].status = "CAPTURING" /\ Idle(d) /\ UNCHANGED <<attempt, scanning>>
    BY <1>12 DEF FailCapture, SourceInv
  <2>2. /\ DOMAIN document' = Documents
        /\ \A e \in Documents : e # d => document'[e] = document[e]
    BY <1>12, DocumentSet DEF FailCapture, SourceInv
  <2> QED BY <2>1, <2>2, DocumentPreserves DEF SourceInv, Idle
<1>13. ASSUME NEW d \in Documents, CommitScan(d) \/ DieScan(d) PROVE SourceInv'
  BY <1>13, ScanPreserves
<1>14. ASSUME NEW d \in Documents, Expire(d) PROVE SourceInv'
  <2>1. document[d].status = "CANCELLED" /\ Idle(d) /\ UNCHANGED <<attempt, scanning>>
    BY <1>14 DEF Expire, SourceInv, storage
  <2>2. /\ DOMAIN document' = Documents
        /\ \A e \in Documents : e # d => document'[e] = document[e]
    BY <1>14 DEF Expire, SourceInv
  <2> QED BY <2>1, <2>2, DocumentPreserves DEF SourceInv, Idle
<1>15. ASSUME NEW d \in Documents, NEW i \in Files, PurgeBytes(d, i) PROVE SourceInv'
  BY <1>1, <1>15 DEF PurgeBytes, rows
<1>16. ASSUME NEW v \in Variants, MoveStock(v) PROVE SourceInv'
  BY <1>1, <1>16 DEF MoveStock, rows, storage
<1>17. CASE ListPurge \/ SavePurge \/ DiePurge
  BY <1>1, <1>17 DEF ListPurge, SavePurge, DiePurge, rows
<1>18. CASE SweepReadsRows \/ SweepListsObjects \/ SweepDeletesOrphans
  BY <1>1, <1>18 DEF SweepReadsRows, SweepListsObjects, SweepDeletesOrphans, rows
<1>19. ASSUME NEW o \in Objects, GrowOld(o) PROVE SourceInv'
  BY <1>1, <1>19 DEF GrowOld, rows
<1>20. CASE UNCHANGED vars
  BY <1>1, <1>20 DEF vars, rows, storage
<1>21. ASSUME NEW a \in Managers, NEW d \in Documents, FailScan(a, d) PROVE SourceInv'
  BY <1>1, <1>21 DEF FailScan, rows
<1> QED
  BY <1>2, <1>3, <1>4, <1>5, <1>6, <1>7, <1>8, <1>9, <1>10, <1>11, <1>12, <1>13, <1>14,
     <1>15, <1>16, <1>17, <1>18, <1>19, <1>20, <1>21 DEF Next

\* confirm_transcription against cancel_document, scans and purges: an attempt that an
\* owner confirmed belongs to a document that is available.
THEOREM ConfirmedKeepsItsSource == Spec => []ConfirmedSourceIsKept
<1>1. Init => SourceInv
  BY SourceInvInit
<1>2. SourceInv /\ [Next]_vars => SourceInv'
  BY SourceInvStep
<1>3. SourceInv => ConfirmedSourceIsKept
  BY DEF SourceInv, ConfirmedSourceIsKept
<1> QED BY <1>1, <1>2, <1>3, PTL DEF Spec

-----------------------------------------------------------------------------
(* An available document is whole.                                         *)

FileRow == [scan : {"PENDING"} \cup Verdicts, purged : BOOLEAN]

Shaped == /\ DOMAIN document = Documents /\ DOMAIN scanning = Documents
          /\ DOMAIN stored = Objects
          /\ file \in [Documents -> [Files -> FileRow]]

\* Nothing has touched the rows of a capture that has not committed, nor its bytes.
FreshCaptures ==
    \A d \in Documents, i \in Files :
        /\ document[d].status \in {"ABSENT", "CAPTURING"} => file[d][i] = NewFile
        /\ document[d].status = "CAPTURING" => stored[<<d, i>>] = "NEW"

\* What was found clean is there.
CleanIsKept ==
    \A d \in Documents, i \in Files :
        document[d].status \in Captured /\ file[d][i].scan = "CLEAN"
            => ~file[d][i].purged /\ stored[<<d, i>>] # "NO"
AvailableIsClean ==
    \A d \in Documents, i \in Files :
        document[d].status = "AVAILABLE" => file[d][i].scan = "CLEAN"

\* A scan is about the files that have no verdict, and has deleted the infected alone.
ScansAreCurrent ==
    \A d \in Documents : ~Idle(d) =>
        /\ document[d].status \in {"QUARANTINED", "REJECTED"}
        /\ scanning[d] \in [Unscanned(d) -> Verdicts]
        /\ \A i \in Unscanned(d) : scanning[d][i] # "INFECTED" => stored[<<d, i>>] # "NO"

PurgesAreCancelled ==
    \A d \in Documents, i \in Files :
        <<d, i>> \in purging.listed \cup purging.taken => document[d].status = "CANCELLED"

\* The orphans of a reconciliation that have a row by now are the bytes of captures that
\* were running, too young to be deleted.
OrphansAreYoung ==
    \A o \in Objects :
        /\ sweep.step = "READ" /\ HasRow(o) /\ o \notin sweep.names => stored[o] # "OLD"
        /\ sweep.step = "LISTED" /\ HasRow(o) /\ o \in sweep.names => stored[o] # "OLD"

StorageInv ==
    /\ Shaped /\ FreshCaptures /\ CleanIsKept /\ AvailableIsClean
    /\ ScansAreCurrent /\ PurgesAreCancelled /\ OrphansAreYoung

LEMMA ObjectParts ==
  ASSUME NEW d \in Documents, NEW i \in Files
  PROVE  <<d, i>> \in Objects /\ <<d, i>>[1] = d /\ <<d, i>>[2] = i
BY DEF Objects

LEMMA StorageInvInit == Init => StorageInv
<1> SUFFICES ASSUME Init PROVE StorageInv
  OBVIOUS
<1>1. Shaped
  <2>1. NewFile \in FileRow
    BY DEF NewFile, FileRow
  <2>2. file \in [Documents -> [Files -> FileRow]]
    BY <2>1 DEF Init
  <2>3. /\ DOMAIN document = Documents /\ DOMAIN scanning = Documents
        /\ DOMAIN stored = Objects
    BY DEF Init
  <2> QED BY <2>2, <2>3 DEF Shaped
<1>2. \A d \in Documents : document[d].status = "ABSENT" /\ Idle(d)
  BY DEF Init, NoDocument, Idle
<1>3. FreshCaptures
  BY <1>2 DEF Init, FreshCaptures
<1>4. CleanIsKept /\ AvailableIsClean /\ ScansAreCurrent
  BY <1>2 DEF CleanIsKept, AvailableIsClean, ScansAreCurrent, Captured
<1>5. PurgesAreCancelled /\ OrphansAreYoung
  BY DEF Init, NoPurge, PurgesAreCancelled, OrphansAreYoung
<1> QED BY <1>1, <1>3, <1>4, <1>5 DEF StorageInv

\* The objects a step deletes belong to no capture, to no clean file of a captured
\* document and to no file a running scan has passed.
LEMMA DeletePreserves ==
  ASSUME StorageInv, NEW objects, Delete(objects),
         UNCHANGED <<document, file, scanning>>,
         \A d \in Documents, i \in Files : <<d, i>> \in objects =>
             /\ document[d].status # "CAPTURING"
             /\ ~(document[d].status \in Captured /\ file[d][i].scan = "CLEAN")
             /\ ~Idle(d) /\ i \in Unscanned(d) => scanning[d][i] = "INFECTED"
  PROVE  /\ Shaped' /\ FreshCaptures' /\ CleanIsKept' /\ AvailableIsClean' /\ ScansAreCurrent'
         /\ \A o \in Objects : stored'[o] = stored[o] \/ stored'[o] = "NO"
<1>1. /\ stored' = [o \in Objects |-> IF o \in objects THEN "NO" ELSE stored[o]]
      /\ \A o \in Objects : stored'[o] = IF o \in objects THEN "NO" ELSE stored[o]
  BY DEF Delete
<1>2. Shaped'
  BY <1>1 DEF StorageInv, Shaped
<1>3. \A d \in Documents, i \in Files :
          stored'[<<d, i>>] = IF <<d, i>> \in objects THEN "NO" ELSE stored[<<d, i>>]
  BY <1>1, ObjectParts
<1>4. FreshCaptures'
  <2>1. ASSUME NEW d \in Documents, NEW i \in Files
        PROVE  /\ document'[d].status \in {"ABSENT", "CAPTURING"} => file'[d][i] = NewFile
               /\ document'[d].status = "CAPTURING" => stored'[<<d, i>>] = "NEW"
    BY <1>3 DEF StorageInv, FreshCaptures
  <2> QED BY <2>1 DEF FreshCaptures, NewFile
<1>5. CleanIsKept' /\ AvailableIsClean'
  BY <1>3 DEF StorageInv, CleanIsKept, AvailableIsClean
<1>6. ScansAreCurrent'
  <2> SUFFICES ASSUME NEW d \in Documents, ~Idle(d)'
               PROVE  /\ document'[d].status \in {"QUARANTINED", "REJECTED"}
                      /\ scanning'[d] \in [Unscanned(d)' -> Verdicts]
                      /\ \A i \in Unscanned(d)' :
                             scanning'[d][i] # "INFECTED" => stored'[<<d, i>>] # "NO"
    BY DEF ScansAreCurrent
  <2>1. ~Idle(d) /\ Unscanned(d)' = Unscanned(d)
    BY DEF Idle, Unscanned
  <2>2. /\ document[d].status \in {"QUARANTINED", "REJECTED"}
        /\ scanning[d] \in [Unscanned(d) -> Verdicts]
        /\ \A i \in Unscanned(d) : scanning[d][i] # "INFECTED" => stored[<<d, i>>] # "NO"
    BY <2>1 DEF StorageInv, ScansAreCurrent
  <2>3. Unscanned(d) \subseteq Files
    BY DEF Unscanned
  <2> QED BY <1>3, <2>1, <2>2, <2>3
<1> QED BY <1>1, <1>2, <1>4, <1>5, <1>6

\* A document may change whose scan is not running, if its row keeps its objects.
LEMMA RowPreserves ==
  ASSUME StorageInv, NEW d \in Documents, Idle(d),
         UNCHANGED <<file, scanning>>, DOMAIN document' = Documents,
         DOMAIN stored' = Objects,
         \A e \in Documents, i \in Files :
             e # d \/ document'[d].status \in Captured => stored'[<<e, i>>] = stored[<<e, i>>],
         \A e \in Documents : e # d => document'[e] = document[e],
         document'[d].status # "ABSENT" /\ document'[d].status # "CAPTURING",
         document'[d].status = "AVAILABLE" => document[d].status = "AVAILABLE",
         document'[d].status \in Captured => document[d].status \in Captured \cup {"CAPTURING"}
  PROVE  Shaped' /\ FreshCaptures' /\ CleanIsKept' /\ AvailableIsClean' /\ ScansAreCurrent'
<1>1. Shaped'
  BY DEF StorageInv, Shaped
<1>2. FreshCaptures'
  <2>1. ASSUME NEW e \in Documents, NEW i \in Files
        PROVE  /\ document'[e].status \in {"ABSENT", "CAPTURING"} => file'[e][i] = NewFile
               /\ document'[e].status = "CAPTURING" => stored'[<<e, i>>] = "NEW"
    BY DEF StorageInv, FreshCaptures
  <2> QED BY <2>1 DEF FreshCaptures, NewFile
<1>3. ASSUME NEW i \in Files, document'[d].status \in Captured, file[d][i].scan = "CLEAN"
      PROVE  ~file[d][i].purged /\ stored[<<d, i>>] # "NO"
  <2>1. CASE document[d].status = "CAPTURING"
    BY <1>3, <2>1 DEF StorageInv, FreshCaptures, NewFile
  <2>2. CASE document[d].status \in Captured
    BY <1>3, <2>2 DEF StorageInv, CleanIsKept
  <2> QED BY <1>3, <2>1, <2>2
<1>4. CleanIsKept'
  BY <1>3 DEF StorageInv, CleanIsKept
<1>5. AvailableIsClean'
  BY DEF StorageInv, AvailableIsClean
<1>6. ScansAreCurrent'
  <2> SUFFICES ASSUME NEW e \in Documents, ~Idle(e)'
               PROVE  /\ document'[e].status \in {"QUARANTINED", "REJECTED"}
                      /\ scanning'[e] \in [Unscanned(e)' -> Verdicts]
                      /\ \A i \in Unscanned(e)' :
                             scanning'[e][i] # "INFECTED" => stored'[<<e, i>>] # "NO"
    BY DEF ScansAreCurrent
  <2>1. ~Idle(e) /\ Unscanned(e)' = Unscanned(e)
    BY DEF Idle, Unscanned
  <2>2. e # d /\ document'[e] = document[e]
    BY <2>1
  <2>3. Unscanned(e) \subseteq Files
    BY DEF Unscanned
  <2> QED BY <2>1, <2>2, <2>3 DEF StorageInv, ScansAreCurrent
<1> QED BY <1>1, <1>2, <1>4, <1>5, <1>6

\* An object has a row no longer than its document, unless a capture commits.
LEMMA OrphansPreserved ==
  ASSUME StorageInv, UNCHANGED sweep,
         \A o \in Objects : /\ HasRow(o)' => HasRow(o)
                            /\ stored'[o] = "OLD" => stored[o] = "OLD"
  PROVE  OrphansAreYoung'
BY DEF StorageInv, OrphansAreYoung

LEMMA BeginCapturePreserves ==
  ASSUME StorageInv, NEW a \in Managers, NEW d \in Documents, NEW source \in Sources,
         BeginCapture(a, d, source)
  PROVE  StorageInv'
<1>1. /\ document[d].status = "ABSENT" /\ UNCHANGED <<file, scanning, purging, sweep>>
      /\ document' = [document EXCEPT ![d] = [status |-> "CAPTURING", source |-> source]]
      /\ stored' = [o \in Objects |-> IF o \in ObjectsOf(d) THEN "NEW" ELSE stored[o]]
  BY DEF BeginCapture, NoDocument, Store
<1>2. /\ DOMAIN document' = Documents /\ document'[d].status = "CAPTURING"
      /\ \A e \in Documents : e # d => document'[e] = document[e]
  BY <1>1 DEF StorageInv, Shaped
<1>3. \A e \in Documents, i \in Files :
          stored'[<<e, i>>] = IF e = d THEN "NEW" ELSE stored[<<e, i>>]
  BY <1>1, ObjectParts DEF ObjectsOf
<1>4. Shaped'
  BY <1>1, <1>2 DEF StorageInv, Shaped
<1>5. FreshCaptures'
  <2>1. ASSUME NEW e \in Documents, NEW i \in Files
        PROVE  /\ document'[e].status \in {"ABSENT", "CAPTURING"} => file'[e][i] = NewFile
               /\ document'[e].status = "CAPTURING" => stored'[<<e, i>>] = "NEW"
    BY <1>1, <1>2, <1>3 DEF StorageInv, FreshCaptures
  <2> QED BY <2>1 DEF FreshCaptures, NewFile
<1>6. CleanIsKept' /\ AvailableIsClean'
  BY <1>1, <1>2, <1>3 DEF StorageInv, CleanIsKept, AvailableIsClean, Captured
<1>7. ScansAreCurrent'
  <2> SUFFICES ASSUME NEW e \in Documents, ~Idle(e)'
               PROVE  /\ document'[e].status \in {"QUARANTINED", "REJECTED"}
                      /\ scanning'[e] \in [Unscanned(e)' -> Verdicts]
                      /\ \A i \in Unscanned(e)' :
                             scanning'[e][i] # "INFECTED" => stored'[<<e, i>>] # "NO"
    BY DEF ScansAreCurrent
  <2>1. ~Idle(e) /\ Unscanned(e)' = Unscanned(e) /\ scanning'[e] = scanning[e]
    BY <1>1 DEF Idle, Unscanned
  <2>2. /\ document[e].status \in {"QUARANTINED", "REJECTED"}
        /\ scanning[e] \in [Unscanned(e) -> Verdicts]
        /\ \A i \in Unscanned(e) : scanning[e][i] # "INFECTED" => stored[<<e, i>>] # "NO"
    BY <2>1 DEF StorageInv, ScansAreCurrent
  <2>3. e # d /\ document'[e] = document[e]
    BY <1>1, <1>2, <2>2
  <2>4. Unscanned(e) \subseteq Files
    BY DEF Unscanned
  <2> QED BY <1>3, <2>1, <2>2, <2>3, <2>4
<1>8. PurgesAreCancelled'
  BY <1>1, <1>2 DEF StorageInv, PurgesAreCancelled
<1>9. ASSUME NEW o \in Objects
      PROVE  (HasRow(o)' => HasRow(o)) /\ (stored'[o] = "OLD" => stored[o] = "OLD")
  <2>1. PICK e \in Documents, i \in Files : o = <<e, i>>
    BY DEF Objects
  <2> QED BY <1>1, <1>2, <1>3, <2>1, ObjectParts DEF HasRow, Captured
<1>10. OrphansAreYoung'
  BY <1>1, <1>9, OrphansPreserved
<1> QED BY <1>4, <1>5, <1>6, <1>7, <1>8, <1>10 DEF StorageInv

LEMMA CommitCaptureStores ==
  ASSUME StorageInv, NEW d \in Documents, CommitCapture(d)
  PROVE  StorageInv'
<1>1. /\ document[d].status = "CAPTURING" /\ SetDocument(d, "QUARANTINED")
      /\ UNCHANGED <<file, scanning, purging, stored, sweep>>
  BY DEF CommitCapture, storage
<1>2. /\ DOMAIN document' = Documents /\ document'[d].status = "QUARANTINED"
      /\ \A e \in Documents : e # d => document'[e] = document[e]
  BY <1>1, DocumentSet DEF StorageInv, Shaped
<1>3. Idle(d)
  BY <1>1 DEF StorageInv, ScansAreCurrent
<1>4. Shaped' /\ FreshCaptures' /\ CleanIsKept' /\ AvailableIsClean' /\ ScansAreCurrent'
  BY <1>1, <1>2, <1>3, RowPreserves DEF StorageInv, Shaped
<1>5. PurgesAreCancelled'
  BY <1>1, <1>2 DEF StorageInv, PurgesAreCancelled
<1>6. ASSUME NEW o \in Objects
      PROVE  (HasRow(o)' => HasRow(o) \/ stored[o] = "NEW")
  <2>1. PICK e \in Documents, i \in Files : o = <<e, i>>
    BY DEF Objects
  <2>2. CASE e = d
    BY <1>1, <2>1, <2>2 DEF StorageInv, FreshCaptures, NewFile
  <2>3. CASE e # d
    BY <1>1, <1>2, <2>1, <2>3, ObjectParts DEF HasRow
  <2> QED BY <2>2, <2>3
<1>7. OrphansAreYoung'
  BY <1>1, <1>6 DEF StorageInv, OrphansAreYoung
<1> QED BY <1>4, <1>5, <1>7 DEF StorageInv

\* A capture that fails leaves the objects of the others alone, and cancelling and expiring
\* every object.
LEMMA LeavePreserves ==
  ASSUME StorageInv, NEW d \in Documents,
         FailCapture(d) \/ Expire(d) \/ \E a \in Managers : CancelDocument(a, d)
  PROVE  StorageInv'
<1>1. UNCHANGED <<file, scanning, purging, sweep>>
  BY DEF FailCapture, Expire, CancelDocument, storage
<1>2. UNCHANGED stored \/ \E gone \in SUBSET ObjectsOf(d) : Delete(gone)
  BY DEF FailCapture, Expire, CancelDocument, storage
<1>3. /\ DOMAIN stored' = Objects
      /\ \A o \in Objects : stored'[o] = stored[o] \/ stored'[o] = "NO"
      /\ \A e \in Documents, i \in Files : e # d => stored'[<<e, i>>] = stored[<<e, i>>]
  <2>1. CASE UNCHANGED stored
    BY <2>1 DEF StorageInv, Shaped
  <2>2. ASSUME NEW gone \in SUBSET ObjectsOf(d), Delete(gone)
        PROVE  /\ DOMAIN stored' = Objects
               /\ \A o \in Objects : stored'[o] = IF o \in gone THEN "NO" ELSE stored[o]
    BY <2>2 DEF Delete
  <2>3. \A e \in Documents, i \in Files : e # d => <<e, i>> \notin ObjectsOf(d)
    BY DEF ObjectsOf
  <2> QED BY <1>2, <2>1, <2>2, <2>3, ObjectParts
<1>4. /\ document[d].status \in Captured \cup {"CAPTURING", "CANCELLED"} /\ Idle(d)
      /\ DOMAIN document' = Documents
      /\ document'[d].status = IF FailCapture(d) THEN "FAILED" ELSE "CANCELLED"
      /\ document[d].status = "CANCELLED" => document'[d].status = "CANCELLED"
      /\ document[d].status = "CAPTURING" => document'[d].status = "FAILED"
      /\ \A e \in Documents : e # d => document'[e] = document[e]
  <2>1. CASE FailCapture(d)
    <3>1. document[d].status = "CAPTURING" /\ Idle(d)
      BY <2>1 DEF FailCapture, StorageInv, ScansAreCurrent
    <3> QED BY <2>1, <3>1, DocumentSet DEF FailCapture, StorageInv, Shaped
  <2>2. CASE Expire(d)
    <3>1. document[d].status = "CANCELLED" /\ Idle(d) /\ ~FailCapture(d)
      BY <2>2 DEF Expire, FailCapture, StorageInv, ScansAreCurrent
    <3> QED BY <2>2, <3>1 DEF Expire, StorageInv, Shaped
  <2>3. CASE \E a \in Managers : CancelDocument(a, d)
    <3>1. document[d].status \in Captured \cup {"CANCELLED"} /\ Idle(d) /\ ~FailCapture(d)
      BY <2>3 DEF CancelDocument, FailCapture, Captured
    <3> QED BY <2>3, <3>1 DEF CancelDocument, StorageInv, Shaped, Captured
  <2> QED BY <2>1, <2>2, <2>3
<1>5. document'[d].status \in {"FAILED", "CANCELLED"}
  BY <1>4
<1>6. Shaped' /\ FreshCaptures' /\ CleanIsKept' /\ AvailableIsClean' /\ ScansAreCurrent'
  BY <1>1, <1>3, <1>4, <1>5, RowPreserves DEF Captured
<1>7. PurgesAreCancelled'
  BY <1>1, <1>4 DEF StorageInv, PurgesAreCancelled
<1>8. ASSUME NEW o \in Objects
      PROVE  (HasRow(o)' => HasRow(o)) /\ (stored'[o] = "OLD" => stored[o] = "OLD")
  <2>1. PICK e \in Documents, i \in Files : o = <<e, i>>
    BY DEF Objects
  <2>2. HasRow(o)' => HasRow(o)
    BY <1>1, <1>4, <1>5, <2>1, ObjectParts DEF HasRow, Captured
  <2> QED BY <1>3, <2>2
<1>9. OrphansAreYoung'
  BY <1>1, <1>8, OrphansPreserved
<1> QED BY <1>6, <1>7, <1>9 DEF StorageInv

LEMMA BeginScanPreserves ==
  ASSUME StorageInv, NEW a \in Managers, NEW d \in Documents, BeginScan(a, d)
  PROVE  StorageInv'
<1>1. /\ Idle(d) /\ document[d].status \in {"QUARANTINED", "REJECTED"}
      /\ \A i \in Unscanned(d) : stored[<<d, i>>] # "NO"
      /\ UNCHANGED <<document, file, purging, sweep>>
  BY DEF BeginScan, Scannable, rows
<1>2. PICK verdict \in [Unscanned(d) -> Verdicts] :
          /\ scanning' = [scanning EXCEPT ![d] = verdict]
          /\ Delete({d} \X {i \in DOMAIN verdict : verdict[i] = "INFECTED"})
  BY DEF BeginScan
<1> DEFINE infected == {d} \X {i \in Unscanned(d) : verdict[i] = "INFECTED"}
<1>3. Delete(infected) /\ stored' = [o \in Objects |-> IF o \in infected THEN "NO" ELSE stored[o]]
  BY <1>2 DEF Delete
<1>4. Unscanned(d) \subseteq Files
  BY DEF Unscanned
<1>5. \A e \in Documents, i \in Files :
          <<e, i>> \in infected <=> e = d /\ i \in Unscanned(d) /\ verdict[i] = "INFECTED"
  OBVIOUS
<1> HIDE DEF infected
<1>6. \A e \in Documents, i \in Files :
          stored'[<<e, i>>] = IF e = d /\ i \in Unscanned(d) /\ verdict[i] = "INFECTED"
                              THEN "NO" ELSE stored[<<e, i>>]
  BY <1>3, <1>5, ObjectParts
<1>7. \A i \in Unscanned(d) : file[d][i].scan # "CLEAN"
  BY DEF Unscanned
<1>8. /\ DOMAIN scanning' = Documents /\ scanning'[d] = verdict
      /\ \A e \in Documents : e # d => scanning'[e] = scanning[e]
  BY <1>2 DEF StorageInv, Shaped
<1>9. Shaped'
  BY <1>1, <1>3, <1>8 DEF StorageInv, Shaped
<1>10. FreshCaptures'
  <2>1. ASSUME NEW e \in Documents, NEW i \in Files
        PROVE  /\ document'[e].status \in {"ABSENT", "CAPTURING"} => file'[e][i] = NewFile
               /\ document'[e].status = "CAPTURING" => stored'[<<e, i>>] = "NEW"
    BY <1>1, <1>6 DEF StorageInv, FreshCaptures
  <2> QED BY <2>1 DEF FreshCaptures, NewFile
<1>11. CleanIsKept' /\ AvailableIsClean'
  BY <1>1, <1>6, <1>7 DEF StorageInv, CleanIsKept, AvailableIsClean
<1>12. ScansAreCurrent'
  <2> SUFFICES ASSUME NEW e \in Documents, ~Idle(e)'
               PROVE  /\ document'[e].status \in {"QUARANTINED", "REJECTED"}
                      /\ scanning'[e] \in [Unscanned(e)' -> Verdicts]
                      /\ \A i \in Unscanned(e)' :
                             scanning'[e][i] # "INFECTED" => stored'[<<e, i>>] # "NO"
    BY DEF ScansAreCurrent
  <2>1. Unscanned(e)' = Unscanned(e) /\ Unscanned(e) \subseteq Files
    BY <1>1 DEF Unscanned
  <2>2. CASE e = d
    BY <1>1, <1>4, <1>6, <1>8, <2>1, <2>2
  <2>3. CASE e # d
    <3>1. ~Idle(e) /\ scanning'[e] = scanning[e]
      BY <1>8, <2>3 DEF Idle
    <3> QED BY <1>1, <1>6, <2>1, <2>3, <3>1 DEF StorageInv, ScansAreCurrent
  <2> QED BY <2>2, <2>3
<1>13. PurgesAreCancelled'
  BY <1>1 DEF StorageInv, PurgesAreCancelled
<1>14. \A o \in Objects :
           (HasRow(o)' => HasRow(o)) /\ (stored'[o] = "OLD" => stored[o] = "OLD")
  BY <1>1, <1>3 DEF HasRow
<1>15. OrphansAreYoung'
  BY <1>1, <1>14, OrphansPreserved
<1> QED BY <1>9, <1>10, <1>11, <1>12, <1>13, <1>15 DEF StorageInv

\* The status says clean only if every file does.
LEMMA StatusIsClean ==
  ASSUME NEW files, StatusOf(files) = "AVAILABLE"
  PROVE  \A i \in Files : files[i].scan = "CLEAN"
BY DEF StatusOf

LEMMA StatusIsCaptured ==
  ASSUME NEW files
  PROVE  StatusOf(files) \in Captured
BY DEF StatusOf, Captured

LEMMA CommitScanPreserves ==
  ASSUME StorageInv, NEW d \in Documents, CommitScan(d)
  PROVE  StorageInv'
<1> DEFINE result(i) == IF i \in DOMAIN scanning[d]
                        THEN [scan |-> scanning[d][i], purged |-> scanning[d][i] = "INFECTED"]
                        ELSE file[d][i]
           files == [i \in Files |-> result(i)]
<1>1. /\ ~Idle(d) /\ UNCHANGED <<purging, stored, sweep>>
      /\ file' = [file EXCEPT ![d] = files]
      /\ SetDocument(d, StatusOf(files))
      /\ scanning' = [scanning EXCEPT ![d] = <<>>]
  BY DEF CommitScan
<1>2. /\ document[d].status \in {"QUARANTINED", "REJECTED"}
      /\ scanning[d] \in [Unscanned(d) -> Verdicts]
      /\ \A i \in Unscanned(d) : scanning[d][i] # "INFECTED" => stored[<<d, i>>] # "NO"
  BY <1>1 DEF StorageInv, ScansAreCurrent
<1>3. ASSUME NEW i \in Files
      PROVE  /\ result(i) \in FileRow
             /\ result(i).scan = "CLEAN" => ~result(i).purged /\ stored[<<d, i>>] # "NO"
             /\ ~result(i).purged => ~file[d][i].purged
  <2>1. CASE i \in Unscanned(d)
    <3>1. result(i) = [scan |-> scanning[d][i], purged |-> scanning[d][i] = "INFECTED"]
      BY <1>2, <2>1
    <3>2. scanning[d][i] \in Verdicts /\ ~file[d][i].purged
      BY <1>2, <2>1 DEF Unscanned
    <3> HIDE DEF result
    <3>3. result(i) \in FileRow
      BY <3>1, <3>2 DEF FileRow
    <3>4. result(i).scan = scanning[d][i]
      BY <3>1
    <3>5. ASSUME scanning[d][i] # "INFECTED" PROVE ~result(i).purged
      <4>1. (scanning[d][i] = "INFECTED") = FALSE
        BY <3>5
      <4>2. result(i) = [scan |-> scanning[d][i], purged |-> FALSE]
        BY <3>1, <4>1
      <4> QED BY <4>2
    <3>6. result(i).scan = "CLEAN" => ~result(i).purged /\ stored[<<d, i>>] # "NO"
      BY <1>2, <2>1, <3>4, <3>5
    <3> QED BY <3>2, <3>3, <3>6
  <2>2. CASE i \notin Unscanned(d)
    <3>1. result(i) = file[d][i] /\ file[d][i] \in FileRow
      BY <1>2, <2>2 DEF StorageInv, Shaped
    <3> HIDE DEF result
    <3> QED BY <1>2, <3>1 DEF StorageInv, CleanIsKept, Captured
  <2> QED BY <2>1, <2>2
<1> HIDE DEF result
<1>4. files \in [Files -> FileRow] /\ \A i \in Files : files[i] = result(i)
  BY <1>3
<1>5. StatusOf(files) = "AVAILABLE" => \A i \in Files : files[i].scan = "CLEAN"
  BY StatusIsClean
<1>6. StatusOf(files) \in Captured
  BY StatusIsCaptured
<1> HIDE DEF files
<1>7. /\ DOMAIN document' = Documents /\ document'[d].status = StatusOf(files)
      /\ \A e \in Documents : e # d => document'[e] = document[e]
  BY <1>1, DocumentSet DEF StorageInv, Shaped
<1>8. /\ file' \in [Documents -> [Files -> FileRow]] /\ file'[d] = files
      /\ \A e \in Documents : e # d => file'[e] = file[e]
  BY <1>1, <1>4 DEF StorageInv, Shaped
<1>9. /\ DOMAIN scanning' = Documents /\ scanning'[d] = <<>>
      /\ \A e \in Documents : e # d => scanning'[e] = scanning[e]
  BY <1>1 DEF StorageInv, Shaped
<1>10. Shaped'
  BY <1>1, <1>7, <1>8, <1>9 DEF StorageInv, Shaped
<1>11. FreshCaptures'
  <2>1. ASSUME NEW e \in Documents, NEW i \in Files
        PROVE  /\ document'[e].status \in {"ABSENT", "CAPTURING"} => file'[e][i] = NewFile
               /\ document'[e].status = "CAPTURING" => stored'[<<e, i>>] = "NEW"
    <3>1. CASE e = d
      BY <1>6, <1>7, <3>1 DEF Captured
    <3>2. CASE e # d
      BY <1>1, <1>7, <1>8, <3>2 DEF StorageInv, FreshCaptures
    <3> QED BY <3>1, <3>2
  <2> QED BY <2>1 DEF FreshCaptures, NewFile
<1>12. CleanIsKept'
  <2>1. ASSUME NEW e \in Documents, NEW i \in Files,
               document'[e].status \in Captured, file'[e][i].scan = "CLEAN"
        PROVE  ~file'[e][i].purged /\ stored'[<<e, i>>] # "NO"
    <3>1. CASE e = d
      BY <1>1, <1>3, <1>4, <1>8, <2>1, <3>1
    <3>2. CASE e # d
      BY <1>1, <1>7, <1>8, <2>1, <3>2 DEF StorageInv, CleanIsKept
    <3> QED BY <3>1, <3>2
  <2> QED BY <2>1 DEF CleanIsKept, Captured
<1>13. AvailableIsClean'
  <2>1. ASSUME NEW e \in Documents, NEW i \in Files, document'[e].status = "AVAILABLE"
        PROVE  file'[e][i].scan = "CLEAN"
    <3>1. CASE e = d
      BY <1>5, <1>7, <1>8, <2>1, <3>1
    <3>2. CASE e # d
      BY <1>7, <1>8, <2>1, <3>2 DEF StorageInv, AvailableIsClean
    <3> QED BY <3>1, <3>2
  <2> QED BY <2>1 DEF AvailableIsClean
<1>14. ScansAreCurrent'
  <2> SUFFICES ASSUME NEW e \in Documents, ~Idle(e)'
               PROVE  /\ document'[e].status \in {"QUARANTINED", "REJECTED"}
                      /\ scanning'[e] \in [Unscanned(e)' -> Verdicts]
                      /\ \A i \in Unscanned(e)' :
                             scanning'[e][i] # "INFECTED" => stored'[<<e, i>>] # "NO"
    BY DEF ScansAreCurrent
  <2>1. e # d /\ ~Idle(e)
    BY <1>9 DEF Idle
  <2>2. Unscanned(e)' = Unscanned(e)
    BY <1>8, <2>1 DEF Unscanned
  <2> QED BY <1>1, <1>7, <1>9, <2>1, <2>2 DEF StorageInv, ScansAreCurrent
<1>15. PurgesAreCancelled'
  <2>1. \A e \in Documents, i \in Files :
            <<e, i>> \in (purging.listed \cup purging.taken)'
                => document'[e].status = "CANCELLED"
    BY <1>1, <1>2, <1>7 DEF StorageInv, PurgesAreCancelled
  <2> QED BY <2>1 DEF PurgesAreCancelled
<1>16. ASSUME NEW o \in Objects PROVE HasRow(o)' => HasRow(o)
  <2>1. PICK e \in Documents, i \in Files : o = <<e, i>>
    BY DEF Objects
  <2>2. CASE e = d
    BY <1>2, <1>3, <1>4, <1>8, <2>1, <2>2, ObjectParts DEF HasRow, Captured
  <2>3. CASE e # d
    BY <1>7, <1>8, <2>1, <2>3, ObjectParts DEF HasRow
  <2> QED BY <2>2, <2>3
<1>17. OrphansAreYoung'
  BY <1>1, <1>16, OrphansPreserved
<1> QED BY <1>10, <1>11, <1>12, <1>13, <1>14, <1>15, <1>17 DEF StorageInv

LEMMA DieScanPreserves ==
  ASSUME StorageInv, NEW d \in Documents, DieScan(d)
  PROVE  StorageInv'
<1>1. /\ UNCHANGED <<document, file, purging, stored, sweep>>
      /\ DOMAIN scanning' = Documents /\ scanning'[d] = <<>>
      /\ \A e \in Documents : e # d => scanning'[e] = scanning[e]
  BY DEF DieScan, rows, StorageInv, Shaped
<1>2. Shaped' /\ CleanIsKept' /\ AvailableIsClean' /\ PurgesAreCancelled'
  BY <1>1 DEF StorageInv, Shaped, CleanIsKept, AvailableIsClean, PurgesAreCancelled
<1>3. FreshCaptures' /\ OrphansAreYoung'
  BY <1>1 DEF StorageInv, FreshCaptures, NewFile, OrphansAreYoung, HasRow
<1>4. ScansAreCurrent'
  <2> SUFFICES ASSUME NEW e \in Documents, ~Idle(e)'
               PROVE  /\ document'[e].status \in {"QUARANTINED", "REJECTED"}
                      /\ scanning'[e] \in [Unscanned(e)' -> Verdicts]
                      /\ \A i \in Unscanned(e)' :
                             scanning'[e][i] # "INFECTED" => stored'[<<e, i>>] # "NO"
    BY DEF ScansAreCurrent
  <2>1. e # d /\ ~Idle(e) /\ Unscanned(e)' = Unscanned(e)
    BY <1>1 DEF Idle, Unscanned
  <2> QED BY <1>1, <2>1 DEF StorageInv, ScansAreCurrent
<1> QED BY <1>2, <1>3, <1>4 DEF StorageInv

\* A scan that fails has deleted bytes of files without a verdict.
LEMMA FailScanPreserves ==
  ASSUME StorageInv, NEW a \in Managers, NEW d \in Documents, FailScan(a, d)
  PROVE  StorageInv'
<1>1. /\ Idle(d) /\ document[d].status \in {"QUARANTINED", "REJECTED"}
      /\ UNCHANGED <<document, file, scanning, purging, sweep>>
  BY DEF FailScan, Scannable, rows
<1>2. PICK infected \in SUBSET Unscanned(d) : Delete({d} \X infected)
  BY DEF FailScan
<1> DEFINE objects == {d} \X infected
<1>3. \A e \in Documents, i \in Files :
          <<e, i>> \in objects => e = d /\ file[d][i].scan # "CLEAN"
  BY <1>2 DEF Unscanned
<1>4. Delete(objects)
  BY <1>2
<1> HIDE DEF objects
<1>5. /\ Shaped' /\ FreshCaptures' /\ CleanIsKept' /\ AvailableIsClean' /\ ScansAreCurrent'
      /\ \A o \in Objects : stored'[o] = stored[o] \/ stored'[o] = "NO"
  BY <1>1, <1>3, <1>4, DeletePreserves
<1>6. PurgesAreCancelled'
  BY <1>1 DEF StorageInv, PurgesAreCancelled
<1>7. OrphansAreYoung'
  <2>1. \A o \in Objects :
            (HasRow(o)' => HasRow(o)) /\ (stored'[o] = "OLD" => stored[o] = "OLD")
    BY <1>1, <1>5 DEF HasRow
  <2> QED BY <1>1, <2>1, OrphansPreserved
<1> QED BY <1>5, <1>6, <1>7 DEF StorageInv

LEMMA PurgeBytesPreserves ==
  ASSUME StorageInv, NEW d \in Documents, NEW i \in Files, PurgeBytes(d, i)
  PROVE  StorageInv'
<1>1. /\ UNCHANGED <<document, file, scanning, sweep>>
      /\ purging' = [listed |-> purging.listed \ {<<d, i>>}, taken |-> {<<d, i>>}]
      /\ Delete({<<d, i>>}) /\ document[d].status = "CANCELLED"
  BY DEF PurgeBytes, StorageInv, PurgesAreCancelled, rows
<1>2. Idle(d)
  BY <1>1 DEF StorageInv, ScansAreCurrent
<1>3. ASSUME NEW e \in Documents, NEW j \in Files, <<e, j>> \in {<<d, i>>}
      PROVE  /\ document[e].status # "CAPTURING"
             /\ ~(document[e].status \in Captured /\ file[e][j].scan = "CLEAN")
             /\ ~Idle(e) /\ j \in Unscanned(e) => scanning[e][j] = "INFECTED"
  BY <1>1, <1>2, <1>3 DEF Captured
<1>4. /\ Shaped' /\ FreshCaptures' /\ CleanIsKept' /\ AvailableIsClean' /\ ScansAreCurrent'
      /\ \A o \in Objects : stored'[o] = stored[o] \/ stored'[o] = "NO"
  <2> DEFINE objects == {<<d, i>>}
  <2>1. Delete(objects)
    BY <1>1
  <2>2. \A e \in Documents, j \in Files : <<e, j>> \in objects =>
             /\ document[e].status # "CAPTURING"
             /\ ~(document[e].status \in Captured /\ file[e][j].scan = "CLEAN")
             /\ ~Idle(e) /\ j \in Unscanned(e) => scanning[e][j] = "INFECTED"
    BY <1>3
  <2> HIDE DEF objects
  <2> QED BY <1>1, <2>1, <2>2, DeletePreserves
<1>5. PurgesAreCancelled'
  BY <1>1 DEF StorageInv, PurgesAreCancelled
<1>6. OrphansAreYoung'
  <2>1. ASSUME NEW o \in Objects
        PROVE  /\ HasRow(o)' => HasRow(o)
               /\ stored'[o] = "OLD" => stored[o] = "OLD"
    BY <1>1, <1>4 DEF HasRow
  <2> QED BY <1>1, <2>1, OrphansPreserved
<1> QED BY <1>4, <1>5, <1>6 DEF StorageInv

LEMMA SavePurgePreserves ==
  ASSUME StorageInv, SavePurge
  PROVE  StorageInv'
<1>1. PICK d \in Documents, i \in Files :
          /\ <<d, i>> \in purging.taken
          /\ file' = [file EXCEPT ![d][i] = [scan |-> file[d][i].scan, purged |-> TRUE]]
  BY DEF SavePurge
<1>2. /\ UNCHANGED <<document, scanning, stored, sweep>>
      /\ purging' = [listed |-> purging.listed, taken |-> {}]
  BY DEF SavePurge
<1>3. document[d].status = "CANCELLED" /\ Idle(d)
  BY <1>1 DEF StorageInv, PurgesAreCancelled, ScansAreCurrent
<1>4. /\ file' \in [Documents -> [Files -> FileRow]]
      /\ \A e \in Documents : e # d => file'[e] = file[e]
      /\ \A j \in Files : file'[d][j].purged = FALSE => file[d][j].purged = FALSE
  <2> DEFINE row == [scan |-> file[d][i].scan, purged |-> TRUE]
  <2>1. file[d][i] \in FileRow /\ file \in [Documents -> [Files -> FileRow]]
    BY DEF StorageInv, Shaped
  <2>2. row \in FileRow /\ row.purged
    BY <2>1 DEF FileRow
  <2>3. file' = [file EXCEPT ![d][i] = row]
    BY <1>1
  <2> HIDE DEF row
  <2>4. /\ file' = [file EXCEPT ![d] = [file[d] EXCEPT ![i] = row]]
        /\ file[d] \in [Files -> FileRow]
    BY <2>1, <2>3
  <2>5. [file[d] EXCEPT ![i] = row] \in [Files -> FileRow]
    BY <2>2, <2>4
  <2>6. file' \in [Documents -> [Files -> FileRow]]
    BY <2>1, <2>4, <2>5
  <2>7. /\ \A e \in Documents : e # d => file'[e] = file[e]
        /\ \A j \in Files : file'[d][j] = IF j = i THEN row ELSE file[d][j]
    BY <2>1, <2>4
  <2> QED BY <2>2, <2>6, <2>7
<1>5. Shaped'
  BY <1>2, <1>4 DEF StorageInv, Shaped
<1>6. FreshCaptures'
  <2>1. ASSUME NEW e \in Documents, NEW j \in Files
        PROVE  /\ document'[e].status \in {"ABSENT", "CAPTURING"} => file'[e][j] = NewFile
               /\ document'[e].status = "CAPTURING" => stored'[<<e, j>>] = "NEW"
    BY <1>2, <1>3, <1>4 DEF StorageInv, FreshCaptures
  <2> QED BY <2>1 DEF FreshCaptures, NewFile
<1>7. CleanIsKept' /\ AvailableIsClean'
  <2>1. ASSUME NEW e \in Documents, NEW j \in Files,
               document'[e].status \in Captured \cup {"AVAILABLE"}
        PROVE  file'[e] = file[e]
    BY <1>2, <1>3, <1>4, <2>1 DEF Captured
  <2>2. CleanIsKept'
    BY <1>2, <2>1 DEF StorageInv, CleanIsKept, Captured
  <2>3. AvailableIsClean'
    BY <1>2, <2>1 DEF StorageInv, AvailableIsClean
  <2> QED BY <2>2, <2>3
<1>8. ScansAreCurrent'
  <2> SUFFICES ASSUME NEW e \in Documents, ~Idle(e)'
               PROVE  /\ document'[e].status \in {"QUARANTINED", "REJECTED"}
                      /\ scanning'[e] \in [Unscanned(e)' -> Verdicts]
                      /\ \A j \in Unscanned(e)' :
                             scanning'[e][j] # "INFECTED" => stored'[<<e, j>>] # "NO"
    BY DEF ScansAreCurrent
  <2>1. e # d /\ ~Idle(e)
    BY <1>2, <1>3 DEF Idle
  <2>2. Unscanned(e)' = Unscanned(e)
    BY <1>4, <2>1 DEF Unscanned
  <2> QED BY <1>2, <2>1, <2>2 DEF StorageInv, ScansAreCurrent
<1>9. PurgesAreCancelled'
  BY <1>2 DEF StorageInv, PurgesAreCancelled
<1>10. ASSUME NEW o \in Objects PROVE HasRow(o)' => HasRow(o)
  <2>1. PICK e \in Documents, j \in Files : o = <<e, j>>
    BY DEF Objects
  <2>2. file'[e][j].purged \in BOOLEAN /\ file[e][j].purged \in BOOLEAN
    BY <1>4 DEF StorageInv, Shaped, FileRow
  <2> QED BY <1>2, <1>4, <2>1, <2>2, ObjectParts DEF HasRow
<1>11. OrphansAreYoung'
  BY <1>2, <1>10, OrphansPreserved
<1> QED BY <1>5, <1>6, <1>7, <1>8, <1>9, <1>11 DEF StorageInv

\* A reconciliation that only reads changes what it will delete.
LEMMA SweepReadsPreserves ==
  ASSUME StorageInv, SweepReadsRows \/ SweepListsObjects
  PROVE  StorageInv'
<1>1. UNCHANGED <<document, file, scanning, purging, stored>>
  BY DEF SweepReadsRows, SweepListsObjects, rows
<1>2. Shaped' /\ CleanIsKept' /\ AvailableIsClean' /\ PurgesAreCancelled'
  BY <1>1 DEF StorageInv, Shaped, CleanIsKept, AvailableIsClean, PurgesAreCancelled
<1>3. FreshCaptures' /\ ScansAreCurrent'
  BY <1>1 DEF StorageInv, FreshCaptures, NewFile, ScansAreCurrent, Unscanned, Idle
<1>4. OrphansAreYoung'
  <2>1. \A o \in Objects : HasRow(o)' = HasRow(o)
    BY <1>1 DEF HasRow
  <2>2. CASE SweepReadsRows
    <3>1. sweep'.step = "READ" /\ \A o \in Objects : HasRow(o) => o \in sweep'.names
      BY <2>2 DEF SweepReadsRows
    <3> QED BY <1>1, <2>1, <3>1 DEF OrphansAreYoung
  <2>3. CASE SweepListsObjects
    <3>1. /\ sweep.step = "READ" /\ sweep'.step = "LISTED"
          /\ \A o \in sweep'.names : o \notin sweep.names
      BY <2>3 DEF SweepListsObjects
    <3> QED BY <1>1, <2>1, <3>1 DEF StorageInv, OrphansAreYoung
  <2> QED BY <2>2, <2>3
<1> QED BY <1>2, <1>3, <1>4 DEF StorageInv

LEMMA SweepDeletesPreserves ==
  ASSUME StorageInv, SweepDeletesOrphans
  PROVE  StorageInv'
<1> DEFINE objects == {o \in sweep.names : Past(o)}
<1>1. /\ UNCHANGED <<document, file, scanning, purging>> /\ Delete(objects)
      /\ sweep.step = "LISTED" /\ sweep' = [step |-> "IDLE", names |-> {}]
  BY DEF SweepDeletesOrphans, rows
<1>2. ASSUME NEW d \in Documents, NEW i \in Files, <<d, i>> \in objects
      PROVE  /\ document[d].status # "CAPTURING"
             /\ ~(document[d].status \in Captured /\ file[d][i].scan = "CLEAN")
             /\ ~Idle(d) /\ i \in Unscanned(d) => scanning[d][i] = "INFECTED"
  <2>1. stored[<<d, i>>] = "OLD" /\ <<d, i>> \in sweep.names
    BY <1>2 DEF Past
  <2>2. ~HasRow(<<d, i>>)
    BY <1>1, <2>1, ObjectParts DEF StorageInv, OrphansAreYoung
  <2>3. document[d].status \notin Captured \/ file[d][i].purged
    BY <2>2, ObjectParts DEF HasRow
  <2>4. document[d].status # "CAPTURING"
    BY <2>1 DEF StorageInv, FreshCaptures
  <2>5. ~(document[d].status \in Captured /\ file[d][i].scan = "CLEAN")
    BY <2>3 DEF StorageInv, CleanIsKept
  <2>6. ~Idle(d) => document[d].status \in Captured
    BY DEF StorageInv, ScansAreCurrent, Captured
  <2>7. ~Idle(d) => i \notin Unscanned(d)
    BY <2>3, <2>6 DEF Unscanned
  <2> QED BY <2>4, <2>5, <2>7
<1>3. \A d \in Documents, i \in Files : <<d, i>> \in objects =>
             /\ document[d].status # "CAPTURING"
             /\ ~(document[d].status \in Captured /\ file[d][i].scan = "CLEAN")
             /\ ~Idle(d) /\ i \in Unscanned(d) => scanning[d][i] = "INFECTED"
  BY <1>2
<1> HIDE DEF objects
<1>4. Shaped' /\ FreshCaptures' /\ CleanIsKept' /\ AvailableIsClean' /\ ScansAreCurrent'
  BY <1>1, <1>3, DeletePreserves
<1>5. PurgesAreCancelled'
  BY <1>1 DEF StorageInv, PurgesAreCancelled
<1>6. OrphansAreYoung'
  BY <1>1 DEF OrphansAreYoung
<1> QED BY <1>4, <1>5, <1>6 DEF StorageInv

LEMMA GrowOldPreserves ==
  ASSUME StorageInv, NEW o \in Objects, GrowOld(o)
  PROVE  StorageInv'
<1>1. PICK c \in Documents, k \in Files : o = <<c, k>>
  BY DEF Objects
<1>2. /\ UNCHANGED <<document, file, scanning, purging, sweep>>
      /\ document[c].status # "CAPTURING" /\ sweep.step = "IDLE"
      /\ DOMAIN stored' = Objects
      /\ \A p \in Objects : stored'[p] = IF p = o THEN "OLD" ELSE stored[p]
  BY <1>1, ObjectParts DEF GrowOld, rows, StorageInv, Shaped
<1>3. \A d \in Documents, i \in Files :
          /\ stored[<<d, i>>] # "NO" => stored'[<<d, i>>] # "NO"
          /\ d # c => stored'[<<d, i>>] = stored[<<d, i>>]
  BY <1>1, <1>2, ObjectParts
<1>4. Shaped' /\ CleanIsKept' /\ AvailableIsClean' /\ PurgesAreCancelled'
  BY <1>2, <1>3 DEF StorageInv, Shaped, CleanIsKept, AvailableIsClean, PurgesAreCancelled
<1>5. FreshCaptures'
  <2>1. ASSUME NEW d \in Documents, NEW i \in Files
        PROVE  /\ document'[d].status \in {"ABSENT", "CAPTURING"} => file'[d][i] = NewFile
               /\ document'[d].status = "CAPTURING" => stored'[<<d, i>>] = "NEW"
    BY <1>2, <1>3 DEF StorageInv, FreshCaptures
  <2> QED BY <2>1 DEF FreshCaptures, NewFile
<1>6. ScansAreCurrent'
  <2> SUFFICES ASSUME NEW d \in Documents, ~Idle(d)'
               PROVE  /\ document'[d].status \in {"QUARANTINED", "REJECTED"}
                      /\ scanning'[d] \in [Unscanned(d)' -> Verdicts]
                      /\ \A i \in Unscanned(d)' :
                             scanning'[d][i] # "INFECTED" => stored'[<<d, i>>] # "NO"
    BY DEF ScansAreCurrent
  <2>1. ~Idle(d) /\ Unscanned(d)' = Unscanned(d) /\ Unscanned(d) \subseteq Files
    BY <1>2 DEF Idle, Unscanned
  <2>2. /\ document[d].status \in {"QUARANTINED", "REJECTED"}
        /\ scanning[d] \in [Unscanned(d) -> Verdicts]
        /\ \A i \in Unscanned(d) : scanning[d][i] # "INFECTED" => stored[<<d, i>>] # "NO"
    BY <2>1 DEF StorageInv, ScansAreCurrent
  <2> QED BY <1>2, <1>3, <2>1, <2>2
<1>7. OrphansAreYoung'
  BY <1>2 DEF OrphansAreYoung
<1> QED BY <1>4, <1>5, <1>6, <1>7 DEF StorageInv

\* Attempts, inventory, and a purge that lists or dies are no part of the invariant.
LEMMA SameStoragePreserves ==
  ASSUME StorageInv, UNCHANGED <<document, file, scanning, stored, sweep>>,
         \A d \in Documents, i \in Files :
             <<d, i>> \in (purging.listed \cup purging.taken)'
                 => <<d, i>> \in purging.listed \cup purging.taken \/ Expired(d)
  PROVE  StorageInv'
<1>1. Shaped' /\ CleanIsKept' /\ AvailableIsClean' /\ PurgesAreCancelled'
  BY DEF StorageInv, Shaped, CleanIsKept, AvailableIsClean, PurgesAreCancelled, Expired
<1>2. FreshCaptures' /\ ScansAreCurrent' /\ OrphansAreYoung'
  BY DEF StorageInv, FreshCaptures, NewFile, ScansAreCurrent, Unscanned, Idle,
         OrphansAreYoung, HasRow
<1> QED BY <1>1, <1>2 DEF StorageInv

LEMMA StorageInvStep == StorageInv /\ [Next]_vars => StorageInv'
<1> SUFFICES ASSUME StorageInv, [Next]_vars PROVE StorageInv'
  OBVIOUS
<1>1. ASSUME NEW a \in Managers, NEW d \in Documents, NEW source \in Sources,
             BeginCapture(a, d, source)
      PROVE  StorageInv'
  BY <1>1, BeginCapturePreserves
<1>2. ASSUME NEW a \in Managers, NEW d \in Documents, BeginScan(a, d) PROVE StorageInv'
  BY <1>2, BeginScanPreserves
<1>3. ASSUME NEW a \in Managers, NEW d \in Documents, CancelDocument(a, d) PROVE StorageInv'
  BY <1>3, LeavePreserves
<1>4. ASSUME NEW a \in Managers, NEW d \in Documents, NEW n \in Numbers,
             \/ SaveTranscription(a, d, n) \/ Submit(a, d, n) \/ ReturnToDraft(a, d, n)
             \/ Confirm(a, d, n) \/ CancelTranscription(a, d, n) \/ StartReplacement(a, d, n)
      PROVE  StorageInv'
  <2>1. UNCHANGED <<document, file, storage>>
    BY <1>4 DEF SaveTranscription, Submit, ReturnToDraft, Confirm, CancelTranscription,
                StartReplacement
  <2> QED BY <2>1, SameStoragePreserves DEF storage
<1>5. ASSUME NEW a \in Managers, NEW d \in Documents, NEW n \in Numbers,
             PostOpeningStock(a, d, n) \/ PostTarget(a, d, n) \/ CancelTarget(a, d, n)
      PROVE  StorageInv'
  <2>1. UNCHANGED <<document, file, storage>>
    BY <1>5 DEF PostOpeningStock, PostTarget, CancelTarget, SetTarget, rows
  <2> QED BY <2>1, SameStoragePreserves DEF storage
<1>6. ASSUME NEW d \in Documents, CommitCapture(d) PROVE StorageInv'
  BY <1>6, CommitCaptureStores
<1>7. ASSUME NEW d \in Documents, FailCapture(d) \/ Expire(d) PROVE StorageInv'
  BY <1>7, LeavePreserves
<1>8. ASSUME NEW d \in Documents, CommitScan(d) PROVE StorageInv'
  BY <1>8, CommitScanPreserves
<1>9. ASSUME NEW d \in Documents, DieScan(d) PROVE StorageInv'
  BY <1>9, DieScanPreserves
<1>10. ASSUME NEW d \in Documents, NEW i \in Files, PurgeBytes(d, i) PROVE StorageInv'
  BY <1>10, PurgeBytesPreserves
<1>11. ASSUME NEW v \in Variants, MoveStock(v) PROVE StorageInv'
  BY <1>11, SameStoragePreserves DEF MoveStock, rows, storage
<1>12. CASE SavePurge
  BY <1>12, SavePurgePreserves
<1>13. CASE ListPurge \/ DiePurge
  <2>1. \A d \in Documents, i \in Files :
            <<d, i>> \in (purging.listed \cup purging.taken)' => Expired(d)
    BY <1>13, ObjectParts DEF ListPurge, DiePurge, NoPurge, Purgeable
  <2>2. UNCHANGED <<document, file, scanning, stored, sweep>>
    BY <1>13 DEF ListPurge, DiePurge, rows
  <2> QED BY <2>1, <2>2, SameStoragePreserves
<1>14. CASE SweepReadsRows \/ SweepListsObjects
  BY <1>14, SweepReadsPreserves
<1>15. CASE SweepDeletesOrphans
  BY <1>15, SweepDeletesPreserves
<1>16. ASSUME NEW o \in Objects, GrowOld(o) PROVE StorageInv'
  BY <1>16, GrowOldPreserves
<1>17. CASE UNCHANGED vars
  BY <1>17, SameStoragePreserves DEF vars, rows, storage
<1>18. ASSUME NEW a \in Managers, NEW d \in Documents, FailScan(a, d) PROVE StorageInv'
  BY <1>18, FailScanPreserves
<1> QED
  BY <1>1, <1>2, <1>3, <1>4, <1>5, <1>6, <1>7, <1>8, <1>9, <1>10, <1>11, <1>12, <1>13, <1>14,
     <1>15, <1>16, <1>17, <1>18 DEF Next

\* Captures, scans, purges and the reconciliation command, each free to die between the
\* database and the storage: an available document has every file, clean, with its bytes.
THEOREM AvailableStaysWhole == Spec => []AvailableIsWhole
<1>1. Init => StorageInv
  BY StorageInvInit
<1>2. StorageInv /\ [Next]_vars => StorageInv'
  BY StorageInvStep
<1>3. StorageInv => AvailableIsWhole
  <2> SUFFICES ASSUME StorageInv, NEW d \in Documents, document[d].status = "AVAILABLE",
                      NEW o \in ObjectsOf(d)
               PROVE  Readable(o) /\ stored[o] # "NO"
    BY DEF AvailableIsWhole
  <2>1. PICK i \in Files : o = <<d, i>>
    BY DEF ObjectsOf
  <2>2. file[d][i].scan = "CLEAN" /\ document[d].status \in Captured
    BY DEF StorageInv, AvailableIsClean, Captured
  <2>3. ~file[d][i].purged /\ stored[<<d, i>>] # "NO"
    BY <2>2 DEF StorageInv, CleanIsKept
  <2> QED BY <2>1, <2>2, <2>3, ObjectParts DEF Readable
<1> QED BY <1>1, <1>2, <1>3, PTL DEF Spec

=============================================================================
