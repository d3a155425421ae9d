-------------------------- MODULE RcaReview_proofs --------------------------
(***************************************************************************)
(* Reviews of an RCA, for any number of incidents, reviewers and workers   *)
(* and every bound on the versions.                                        *)
(*                                                                         *)
(* A review session decides from what it has read and commits much later,  *)
(* so each property of the stored reports needs to know what the sessions  *)
(* in between still hold: SessionOK says that of one session, OneInserted  *)
(* that the unique key of (incident, version) is held by one at a time.    *)
(* Stored reports are numbered by their position (VersionIsPosition).      *)
(* Whatever a step does to the incidents table, StoreInv of the incident   *)
(* store goes on to hold.                                                  *)
(***************************************************************************)
EXTENDS IncidentViews, IncidentStore_proofs

(* The version has been inserted, and its unique key is held.              *)
Inserted(x) == x.add # 0 /\ x.pc # "insert"

(* The steps of each use case, and what a session carries at each.         *)
Proc(x) ==
  /\ x.pc = "idle" => x = NoReview
  /\ x.pc # "idle" => x.op # "none"
  /\ x.op = "accept" => x.pc \in {"reports", "report", "incident", "saving", "ready"}
  /\ x.op = "reject" => x.pc \in {"reports", "report", "progress", "load", "flush", "notify", "ready"}
  /\ x.op = "amend" => x.pc \in {"reports", "insert", "notify", "ready"}
  /\ x.op \in Controls => x.pc \in {"progress", "load", "flush", "ready"}
  /\ x.op = "investigate" => x.pc \in {"saving", "insert", "notify", "load", "flush", "ready"}
  /\ x.stored => x.pc \in {"notify", "ready"}
  /\ x.add # 0 => x.op \in {"amend", "investigate"}
                  /\ x.pc \in {"insert", "notify", "load", "flush", "ready"}
  /\ x.pc = "insert" => x.add # 0
  /\ x.set # "" => \/ x.op = "accept" /\ x.set = "accepted"
                   \/ x.op = "reject" /\ x.set = "rejected"
  /\ x.pc = "report" => x.set # ""
  /\ x.pc = "notify" => IF x.stored THEN x.save.reason # "" ELSE x.add # 0
  /\ x.op = "reject" /\ x.pc \in {"load", "flush", "notify"} => x.save.reason = "rca_rejected"
  /\ \/ x.pc \in {"load", "flush"} \/ x.stored
     \/ x.op = "investigate" /\ x.pc \in {"insert", "notify"}
     => x.save \in Progress

(* What a session has read or inserted, against what is stored now.        *)
ReportFacts(x) ==
  /\ x.add # 0 => x.add <= Len(reports[x.id]) + 1
  /\ Inserted(x) => x.add = Len(reports[x.id]) + 1
  /\ x.set # "" => x.pos \in 1 .. Len(reports[x.id])

NoteFacts(x) ==
  /\ Inserted(x) /\ ~(x.pc = "notify" /\ ~x.stored)
       => <<"rca_ready", x.add>> \in x.notes \cup notes[x.id]
  /\ x.op = "reject" /\ x.pc = "ready"
       => <<"escalation", "rca_rejected">> \in x.notes \cup notes[x.id]

ProgressFacts(x) ==
  /\ x.prog # NoRow => progress[x.id] # NoRow
  /\ x.base # NoRow => progress[x.id] # NoRow

SessionOK(x) == Proc(x) /\ ReportFacts(x) /\ NoteFacts(x) /\ ProgressFacts(x)

VersionIsPosition ==
  \A i \in Incidents : \A n \in 1 .. Len(reports[i]) : reports[i][n].version = n

OneInserted ==
  \A s, t \in Sessions :
    s # t /\ Inserted(rv[s]) /\ Inserted(rv[t]) => rv[s].id # rv[t].id

AllExist == \A i \in Incidents : Exists(i)

ReviewShapes ==
  /\ rv \in [Sessions -> Review]
  /\ reports \in [Incidents -> Seq(Report)]
  /\ progress \in [Incidents -> Progress \cup {NoRow}]
  /\ notes \in [Incidents -> SUBSET Note]
  /\ claims \subseteq Incidents

ReviewsOK ==
  /\ ReviewShapes
  /\ \A s \in Sessions : SessionOK(rv[s])
  /\ VersionIsPosition
  /\ OneInserted
  /\ ReviewIsAnnounced

ReviewInv == StoreInv /\ AllExist /\ ReviewsOK

---------------------------------------------------------------------------
(* The incidents table.                                                    *)

(* A commit never removes an incident.                                     *)
LEMMA RowsStayThere ==
  ASSUME StoreInv, AllExist, NEW s \in Sessions, Flushed(s), CommitRow(s)
  PROVE  AllExist'
<1>1. tx[s].id \in Incidents /\ tx[s].row.state # ABSENT
  BY DEF StoreInv, StoreTypeOK, Tx, FlushedRow
<1>2. \A i \in Incidents : rows'[i] = IF i = tx[s].id THEN tx[s].row ELSE rows[i]
  BY <1>1 DEF CommitRow, StoreInv, StoreTypeOK
<1> QED
  BY <1>1, <1>2 DEF AllExist, Exists

(* A request on the incident store removes none either.                    *)
LEMMA RequestKeepsRows ==
  ASSUME StoreInv, AllExist, NEW s \in ApiSessions, RequestStep(s) \/ PublishOpened(s)
  PROVE  AllExist'
<1>1. CASE Commit(s)
  BY <1>1, RowsStayThere DEF Commit, Sessions
<1>2. CASE rows' = rows
  BY <1>2 DEF AllExist, Exists
<1>3. Commit(s) \/ rows' = rows
  BY DEF RequestStep, PublishOpened, PostIncident, IngestFound, IngestNotFound, IngestInsert,
         FlushInsert, PatchState, Load, FlushUpdate, Rollback, LoseOpened
<1> QED
  BY <1>1, <1>2, <1>3

(* The UPDATE of an accept is one of the store's.                          *)
LEMMA AcceptKeepsStore ==
  ASSUME StoreInv, AllExist, NEW s \in Sessions, rv[s].id \in Incidents, AcceptIncident(s)
  PROVE  StoreInv'
<1>1. CASE rv[s].seen = INVESTIGATING
  <2> DEFINE r == [IdleTx EXCEPT !.pc = "read", !.id = rv[s].id, !.seen = INVESTIGATING,
                                 !.state = IDENTIFIED, !.steps = {<<INVESTIGATING, IDENTIFIED>>}]
  <2>1. <<INVESTIGATING, IDENTIFIED>> \in ALLOWED_TRANSITIONS /\ IDENTIFIED \in IncidentState
        /\ INVESTIGATING \in IncidentState
    BY DEF ALLOWED_TRANSITIONS, IncidentState
  <2>2. r \in Tx
    BY <2>1, IdleType, ZenonT(60) DEF Tx
  <2>3. /\ r.pc = "read" /\ r.id = rv[s].id /\ r.state = IDENTIFIED
        /\ r.steps = {<<INVESTIGATING, IDENTIFIED>>}
    BY IdleType DEF Tx
  <2>4. <<INVESTIGATING, IDENTIFIED>>[2] = IDENTIFIED
    OBVIOUS
  <2>5. tx' = [tx EXCEPT ![s] = r] /\ rows' = rows
        /\ published' \subseteq {j \in Incidents : Exists(j)}
    BY <1>1 DEF AcceptIncident, StoreInv, StoreTypeOK, PublishedIsCommitted
  <2>6. Exists(r.id)
    BY <2>3 DEF AllExist
  <2> HIDE DEF r
  <2> QED
    BY <2>2, <2>3, <2>4, <2>5, <2>6, LocalStep
<1>2. CASE rv[s].seen # INVESTIGATING
  BY <1>2, StoreStutter DEF AcceptIncident, storeVars
<1> QED
  BY <1>1, <1>2

(* A review's commit is a commit of the store, or leaves it alone.         *)
LEMMA CommitKeepsStore ==
  ASSUME StoreInv, AllExist, NEW s \in Sessions, CommitReview(s)
  PROVE  StoreInv' /\ AllExist'
<1>1. tx' = [tx EXCEPT ![s] = IdleTx] /\ published' = published
  BY DEF CommitReview
<1>2. CASE Flushed(s)
  <2>1. CommitRow(s)
    BY <1>2 DEF CommitReview
  <2> QED
    BY <1>1, <1>2, <2>1, IdleType, CommitStep, RowsStayThere
<1>3. CASE ~Flushed(s)
  <2>1. rows' = rows /\ published' \subseteq {j \in Incidents : Exists(j)}
    BY <1>1, <1>3 DEF CommitReview, StoreInv, StoreTypeOK, PublishedIsCommitted
  <2> QED
    BY <1>1, <2>1, ToIdleInv DEF AllExist, Exists
<1> QED
  BY <1>2, <1>3

(* The store's invariant outlives the reviews and the investigation.       *)
LEMMA StoreStays ==
  ASSUME StoreInv, AllExist, ReviewShapes, [Next]_vars
  PROVE  StoreInv' /\ AllExist'
<1>0. rows' = rows => AllExist'
  BY DEF AllExist, Exists
<1>00. published \subseteq {j \in Incidents : Exists(j)}
  BY DEF StoreInv, StoreTypeOK, PublishedIsCommitted
<1>1. ASSUME NEW s \in ApiSessions, StoreStep(s) PROVE StoreInv' /\ AllExist'
  BY <1>1, RequestInv, RequestKeepsRows DEF StoreStep
<1>2. CASE UNCHANGED storeVars
  BY <1>0, <1>2, StoreStutter DEF storeVars
<1>3. ASSUME NEW w \in Workers, NEW i \in Incidents, StartInvestigation(w, i)
      PROVE  StoreInv' /\ AllExist'
  BY <1>0, <1>3, ReadForTransitionInv, StatesAreDistinct DEF StartInvestigation, Sessions
<1>4. ASSUME NEW s \in Sessions, AcceptIncident(s) PROVE StoreInv' /\ AllExist'
  <2>1. rv[s].id \in Incidents
    BY DEF ReviewShapes, Review
  <2> QED
    BY <1>0, <1>4, <2>1, AcceptKeepsStore DEF AcceptIncident
<1>5. ASSUME NEW s \in Sessions, SaveIncident(s) PROVE StoreInv' /\ AllExist'
  BY <1>0, <1>5, LoadInv, FlushUpdateInv DEF SaveIncident, Load, FlushUpdate
<1>6. ASSUME NEW s \in Sessions, RollbackReview(s) PROVE StoreInv' /\ AllExist'
  BY <1>0, <1>00, <1>6, ToIdleInv DEF RollbackReview
<1>7. ASSUME NEW s \in Sessions,
             \/ ReadReports(s) \/ ReadProgress(s) \/ SaveReport(s) \/ InsertReport(s)
             \/ LoadProgress(s) \/ FlushProgress(s) \/ Notify(s)
             \/ \E i \in Incidents, op \in Requests : ReadIncident(s, i, op)
             \/ \E o \in Outcomes : InvestigationEnds(s, o)
      PROVE  UNCHANGED storeVars
  BY <1>7 DEF ReadReports, ReadProgress, SaveReport, InsertReport, LoadProgress, FlushProgress,
              Notify, ReadIncident, InvestigationEnds, storeVars
<1>8. CASE UNCHANGED vars
  BY <1>2, <1>8 DEF vars, storeVars
<1> QED
  BY <1>1, <1>2, <1>3, <1>4, <1>5, <1>6, <1>7, <1>8, CommitKeepsStore
     DEF Next, WorkStep, ReviewStep, Sessions

---------------------------------------------------------------------------
(* Sessions.                                                               *)

(* What an idle session holds.                                             *)
LEMMA NoReviewFields ==
  /\ NoReview.op = "none" /\ NoReview.pc = "idle" /\ NoReview.add = 0 /\ NoReview.set = ""
  /\ NoReview.pos = 0 /\ NoReview.stored = FALSE /\ NoReview.notes = {}
  /\ NoReview.prog = NoRow /\ NoReview.base = NoRow /\ NoReview.save = NoRow
  /\ NoReview.seen = OPEN /\ NoReview.id = IdleTx.id
BY DEF NoReview

(* An idle session has the type of a review.                               *)
LEMMA NoReviewType == NoReview \in Review
<1>1. IdleTx.id \in Incidents /\ OPEN \in IncidentState /\ 0 \in 0 .. MaxVersion
      /\ NoRow \in Progress \cup {NoRow} /\ {} \in SUBSET Note
  BY IdleType, StatesAreDistinct, VersionAssumption DEF Tx
<1> QED
  BY <1>1, SMT DEF NoReview, Review

(* An idle session holds nothing that could be stale.                      *)
LEMMA NoReviewOK == SessionOK(NoReview)
<1>1. Proc(NoReview)
  BY NoReviewFields, NoReviewType DEF Proc, Controls
<1> QED
  BY <1>1, NoReviewFields, NoReviewType DEF SessionOK, ReportFacts, NoteFacts, ProgressFacts, Inserted

(* The value for a missing progress row is no progress.                    *)
LEMMA NoRowIsNone == NoRow \notin Progress /\ NoRow.reason = "" /\ NoRow.status = "no_row"
BY DEF NoRow, ProgressRow, Progress, RunStatus

(* Progress rows and their fields.                                         *)
LEMMA ProgressRowType ==
  ASSUME NEW a \in RunStatus, NEW b \in Reasons \cup {""}, NEW c \in BOOLEAN
  PROVE  /\ ProgressRow(a, b, c) \in Progress
         /\ ProgressRow(a, b, c).status = a /\ ProgressRow(a, b, c).reason = b
         /\ ProgressRow(a, b, c).paused = c
BY DEF ProgressRow, Progress

(* A session's step that commits nothing.                                  *)
LEMMA SessionMoves ==
  ASSUME ReviewsOK, NEW s \in Sessions, NEW new \in Review, SessionOK(new),
         rv' = [rv EXCEPT ![s] = new], UNCHANGED <<reports, progress, notes, claims>>,
         Inserted(new) => \A t \in Sessions \ {s} : Inserted(rv[t]) => rv[t].id # new.id
  PROVE  ReviewsOK'
<1>1. \A t \in Sessions : rv'[t] = IF t = s THEN new ELSE rv[t]
  BY DEF ReviewsOK, ReviewShapes
<1>2. ReviewShapes'
  BY DEF ReviewsOK, ReviewShapes
<1>3. \A t \in Sessions : SessionOK(rv'[t])
  BY <1>1 DEF ReviewsOK
<1>4. (\A t \in Sessions : SessionOK(rv[t]))'
  BY <1>3 DEF SessionOK, ReportFacts, NoteFacts, ProgressFacts
<1>5. OneInserted'
  BY <1>1 DEF ReviewsOK, OneInserted, Inserted
<1>6. VersionIsPosition' /\ ReviewIsAnnounced'
  BY DEF ReviewsOK, VersionIsPosition, ReviewIsAnnounced
<1> QED
  BY <1>2, <1>4, <1>5, <1>6 DEF ReviewsOK

(* One that stays as inserted as it was, in the same incident.             *)
LEMMA SessionMovesOn ==
  ASSUME ReviewsOK, NEW s \in Sessions, NEW new \in Review, SessionOK(new),
         rv' = [rv EXCEPT ![s] = new], UNCHANGED <<reports, progress, notes, claims>>,
         Inserted(new) => Inserted(rv[s]) /\ new.id = rv[s].id
  PROVE  ReviewsOK'
<1>1. Inserted(new) => \A t \in Sessions \ {s} : Inserted(rv[t]) => rv[t].id # new.id
  BY DEF ReviewsOK, OneInserted
<1> QED
  BY <1>1, SessionMoves

(* A session that rolls back.                                              *)
LEMMA SessionEnds ==
  ASSUME ReviewsOK, NEW s \in Sessions, rv' = [rv EXCEPT ![s] = NoReview],
         UNCHANGED <<reports, progress, notes, claims>>
  PROVE  ReviewsOK'
BY NoReviewType, NoReviewOK, NoReviewFields, SessionMovesOn DEF Inserted

(* What the invariant says of one session.                                 *)
LEMMA SessionFacts ==
  ASSUME ReviewsOK, NEW s \in Sessions
  PROVE  /\ rv[s] \in Review /\ rv[s].id \in Incidents /\ rv \in [Sessions -> Review]
         /\ SessionOK(rv[s]) /\ Proc(rv[s])
         /\ ReportFacts(rv[s]) /\ NoteFacts(rv[s]) /\ ProgressFacts(rv[s])
         /\ reports[rv[s].id] \in Seq(Report) /\ Len(reports[rv[s].id]) \in Nat
<1>1. rv[s] \in Review /\ rv \in [Sessions -> Review] /\ SessionOK(rv[s])
  BY DEF ReviewsOK, ReviewShapes
<1>2. rv[s].id \in Incidents
  BY <1>1 DEF Review
<1>3. reports[rv[s].id] \in Seq(Report)
  BY <1>2 DEF ReviewsOK, ReviewShapes
<1>4. Len(reports[rv[s].id]) \in Nat
  BY <1>3
<1> QED
  BY <1>1, <1>2, <1>3, <1>4 DEF SessionOK

(* Reports are numbered by their position, so the latest is the last.      *)
LEMMA LatestIsLast ==
  ASSUME ReviewsOK, NEW i \in Incidents, reports[i] # <<>>
  PROVE  /\ Latest(i) = Len(reports[i]) /\ Latest(i) \in 1 .. Len(reports[i])
         /\ reports[i][Latest(i)] \in Report
         /\ reports[i][Latest(i)].version = Len(reports[i])
<1> DEFINE q == reports[i]
           Best(n) == \A m \in DOMAIN q : q[m].version <= q[n].version
<1>1. q \in Seq(Report) /\ Len(q) \in Nat /\ DOMAIN q = 1 .. Len(q) /\ Len(q) # 0
  BY DEF ReviewsOK, ReviewShapes
<1>2. \A n \in DOMAIN q : q[n].version = n
  BY <1>1 DEF ReviewsOK, VersionIsPosition
<1>3. Len(q) \in DOMAIN q /\ Best(Len(q))
  BY <1>1, <1>2
<1>4. \A n \in DOMAIN q : Best(n) => n = Len(q)
  BY <1>1, <1>2, <1>3
<1>5. Latest(i) = CHOOSE n \in DOMAIN q : Best(n)
  BY DEF Latest
<1> HIDE DEF Best
<1>6. Latest(i) = Len(q)
  BY <1>3, <1>4, <1>5
<1> QED
  BY <1>1, <1>2, <1>3, <1>6

---------------------------------------------------------------------------
(* A request begins by reading its incident.                               *)
LEMMA ReadIncidentStep ==
  ASSUME ReviewsOK, AllExist, StoreInv, NEW s \in Sessions, NEW i \in Incidents,
         NEW op \in Requests, ReadIncident(s, i, op)
  PROVE  ReviewsOK'
<1> DEFINE pc == IF op \in Controls THEN "progress" ELSE "reports"
           seen == IF op = "accept" THEN rows[i].state ELSE OPEN
           new == [NoReview EXCEPT !.op = op, !.pc = pc, !.id = i, !.seen = seen]
<1>1. rv' = [rv EXCEPT ![s] = new] /\ UNCHANGED <<reports, progress, notes, claims>>
  BY DEF ReadIncident
<1>2. seen \in IncidentState /\ pc \in {"progress", "reports"} /\ op \in Reviews \cup Controls
  BY RequestsAssumption, StatesAreDistinct
     DEF AllExist, Exists, StoreInv, StoreTypeOK, Row
<1>3. op \in Reviews \cup Controls \cup {"none", "investigate"}
      /\ pc \in {"idle", "reports", "report", "incident", "saving", "insert",
                 "progress", "load", "flush", "notify", "ready"}
  BY <1>2
<1>4. (op \in Controls => pc = "progress") /\ (op \notin Controls => pc = "reports")
  OBVIOUS
<1> HIDE DEF pc, seen
<1>5. new \in Review
  BY <1>2, <1>3, NoReviewType, ZenonT(60) DEF Review
<1>6. /\ new.op = op /\ new.pc = pc /\ new.add = 0 /\ new.set = "" /\ new.stored = FALSE
      /\ new.prog = NoRow /\ new.base = NoRow
  BY NoReviewFields, NoReviewType DEF Review
<1> HIDE DEF new
<1>7. SessionOK(new)
  BY <1>2, <1>4, <1>6 DEF SessionOK, Proc, ReportFacts, NoteFacts, ProgressFacts, Inserted,
                         Reviews, Controls
<1> QED
  BY <1>1, <1>5, <1>6, <1>7, SessionMovesOn DEF Inserted

(* The reports are read, and the decision is made on the latest.           *)
LEMMA ReadReportsStep ==
  ASSUME ReviewsOK, NEW s \in Sessions, ReadReports(s)
  PROVE  ReviewsOK'
<1> DEFINE x == rv[s]
           q == reports[x.id]
           n == Latest(x.id)
           target == IF x.op = "accept" THEN "accepted" ELSE "rejected"
           after == IF x.op = "accept" THEN "incident" ELSE "progress"
<1>1. /\ x \in Review /\ x.id \in Incidents /\ rv \in [Sessions -> Review] /\ Proc(x)
      /\ NoteFacts(x) /\ ProgressFacts(x) /\ ReportFacts(x) /\ Len(q) \in Nat
  BY SessionFacts
<1>2. x.pc = "reports" /\ q # <<>> /\ Decided(s, n, q[n])
      /\ UNCHANGED <<reports, progress, notes, claims>>
  BY DEF ReadReports
<1>3. x.add = 0 /\ x.op \in {"accept", "reject", "amend"}
      /\ ~x.stored
  BY <1>1, <1>2 DEF Proc, Review, Reviews, Controls
<1>4. n \in 1 .. Len(q) /\ q[n] \in Report /\ q[n].version = Len(q)
  BY <1>1, <1>2, LatestIsLast
<1>5. CASE x.op = "amend"
  <2> DEFINE new == [x EXCEPT !.pc = "insert", !.add = q[n].version + 1]
  <2>1. rv' = [rv EXCEPT ![s] = new] /\ q[n].version < MaxVersion
    BY <1>1, <1>2, <1>5 DEF Decided
  <2>2. q[n].version + 1 \in 0 .. MaxVersion
    BY <1>4, <2>1, VersionAssumption DEF Report
  <2>3. new \in Review
    BY <1>1, <2>2, ZenonT(60) DEF Review
  <2>4. /\ new.op = x.op /\ new.pc = "insert" /\ new.add = Len(q) + 1 /\ new.set = x.set
        /\ new.stored = x.stored /\ new.prog = x.prog /\ new.base = x.base /\ new.id = x.id
    BY <1>1, <1>4 DEF Review
  <2> HIDE DEF new
  <2>40. new.add # 0 /\ new.add <= Len(q) + 1 /\ x.set = ""
    <3>1. x.set = ""
      BY <1>1, <1>5 DEF Proc
    <3>2. Len(q) \in Nat /\ new.add = Len(q) + 1
      BY <1>1, <2>4
    <3> DEFINE m == Len(q)
               a == new.add
    <3>3. m \in Nat /\ a = m + 1
      BY <3>2
    <3> HIDE DEF m, a
    <3>4. a # 0 /\ a <= m + 1
      BY <3>3
    <3> QED
      BY <3>1, <3>4 DEF m, a
  <2>5. Proc(new)
    BY <1>3, <1>5, <2>4, <2>40 DEF Proc, Controls
  <2>60. ReportFacts(new)
    BY <2>4, <2>40 DEF ReportFacts, Inserted
  <2>61. NoteFacts(new) /\ ProgressFacts(new)
    BY <1>1, <1>5, <2>4 DEF NoteFacts, ProgressFacts, Inserted
  <2>6. SessionOK(new)
    BY <2>5, <2>60, <2>61 DEF SessionOK
  <2> QED
    BY <1>2, <2>1, <2>3, <2>4, <2>6, SessionMovesOn DEF Inserted
<1>6. CASE x.op # "amend" /\ q[n].review = target
  <2> DEFINE new == [x EXCEPT !.pc = after]
  <2>1. rv' = [rv EXCEPT ![s] = new]
    BY <1>1, <1>2, <1>6 DEF Decided
  <2>2. after \in {"incident", "progress"}
    OBVIOUS
  <2>3. (x.op = "accept" => after = "incident") /\ (x.op = "reject" => after = "progress")
    BY <1>3
  <2> HIDE DEF after
  <2>4. new \in Review
    BY <1>1, <2>2, ZenonT(60) DEF Review
  <2>5. /\ new.op = x.op /\ new.pc = after /\ new.add = x.add /\ new.set = x.set
        /\ new.stored = x.stored /\ new.prog = x.prog /\ new.base = x.base /\ new.id = x.id
        /\ new.pos = x.pos
    BY <1>1 DEF Review
  <2> HIDE DEF new
  <2>6. Proc(new)
    BY <1>1, <1>2, <1>3, <1>6, <2>2, <2>3, <2>5 DEF Proc, Controls
  <2>7. SessionOK(new)
    BY <1>1, <1>3, <2>2, <2>5, <2>6
       DEF SessionOK, ReportFacts, NoteFacts, ProgressFacts, Inserted
  <2> QED
    BY <1>2, <1>3, <2>1, <2>4, <2>5, <2>7, SessionMovesOn DEF Inserted
<1>7. CASE x.op # "amend" /\ q[n].review # target
  <2> DEFINE new == [x EXCEPT !.pc = "report", !.pos = n, !.set = target]
  <2>1. rv' = [rv EXCEPT ![s] = new]
    BY <1>1, <1>2, <1>7 DEF Decided
  <2>2. target \in RcaReviewStatus \cup {""}
    BY DEF RcaReviewStatus
  <2>3. /\ x.op = "accept" => target = "accepted"
        /\ x.op = "reject" => target = "rejected"
    BY <1>3
  <2>4. n \in 0 .. MaxVersion
    BY <1>1, <1>4, LatestIsLast, <1>2, VersionAssumption DEF Report
  <2> HIDE DEF target, n
  <2>5. new \in Review
    BY <1>1, <2>2, <2>4, ZenonT(60) DEF Review
  <2>6. /\ new.op = x.op /\ new.pc = "report" /\ new.add = x.add /\ new.set = target
        /\ new.stored = x.stored /\ new.prog = x.prog /\ new.base = x.base /\ new.id = x.id
        /\ new.pos = n
    BY <1>1 DEF Review
  <2> HIDE DEF new
  <2>7. Proc(new)
    BY <1>1, <1>2, <1>3, <1>7, <2>3, <2>6 DEF Proc, Controls
  <2>8. SessionOK(new)
    BY <1>1, <1>3, <1>4, <2>6, <2>7
       DEF SessionOK, ReportFacts, NoteFacts, ProgressFacts, Inserted
  <2> QED
    BY <1>2, <1>3, <2>1, <2>5, <2>6, <2>8, SessionMovesOn DEF Inserted
<1> QED
  BY <1>5, <1>6, <1>7

(* The entity a use case saves is a progress row, and a rejection's reason *)
(* is its own.                                                             *)
LEMMA ReadProgressStep ==
  ASSUME ReviewsOK, NEW s \in Sessions, ReadProgress(s)
  PROVE  ReviewsOK'
<1> DEFINE x == rv[s]
           p == orCreate(progress[x.id])
           save == CASE x.op = "reject" -> with_rejection(p)
                     [] x.op = "pause"  -> with_pause(p, TRUE)
                     [] x.op = "resume" -> with_pause(p, FALSE)
           same == x.op \in Controls /\ p.paused = (x.op = "pause")
<1>1. /\ x \in Review /\ x.id \in Incidents /\ rv \in [Sessions -> Review] /\ Proc(x)
      /\ NoteFacts(x) /\ ProgressFacts(x) /\ ReportFacts(x)
  BY SessionFacts
<1>2. x.pc = "progress" /\ UNCHANGED <<reports, progress, notes, claims>>
  BY DEF ReadProgress
<1>3. x.op \in {"reject", "pause", "resume"} /\ x.add = 0 /\ ~x.stored
  BY <1>1, <1>2 DEF Proc, Review, Reviews, Controls
<1>4. CASE same
  <2> DEFINE new == [x EXCEPT !.pc = "ready"]
  <2>1. rv' = [rv EXCEPT ![s] = new]
    BY <1>1, <1>4 DEF ReadProgress
  <2>2. new \in Review
    BY <1>1, ZenonT(60) DEF Review
  <2>3. /\ new.op = x.op /\ new.pc = "ready" /\ new.add = x.add /\ new.set = x.set
        /\ new.stored = x.stored /\ new.prog = x.prog /\ new.base = x.base /\ new.id = x.id
        /\ new.pos = x.pos
    BY <1>1 DEF Review
  <2> HIDE DEF new
  <2>4. x.op \in Controls
    BY <1>4
  <2>5. Proc(new)
    BY <1>1, <1>3, <2>3, <2>4 DEF Proc, Controls
  <2>6. SessionOK(new)
    BY <1>1, <1>3, <2>3, <2>4, <2>5
       DEF SessionOK, ReportFacts, NoteFacts, ProgressFacts, Inserted, Controls
  <2> QED
    BY <1>2, <1>3, <2>1, <2>2, <2>3, <2>6, SessionMovesOn DEF Inserted
<1>5. CASE ~same
  <2> DEFINE new == [x EXCEPT !.pc = "load", !.prog = progress[x.id], !.save = save]
  <2>1. rv' = [rv EXCEPT ![s] = new]
    <3>1. rv' = IF same THEN [rv EXCEPT ![s].pc = "ready"]
                ELSE [rv EXCEPT ![s].pc = "load", ![s].prog = progress[x.id], ![s].save = save]
      BY Zenon DEF ReadProgress
    <3> HIDE DEF save, same
    <3> QED
      BY <1>1, <1>5, <3>1
  <2>2. progress[x.id] \in Progress \cup {NoRow}
    BY <1>1 DEF ReviewsOK, ReviewShapes
  <2>3. p \in Progress
    BY <2>2, ProgressRowType DEF orCreate, RunStatus
  <2>4. /\ p.status \in RunStatus /\ p.reason \in Reasons \cup {""} /\ p.paused \in BOOLEAN
    BY <2>3 DEF Progress
  <2> HIDE DEF p
  <2>5. with_rejection(p) \in Progress /\ with_rejection(p).reason = "rca_rejected"
    BY ProgressRowType DEF with_rejection, RunStatus, Reasons
  <2>6. with_pause(p, TRUE) \in Progress
    BY <2>4, ProgressRowType DEF with_pause, RunStatus
  <2>7. with_pause(p, FALSE) \in Progress
    BY <2>4, ProgressRowType DEF with_pause, RunStatus
  <2>8. save \in Progress /\ (x.op = "reject" => save.reason = "rca_rejected")
    <3>1. CASE x.op = "reject"
      BY <3>1, <2>5
    <3>2. CASE x.op = "pause"
      BY <3>2, <2>6
    <3>3. CASE x.op = "resume"
      BY <3>3, <2>7
    <3> QED
      BY <1>3, <3>1, <3>2, <3>3
  <2> HIDE DEF save
  <2>9. new \in Review
    BY <1>1, <2>2, <2>8, ZenonT(60) DEF Review
  <2>10. /\ new.op = x.op /\ new.pc = "load" /\ new.add = x.add /\ new.set = x.set
         /\ new.stored = x.stored /\ new.prog = progress[x.id] /\ new.base = x.base
         /\ new.id = x.id /\ new.pos = x.pos /\ new.save = save
    BY <1>1 DEF Review
  <2> HIDE DEF new
  <2>11. Proc(new)
    BY <1>1, <1>2, <1>3, <2>8, <2>10 DEF Proc, Controls
  <2>12. SessionOK(new)
    BY <1>1, <1>3, <2>10, <2>11
       DEF SessionOK, ReportFacts, NoteFacts, ProgressFacts, Inserted
  <2> QED
    BY <1>2, <1>3, <2>1, <2>9, <2>10, <2>12, SessionMovesOn DEF Inserted
<1> QED
  BY <1>4, <1>5

(* The decision is written to the report that was read.                    *)
LEMMA SaveReportStep ==
  ASSUME ReviewsOK, NEW s \in Sessions, SaveReport(s)
  PROVE  ReviewsOK'
<1> DEFINE x == rv[s]
           after == IF x.op = "accept" THEN "incident" ELSE "progress"
<1>1. /\ x \in Review /\ x.id \in Incidents /\ rv \in [Sessions -> Review] /\ Proc(x)
      /\ NoteFacts(x) /\ ProgressFacts(x) /\ ReportFacts(x)
  BY SessionFacts
<1>2. x.pc = "report" /\ UNCHANGED <<reports, progress, notes, claims>>
  BY DEF SaveReport
<1>3. x.op \in {"accept", "reject"} /\ x.add = 0 /\ ~x.stored
  BY <1>1, <1>2 DEF Proc, Review, Reviews, Controls
<1>4. (x.op = "accept" => after = "incident") /\ (x.op = "reject" => after = "progress")
      /\ after \in {"incident", "progress"}
  BY <1>3
<1>5. \/ rv' = [rv EXCEPT ![s] = [x EXCEPT !.pc = after]]
      \/ rv' = [rv EXCEPT ![s] = [x EXCEPT !.pc = after, !.pos = 0, !.set = ""]]
  BY <1>1 DEF SaveReport
<1> HIDE DEF after
<1>6. CASE rv' = [rv EXCEPT ![s] = [x EXCEPT !.pc = after]]
  <2> DEFINE new == [x EXCEPT !.pc = after]
  <2>2. new \in Review
    BY <1>1, <1>4, ZenonT(60) DEF Review
  <2>3. /\ new.op = x.op /\ new.pc = after /\ new.add = x.add /\ new.set = x.set
        /\ new.stored = x.stored /\ new.prog = x.prog /\ new.base = x.base /\ new.id = x.id
        /\ new.pos = x.pos
    BY <1>1 DEF Review
  <2>4. rv' = [rv EXCEPT ![s] = new]
    BY <1>6
  <2> HIDE DEF new
  <2>5. Proc(new)
    BY <1>1, <1>2, <1>3, <1>4, <2>3 DEF Proc, Controls
  <2>6. SessionOK(new)
    BY <1>1, <1>3, <1>4, <2>3, <2>5
       DEF SessionOK, ReportFacts, NoteFacts, ProgressFacts, Inserted
  <2> QED
    BY <1>2, <1>3, <2>2, <2>3, <2>4, <2>6, SessionMovesOn DEF Inserted
<1>7. CASE rv' = [rv EXCEPT ![s] = [x EXCEPT !.pc = after, !.pos = 0, !.set = ""]]
  <2> DEFINE new == [x EXCEPT !.pc = after, !.pos = 0, !.set = ""]
  <2>1. 0 \in 0 .. MaxVersion
    BY VersionAssumption
  <2>2. new \in Review
    BY <1>1, <1>4, <2>1, ZenonT(60) DEF Review
  <2>3. /\ new.op = x.op /\ new.pc = after /\ new.add = x.add /\ new.set = ""
        /\ new.stored = x.stored /\ new.prog = x.prog /\ new.base = x.base /\ new.id = x.id
    BY <1>1 DEF Review
  <2>4. rv' = [rv EXCEPT ![s] = new]
    BY <1>7
  <2> HIDE DEF new
  <2>5. Proc(new)
    BY <1>1, <1>2, <1>3, <1>4, <2>3 DEF Proc, Controls
  <2>6. SessionOK(new)
    BY <1>1, <1>3, <1>4, <2>3, <2>5
       DEF SessionOK, ReportFacts, NoteFacts, ProgressFacts, Inserted
  <2> QED
    BY <1>2, <1>3, <2>2, <2>3, <2>4, <2>6, SessionMovesOn DEF Inserted
<1> QED
  BY <1>5, <1>6, <1>7

(* An accept writes its incident.                                          *)
LEMMA AcceptIncidentStep ==
  ASSUME ReviewsOK, NEW s \in Sessions, AcceptIncident(s)
  PROVE  ReviewsOK'
<1> DEFINE x == rv[s]
           pc == IF x.seen = INVESTIGATING THEN "saving" ELSE "ready"
           new == [x EXCEPT !.pc = pc, !.seen = OPEN]
<1>1. /\ x \in Review /\ x.id \in Incidents /\ rv \in [Sessions -> Review] /\ Proc(x)
      /\ NoteFacts(x) /\ ProgressFacts(x) /\ ReportFacts(x)
  BY SessionFacts
<1>2. x.pc = "incident" /\ UNCHANGED <<reports, progress, notes, claims>>
  BY DEF AcceptIncident
<1>3. x.op = "accept" /\ x.add = 0 /\ ~x.stored
  BY <1>1, <1>2 DEF Proc, Review, Reviews, Controls
<1>4. rv' = [rv EXCEPT ![s] = new]
  BY <1>1 DEF AcceptIncident
<1>5. pc \in {"saving", "ready"} /\ OPEN \in IncidentState
  BY StatesAreDistinct
<1> HIDE DEF pc
<1>6. new \in Review
  BY <1>1, <1>5, ZenonT(60) DEF Review
<1>7. /\ new.op = x.op /\ new.pc = pc /\ new.add = x.add /\ new.set = x.set
      /\ new.stored = x.stored /\ new.prog = x.prog /\ new.base = x.base /\ new.id = x.id
      /\ new.pos = x.pos
  BY <1>1 DEF Review
<1> HIDE DEF new
<1>8. Proc(new)
  BY <1>1, <1>2, <1>3, <1>5, <1>7 DEF Proc, Controls
<1>9. SessionOK(new)
  BY <1>1, <1>3, <1>5, <1>7, <1>8
     DEF SessionOK, ReportFacts, NoteFacts, ProgressFacts, Inserted
<1> QED
  BY <1>2, <1>3, <1>4, <1>6, <1>7, <1>9, SessionMovesOn DEF Inserted

(* The INSERT succeeds only for the next version, and for one session.     *)
LEMMA InsertReportStep ==
  ASSUME ReviewsOK, NEW s \in Sessions, InsertReport(s)
  PROVE  ReviewsOK'
<1> DEFINE x == rv[s]
           q == reports[x.id]
           new == [x EXCEPT !.pc = "notify"]
<1>1. /\ x \in Review /\ x.id \in Incidents /\ rv \in [Sessions -> Review] /\ Proc(x)
      /\ NoteFacts(x) /\ ProgressFacts(x) /\ ReportFacts(x)
      /\ q \in Seq(Report) /\ Len(q) \in Nat
  BY SessionFacts
<1>2. /\ x.pc = "insert" /\ UNCHANGED <<reports, progress, notes, claims>>
      /\ ~VersionPending(s) /\ ~VersionTaken(s)
  BY DEF InsertReport
<1>3. x.op \in {"amend", "investigate"} /\ x.add # 0 /\ ~x.stored /\ x.add \in 0 .. MaxVersion
  BY <1>1, <1>2 DEF Proc, Review
<1>4. x.add = Len(q) + 1
  <2>1. x.add <= Len(q) + 1
    BY <1>1, <1>3 DEF ReportFacts
  <2>2. x.add \notin 1 .. Len(q)
    <3> SUFFICES ASSUME x.add \in 1 .. Len(q) PROVE FALSE
      OBVIOUS
    <3>1. q[x.add].version = x.add /\ x.add \in DOMAIN q
      BY <1>1 DEF ReviewsOK, VersionIsPosition
    <3> QED
      BY <1>2, <3>1 DEF VersionTaken
  <2> QED
    BY <1>1, <1>3, <2>1, <2>2, VersionAssumption
<1>5. rv' = [rv EXCEPT ![s] = new]
  BY <1>1 DEF InsertReport
<1>6. new \in Review
  BY <1>1, ZenonT(60) DEF Review
<1>7. /\ new.op = x.op /\ new.pc = "notify" /\ new.add = x.add /\ new.set = x.set
      /\ new.stored = x.stored /\ new.prog = x.prog /\ new.base = x.base /\ new.id = x.id
      /\ new.save = x.save
  BY <1>1 DEF Review
<1> HIDE DEF new
<1>8. Proc(new)
  BY <1>1, <1>2, <1>3, <1>7 DEF Proc, Controls
<1>9. x.set = ""
  BY <1>1, <1>3 DEF Proc
<1>10. ReportFacts(new)
  BY <1>1, <1>4, <1>7, <1>9 DEF ReportFacts
<1>11. NoteFacts(new) /\ ProgressFacts(new)
  BY <1>1, <1>3, <1>7 DEF NoteFacts, ProgressFacts
<1>12. SessionOK(new)
  BY <1>8, <1>10, <1>11 DEF SessionOK
<1>13. ASSUME NEW t \in Sessions \ {s}, Inserted(rv[t]) PROVE rv[t].id # new.id
  <2> SUFFICES ASSUME rv[t].id = x.id PROVE FALSE
    BY <1>7
  <2>1. rv[t].add = Len(reports[rv[t].id]) + 1
    BY <1>13, SessionFacts DEF ReportFacts
  <2>2. rv[t].add = x.add /\ rv[t].pc # "insert"
    BY <1>4, <1>13, <2>1 DEF Inserted
  <2> QED
    BY <1>2, <2>2 DEF VersionPending, Others
<1> QED
  BY <1>2, <1>5, <1>6, <1>12, <1>13, SessionMoves

(* The SELECT of the progress row.                                         *)
LEMMA LoadProgressStep ==
  ASSUME ReviewsOK, NEW s \in Sessions, LoadProgress(s)
  PROVE  ReviewsOK'
<1> DEFINE x == rv[s]
<1>1. /\ x \in Review /\ x.id \in Incidents /\ rv \in [Sessions -> Review] /\ Proc(x)
      /\ NoteFacts(x) /\ ProgressFacts(x) /\ ReportFacts(x)
  BY SessionFacts
<1>2. x.pc = "load" /\ UNCHANGED <<reports, progress, notes, claims>>
  BY DEF LoadProgress
<1>3. PICK b \in {x.prog, progress[x.id]} :
        rv' = [rv EXCEPT ![s].pc = "flush", ![s].prog = NoRow, ![s].base = b]
  BY DEF LoadProgress
<1> DEFINE new == [x EXCEPT !.pc = "flush", !.prog = NoRow, !.base = b]
<1>4. rv' = [rv EXCEPT ![s] = new]
  BY <1>1, <1>3
<1>5. b \in Progress \cup {NoRow} /\ (b # NoRow => progress[x.id] # NoRow)
  BY <1>1, <1>3 DEF ReviewsOK, ReviewShapes, Review, ProgressFacts
<1>6. new \in Review
  BY <1>1, <1>5, ZenonT(60) DEF Review
<1>7. /\ new.op = x.op /\ new.pc = "flush" /\ new.add = x.add /\ new.set = x.set
      /\ new.stored = x.stored /\ new.prog = NoRow /\ new.base = b /\ new.id = x.id
      /\ new.pos = x.pos /\ new.save = x.save /\ new.notes = x.notes
  BY <1>1 DEF Review
<1> HIDE DEF new
<1>8. Proc(new)
  BY <1>1, <1>2, <1>7 DEF Proc, Controls
<1>9. ReportFacts(new)
  BY <1>1, <1>2, <1>7 DEF ReportFacts, Inserted
<1>10. NoteFacts(new)
  BY <1>1, <1>2, <1>7 DEF NoteFacts, Inserted
<1>11. ProgressFacts(new)
  BY <1>5, <1>7 DEF ProgressFacts
<1> QED
  BY <1>2, <1>4, <1>6, <1>7, <1>8, <1>9, <1>10, <1>11, SessionMovesOn DEF Inserted, SessionOK

(* The UPDATE or INSERT of the progress row.                               *)
LEMMA FlushProgressStep ==
  ASSUME ReviewsOK, NEW s \in Sessions, FlushProgress(s)
  PROVE  ReviewsOK'
<1> DEFINE x == rv[s]
           pc == IF x.op \in Controls \/ x.save.reason = "" THEN "ready" ELSE "notify"
           new == [x EXCEPT !.pc = pc, !.stored = TRUE]
<1>1. /\ x \in Review /\ x.id \in Incidents /\ rv \in [Sessions -> Review] /\ Proc(x)
      /\ NoteFacts(x) /\ ProgressFacts(x) /\ ReportFacts(x)
  BY SessionFacts
<1>2. x.pc = "flush" /\ UNCHANGED <<reports, progress, notes, claims>>
  BY DEF FlushProgress
<1>3. rv' = [rv EXCEPT ![s] = new]
  BY <1>1 DEF FlushProgress
<1>4. /\ pc \in {"ready", "notify"}
      /\ pc = "notify" <=> x.op \notin Controls /\ x.save.reason # ""
  OBVIOUS
<1>5. x.op = "reject" => pc = "notify"
  BY <1>1, <1>2, <1>4 DEF Proc, Controls
<1> HIDE DEF pc
<1>6. new \in Review
  BY <1>1, <1>4, ZenonT(60) DEF Review
<1>7. /\ new.op = x.op /\ new.pc = pc /\ new.add = x.add /\ new.set = x.set
      /\ new.stored = TRUE /\ new.prog = x.prog /\ new.base = x.base /\ new.id = x.id
      /\ new.pos = x.pos /\ new.save = x.save /\ new.notes = x.notes
  BY <1>1 DEF Review
<1> HIDE DEF new
<1>8. Proc(new)
  BY <1>1, <1>2, <1>4, <1>7 DEF Proc, Controls
<1>9. ReportFacts(new)
  BY <1>1, <1>2, <1>4, <1>7 DEF ReportFacts, Inserted
<1>10. NoteFacts(new)
  BY <1>1, <1>2, <1>4, <1>5, <1>7 DEF NoteFacts, Inserted
<1>11. ProgressFacts(new)
  BY <1>1, <1>7 DEF ProgressFacts
<1> QED
  BY <1>2, <1>3, <1>4, <1>6, <1>7, <1>8, <1>9, <1>10, <1>11, SessionMovesOn
     DEF Inserted, SessionOK

(* The notification that is due is of the version just inserted, or gives  *)
(* the reason of the escalation.                                           *)
LEMMA NotifyStep ==
  ASSUME ReviewsOK, NEW s \in Sessions, Notify(s)
  PROVE  ReviewsOK'
<1> DEFINE x == rv[s]
           n == NoteDue(s)
           pc == IF x.op = "investigate" /\ ~x.stored THEN "load" ELSE "ready"
           more == IF n \in notes[x.id] THEN x.notes ELSE x.notes \cup {n}
           new == [x EXCEPT !.pc = pc, !.notes = more]
<1>1. /\ x \in Review /\ x.id \in Incidents /\ rv \in [Sessions -> Review] /\ Proc(x)
      /\ NoteFacts(x) /\ ProgressFacts(x) /\ ReportFacts(x)
  BY SessionFacts
<1>2. x.pc = "notify" /\ UNCHANGED <<reports, progress, notes, claims>>
  BY DEF Notify
<1>3. rv' = [rv EXCEPT ![s] = new]
  <2>1. rv' = IF n \in notes[x.id] THEN [rv EXCEPT ![s].pc = pc]
                                   ELSE [rv EXCEPT ![s].pc = pc, ![s].notes = @ \cup {n}]
    BY Zenon DEF Notify
  <2> HIDE DEF pc, n
  <2>2. CASE n \in notes[x.id]
    <3>1. [x EXCEPT !.pc = pc, !.notes = x.notes] = [x EXCEPT !.pc = pc]
      BY <1>1 DEF Review
    <3> QED
      BY <1>1, <2>1, <2>2, <3>1
  <2>3. CASE n \notin notes[x.id]
    BY <1>1, <2>1, <2>3
  <2> QED
    BY <2>2, <2>3
<1>4. /\ x.stored \in BOOLEAN /\ x.add \in 0 .. MaxVersion /\ x.notes \subseteq Note
      /\ ~x.stored => x.add # 0
      /\ x.stored => x.save \in Progress /\ x.save.reason # ""
      /\ x.op = "reject" => x.stored /\ x.add = 0 /\ x.save.reason = "rca_rejected"
  BY <1>1, <1>2 DEF Proc, Review
<1>5. /\ ~x.stored => n = <<"rca_ready", x.add>>
      /\ x.stored => n = <<"escalation", x.save.reason>>
  BY <1>4 DEF NoteDue
<1>6. n \in Note
  <2>1. CASE ~x.stored
    <3>1. \A a \in 0 .. MaxVersion : a # 0 => a \in 1 .. MaxVersion
      BY VersionAssumption
    <3>2. x.add \in 1 .. MaxVersion
      BY <1>4, <2>1, <3>1, Zenon
    <3> QED
      BY <1>5, <2>1, <3>2 DEF Note
  <2>2. CASE x.stored
    <3>1. x.save.reason \in Reasons
      BY <1>4, <2>2 DEF Progress
    <3> QED
      BY <1>5, <2>2, <3>1 DEF Note
  <2> QED
    BY <2>1, <2>2
<1>7. more \in SUBSET Note /\ n \in more \cup notes[x.id] /\ x.notes \subseteq more
  BY <1>4, <1>6
<1>8. pc \in {"load", "ready"} /\ (pc = "load" <=> x.op = "investigate" /\ ~x.stored)
  OBVIOUS
<1> HIDE DEF pc, more, n
<1>9. new \in Review
  BY <1>1, <1>7, <1>8, ZenonT(60) DEF Review
<1>10. /\ new.op = x.op /\ new.pc = pc /\ new.add = x.add /\ new.set = x.set
       /\ new.stored = x.stored /\ new.prog = x.prog /\ new.base = x.base /\ new.id = x.id
       /\ new.pos = x.pos /\ new.save = x.save /\ new.notes = more
  BY <1>1 DEF Review
<1> HIDE DEF new
<1>11. Proc(new)
  BY <1>1, <1>2, <1>8, <1>10 DEF Proc, Controls
<1>12. ReportFacts(new)
  BY <1>1, <1>2, <1>8, <1>10 DEF ReportFacts, Inserted
<1>13. NoteFacts(new)
  <2>1. Inserted(new) => <<"rca_ready", x.add>> \in more \cup notes[x.id]
    BY <1>1, <1>2, <1>4, <1>5, <1>7, <1>10 DEF NoteFacts, Inserted
  <2>2. x.op = "reject" => <<"escalation", "rca_rejected">> \in more \cup notes[x.id]
    BY <1>4, <1>5, <1>7
  <2> QED
    BY <1>10, <2>1, <2>2 DEF NoteFacts
<1>14. ProgressFacts(new)
  BY <1>1, <1>10 DEF ProgressFacts
<1> QED
  BY <1>2, <1>3, <1>8, <1>9, <1>10, <1>11, <1>12, <1>13, <1>14, SessionMovesOn
     DEF Inserted, SessionOK

(* A worker claims an incident.                                            *)
LEMMA StartInvestigationStep ==
  ASSUME ReviewsOK, NEW w \in Sessions, NEW i \in Incidents, StartInvestigation(w, i)
  PROVE  ReviewsOK'
<1> DEFINE new == [NoReview EXCEPT !.op = "investigate", !.pc = "saving", !.id = i]
<1>1. rv' = [rv EXCEPT ![w] = new] /\ UNCHANGED <<reports, progress, notes, claims>>
  BY DEF StartInvestigation
<1>2. new \in Review
  BY NoReviewType, ZenonT(60) DEF Review
<1>3. /\ new.op = "investigate" /\ new.pc = "saving" /\ new.add = 0 /\ new.set = ""
      /\ new.stored = FALSE /\ new.prog = NoRow /\ new.base = NoRow
  BY NoReviewFields, NoReviewType DEF Review
<1> HIDE DEF new
<1>4. SessionOK(new)
  BY <1>3 DEF SessionOK, Proc, ReportFacts, NoteFacts, ProgressFacts, Inserted, Controls
<1> QED
  BY <1>1, <1>2, <1>3, <1>4, SessionMovesOn DEF Inserted

(* A worker's attempt ends with an outcome and perhaps a report.           *)
LEMMA InvestigationEndsStep ==
  ASSUME ReviewsOK, NEW w \in Sessions, NEW o \in Outcomes, InvestigationEnds(w, o)
  PROVE  ReviewsOK'
<1> DEFINE x == rv[w]
           pc == IF o.report THEN "insert" ELSE "load"
           add == IF o.report THEN 1 ELSE 0
           new == [x EXCEPT !.pc = pc, !.add = add, !.save = o.save]
<1>1. /\ x \in Review /\ x.id \in Incidents /\ rv \in [Sessions -> Review] /\ Proc(x)
      /\ NoteFacts(x) /\ ProgressFacts(x) /\ ReportFacts(x) /\ Len(reports[x.id]) \in Nat
  BY SessionFacts
<1>2. /\ x.pc = "saving" /\ x.op = "investigate" /\ UNCHANGED <<reports, progress, notes, claims>>
      /\ rv' = [rv EXCEPT ![w] = new]
  BY <1>1 DEF InvestigationEnds
<1>3. /\ pc \in {"insert", "load"} /\ add \in {0, 1} /\ (pc = "insert" <=> add # 0)
  OBVIOUS
<1>4. o.save \in Progress
  <2>1. \/ o.save = ProgressRow("pending_review", "", FALSE)
        \/ o.save = ProgressRow("escalated", "low_confidence", FALSE)
        \/ o.save = ProgressRow("running", "dependency_failure", FALSE)
    <3> DEFINE a == ProgressRow("pending_review", "", FALSE)
               b == ProgressRow("escalated", "low_confidence", FALSE)
               c == ProgressRow("running", "dependency_failure", FALSE)
    <3>1. o \in {[report |-> TRUE, save |-> a], [report |-> TRUE, save |-> b],
                 [report |-> FALSE, save |-> c]}
      BY DEF Outcomes
    <3> HIDE DEF a, b, c
    <3>2. o.save \in {a, b, c}
      BY <3>1
    <3> QED
      BY <3>2 DEF a, b, c
  <2>2. /\ {"pending_review", "escalated", "running"} \subseteq RunStatus
        /\ {"", "low_confidence", "dependency_failure"} \subseteq Reasons \cup {""}
    BY DEF RunStatus, Reasons
  <2>3. /\ ProgressRow("pending_review", "", FALSE) \in Progress
        /\ ProgressRow("escalated", "low_confidence", FALSE) \in Progress
        /\ ProgressRow("running", "dependency_failure", FALSE) \in Progress
    BY <2>2 DEF ProgressRow, Progress
  <2> QED
    BY <2>1, <2>3, Zenon
<1>5. add \in 0 .. MaxVersion
  BY <1>3, VersionAssumption
<1> HIDE DEF pc, add
<1>6. new \in Review
  BY <1>1, <1>3, <1>4, <1>5, ZenonT(60) DEF Review
<1>7. /\ new.op = x.op /\ new.pc = pc /\ new.add = add /\ new.set = x.set
      /\ new.stored = x.stored /\ new.prog = x.prog /\ new.base = x.base /\ new.id = x.id
      /\ new.pos = x.pos /\ new.save = o.save
  BY <1>1 DEF Review
<1> HIDE DEF new
<1>8. Proc(new)
  BY <1>1, <1>2, <1>3, <1>4, <1>7 DEF Proc, Controls
<1>9. ReportFacts(new)
  <2>1. add <= Len(reports[x.id]) + 1
    BY <1>1, <1>3
  <2>2. x.set = ""
    BY <1>1, <1>2 DEF Proc
  <2> QED
    BY <1>3, <1>7, <2>1, <2>2 DEF ReportFacts, Inserted
<1>10. NoteFacts(new) /\ ProgressFacts(new)
  BY <1>1, <1>2, <1>3, <1>7 DEF NoteFacts, ProgressFacts, Inserted
<1> QED
  BY <1>2, <1>3, <1>6, <1>7, <1>8, <1>9, <1>10, SessionMovesOn DEF Inserted, SessionOK

---------------------------------------------------------------------------
(* The commit.                                                             *)

(* One more report.                                                        *)
LEMMA AppendFacts ==
  ASSUME NEW q \in Seq(Report), NEW c \in Report
  PROVE  /\ Append(q, c) \in Seq(Report) /\ Len(Append(q, c)) = Len(q) + 1
         /\ Append(q, c)[Len(q) + 1] = c
         /\ \A n \in 1 .. Len(q) : Append(q, c)[n] = q[n]
OBVIOUS

(* The stored reports once a session has committed: the version it has     *)
(* inserted comes last, and nothing else is renumbered.                    *)
LEMMA RevisedReports ==
  ASSUME ReviewsOK, NEW s \in Sessions, rv[s].pc # "insert"
  PROVE  /\ Revised(s) \in Seq(Report)
         /\ Len(Revised(s)) = Len(reports[rv[s].id]) + (IF rv[s].add = 0 THEN 0 ELSE 1)
         /\ rv[s].add # 0 => Revised(s)[Len(reports[rv[s].id]) + 1] = create(rv[s].add)
         /\ rv[s].set # "" => Revised(s)[rv[s].pos].review = rv[s].set
         /\ \A n \in 1 .. Len(reports[rv[s].id]) :
              /\ Revised(s)[n].version = reports[rv[s].id][n].version
              /\ \/ Revised(s)[n].review = reports[rv[s].id][n].review
                 \/ rv[s].set # "" /\ n = rv[s].pos /\ Revised(s)[n].review = rv[s].set
<1> DEFINE x == rv[s]
           q == reports[x.id]
           r == IF x.set = "" THEN q ELSE [q EXCEPT ![x.pos] = with_review_status(@, x.set)]
<1>1. /\ x \in Review /\ Proc(x) /\ ReportFacts(x) /\ q \in Seq(Report) /\ Len(q) \in Nat
  BY SessionFacts
<1>2. /\ r \in Seq(Report) /\ Len(r) = Len(q)
      /\ x.set # "" => x.pos \in 1 .. Len(q) /\ r[x.pos].review = x.set
      /\ \A n \in 1 .. Len(q) :
           /\ r[n].version = q[n].version
           /\ r[n].review = q[n].review \/ (x.set # "" /\ n = x.pos /\ r[n].review = x.set)
  <2>1. CASE x.set = ""
    BY <1>1, <2>1
  <2>2. CASE x.set # ""
    <3>1. x.pos \in 1 .. Len(q) /\ x.set \in RcaReviewStatus
      BY <1>1, <2>2 DEF ReportFacts, Review
    <3>2. q[x.pos] \in Report
      BY <1>1, <3>1
    <3> DEFINE v == with_review_status(q[x.pos], x.set)
    <3>3. v \in Report /\ v.version = q[x.pos].version /\ v.review = x.set
      BY <3>1, <3>2 DEF with_review_status, Report
    <3>4. r = [q EXCEPT ![x.pos] = v]
      BY <2>2
    <3> HIDE DEF v, r, q
    <3>5. r \in Seq(Report) /\ Len(r) = Len(q)
      BY <1>1, <3>1, <3>3, <3>4
    <3>6. \A n \in 1 .. Len(q) : r[n] = IF n = x.pos THEN v ELSE q[n]
      BY <1>1, <3>1, <3>4
    <3> QED
      BY <2>2, <3>1, <3>3, <3>5, <3>6
  <2> QED
    BY <2>1, <2>2
<1>3. Revised(s) = IF x.add = 0 THEN r ELSE Append(r, create(x.add))
  BY DEF Revised
<1> HIDE DEF r, q
<1>4. CASE x.add = 0
  <2>1. Revised(s) = r
    BY <1>3, <1>4
  <2>2. \A k \in Nat : k = k + (IF x.add = 0 THEN 0 ELSE 1)
    BY <1>4
  <2>3. Len(q) = Len(q) + (IF x.add = 0 THEN 0 ELSE 1)
    BY <1>1, <2>2, Zenon
  <2> QED
    BY <1>2, <1>4, <2>1, <2>3, ZenonT(60) DEF q
<1>5. CASE x.add # 0
  <2> DEFINE c == create(x.add)
  <2>1. \A a \in 0 .. MaxVersion : a # 0 => a \in 1 .. MaxVersion
    BY VersionAssumption
  <2>2. x.add \in 0 .. MaxVersion
    BY <1>1 DEF Review
  <2>3. x.add \in 1 .. MaxVersion
    BY <1>5, <2>1, <2>2, Zenon
  <2>4. c \in Report
    BY <2>3 DEF create, Report, RcaReviewStatus
  <2>5. Revised(s) = Append(r, c)
    BY <1>3, <1>5
  <2> HIDE DEF c
  <2>6. /\ Append(r, c) \in Seq(Report) /\ Len(Append(r, c)) = Len(q) + 1
        /\ Append(r, c)[Len(q) + 1] = c
        /\ \A n \in 1 .. Len(q) : Append(r, c)[n] = r[n]
    <3>1. r \in Seq(Report) /\ Len(r) = Len(q)
      BY <1>2
    <3>2. /\ Append(r, c) \in Seq(Report) /\ Len(Append(r, c)) = Len(r) + 1
          /\ Append(r, c)[Len(r) + 1] = c
          /\ \A n \in 1 .. Len(r) : Append(r, c)[n] = r[n]
      BY <2>4, <3>1, AppendFacts
    <3> QED
      BY <3>1, <3>2, Zenon
  <2>7. \A k \in Nat : k + 1 = k + (IF x.add = 0 THEN 0 ELSE 1)
    BY <1>5
  <2>8. Len(q) + 1 = Len(q) + (IF x.add = 0 THEN 0 ELSE 1)
    BY <1>1, <2>7, Zenon
  <2>9. \A n \in 1 .. Len(q) :
          /\ Revised(s)[n].version = q[n].version
          /\ Revised(s)[n].review = q[n].review
             \/ (x.set # "" /\ n = x.pos /\ Revised(s)[n].review = x.set)
    BY <1>2, <2>5, <2>6, Zenon
  <2>10. x.set # "" => Revised(s)[x.pos].review = x.set
    BY <1>2, <2>5, <2>6
  <2> QED
    BY <1>5, <2>5, <2>6, <2>8, <2>9, <2>10, ZenonT(60) DEF q, c
<1> QED
  BY <1>4, <1>5

(* What is left of a progress row after a partial UPDATE is a progress     *)
(* row.                                                                    *)
LEMMA MergedType ==
  ASSUME ReviewsOK, NEW s \in Sessions, rv[s].stored
  PROVE  Merged(s) \in Progress
<1> DEFINE x == rv[s]
           p == progress[x.id]
<1>1. x \in Review /\ Proc(x) /\ ProgressFacts(x) /\ x.id \in Incidents
  BY SessionFacts
<1>2. x.save \in Progress /\ x.base \in Progress \cup {NoRow}
  BY <1>1 DEF Proc, Review
<1>3. x.base # NoRow => p \in Progress
  BY <1>1 DEF ProgressFacts, ReviewsOK, ReviewShapes
<1>4. CASE x.base = NoRow
  BY <1>2, <1>4 DEF Merged
<1>5. CASE x.base # NoRow
  <2> DEFINE a == IF x.save.status # x.base.status THEN x.save.status ELSE p.status
             b == IF x.save.reason # x.base.reason THEN x.save.reason ELSE p.reason
             c == IF x.save.paused # x.base.paused THEN x.save.paused ELSE p.paused
  <2>1. a \in RunStatus /\ b \in Reasons \cup {""} /\ c \in BOOLEAN
    BY <1>2, <1>3, <1>5 DEF Progress
  <2>2. Merged(s) = ProgressRow(a, b, c)
    BY <1>5 DEF Merged
  <2> HIDE DEF a, b, c
  <2> QED
    <3>1. ProgressRow(a, b, c) \in Progress
      BY <2>1, ZenonT(60) DEF ProgressRow, Progress
    <3> QED
      BY <2>2, <3>1, Zenon
<1> QED
  BY <1>4, <1>5

(* What the commit leaves of each other session's view.                    *)
LEMMA CommitReviewStep ==
  ASSUME ReviewsOK, NEW s \in Sessions, CommitReview(s)
  PROVE  ReviewsOK'
<1> DEFINE x == rv[s]
           i == x.id
           L == Len(reports[i])
<1>1. /\ x \in Review /\ i \in Incidents /\ rv \in [Sessions -> Review] /\ Proc(x)
      /\ NoteFacts(x) /\ ProgressFacts(x) /\ ReportFacts(x)
      /\ reports[i] \in Seq(Report) /\ L \in Nat
  BY SessionFacts
<1>2. /\ x.pc = "ready" \/ (x.op = "accept" /\ x.pc = "saving")
      /\ reports' = [reports EXCEPT ![i] = Revised(s)]
      /\ progress' = IF x.stored THEN [progress EXCEPT ![i] = Merged(s)] ELSE progress
      /\ notes' = [notes EXCEPT ![i] = notes[i] \cup x.notes]
      /\ claims' = IF x.op = "investigate" THEN claims \cup {i} ELSE claims
      /\ rv' = [rv EXCEPT ![s] = NoReview]
  BY DEF CommitReview
<1>3. ReviewShapes
  BY DEF ReviewsOK
<1>4. /\ x.pc # "insert" /\ (x.add # 0 => x.pc = "ready" /\ Inserted(x))
      /\ (x.op = "reject" => x.pc = "ready") /\ x.add \in 0 .. MaxVersion /\ x.notes \subseteq Note
  BY <1>1, <1>2 DEF Proc, Inserted, Review
<1>5. \A t \in Sessions : rv'[t] = IF t = s THEN NoReview ELSE rv[t]
  BY <1>1, <1>2
<1>6. \A j \in Incidents : /\ reports'[j] = IF j = i THEN Revised(s) ELSE reports[j]
                           /\ notes'[j] = IF j = i THEN notes[j] \cup x.notes ELSE notes[j]
  BY <1>1, <1>2, <1>3 DEF ReviewShapes
<1>7. \A j \in Incidents : progress'[j] = IF j = i /\ x.stored THEN Merged(s) ELSE progress[j]
  BY <1>1, <1>2, <1>3 DEF ReviewShapes
<1>8. Revised(s) \in Seq(Report) /\ Len(Revised(s)) = L + (IF x.add = 0 THEN 0 ELSE 1)
  BY <1>4, RevisedReports
<1>9. /\ x.add # 0 => Revised(s)[L + 1] = create(x.add)
      /\ \A n \in 1 .. L :
           /\ Revised(s)[n].version = reports[i][n].version
           /\ \/ Revised(s)[n].review = reports[i][n].review
              \/ x.set # "" /\ n = x.pos /\ Revised(s)[n].review = x.set
  BY <1>4, RevisedReports
<1>10. x.stored => Merged(s) \in Progress /\ Merged(s) # NoRow
  BY MergedType, NoRowIsNone
<1>11. ReviewShapes'
  <2>1. rv' \in [Sessions -> Review]
    BY <1>1, <1>2, NoReviewType
  <2>2. reports' \in [Incidents -> Seq(Report)]
    BY <1>2, <1>3, <1>8 DEF ReviewShapes
  <2>3. progress' \in [Incidents -> Progress \cup {NoRow}]
    BY <1>2, <1>3, <1>10 DEF ReviewShapes
  <2>4. notes' \in [Incidents -> SUBSET Note]
    <3>1. notes[i] \cup x.notes \in SUBSET Note
      BY <1>1, <1>3, <1>4 DEF ReviewShapes
    <3> QED
      BY <1>2, <1>3, <3>1 DEF ReviewShapes
  <2>5. claims' \subseteq Incidents
    BY <1>1, <1>2, <1>3 DEF ReviewShapes
  <2> QED
    BY <2>1, <2>2, <2>3, <2>4, <2>5 DEF ReviewShapes
<1>12. \A j \in Incidents : /\ Len(reports[j]) <= Len(reports'[j]) /\ Len(reports[j]) \in Nat
                            /\ Len(reports'[j]) \in Nat
                            /\ x.add = 0 \/ j # i => Len(reports'[j]) = Len(reports[j])
                            /\ notes[j] \subseteq notes'[j]
                            /\ progress[j] # NoRow => progress'[j] # NoRow
  <2> TAKE j \in Incidents
  <2>1. Len(reports[j]) \in Nat
    BY <1>3 DEF ReviewShapes
  <2>2. notes[j] \subseteq notes'[j] /\ (progress[j] # NoRow => progress'[j] # NoRow)
    BY <1>6, <1>7, <1>10
  <2>3. CASE j # i
    <3>1. reports'[j] = reports[j]
      BY <1>6, <2>3
    <3>2. \A k \in Nat : k <= k
      OBVIOUS
    <3> QED
      BY <2>1, <2>2, <3>1, <3>2, Zenon
  <2>4. CASE j = i
    <3> DEFINE m == Len(Revised(s))
               a == x.add
    <3>1. m = L + (IF a = 0 THEN 0 ELSE 1) /\ L \in Nat
      BY <1>1, <1>8
    <3>2. Len(reports'[j]) = m /\ Len(reports[j]) = L
      BY <1>6, <2>4
    <3> HIDE DEF m, a, L
    <3>3. L <= m /\ m \in Nat /\ (a = 0 => m = L)
      BY <3>1
    <3> QED
      BY <2>1, <2>2, <2>4, <3>2, <3>3 DEF a
  <2> QED
    BY <2>3, <2>4
<1>13. (\A t \in Sessions : SessionOK(rv[t]))'
  <2> SUFFICES ASSUME NEW t \in Sessions PROVE SessionOK(rv[t])'
    OBVIOUS
  <2>1. CASE t = s
    <3>1. rv'[t] = NoReview
      BY <1>5, <2>1
    <3> QED
      BY <3>1, NoReviewFields, NoReviewOK DEF SessionOK, ReportFacts, NoteFacts, ProgressFacts, Inserted
  <2>2. CASE t # s
    <3> DEFINE y == rv[t]
    <3>1. rv'[t] = y
      BY <1>5, <2>2
    <3>2. y \in Review /\ y.id \in Incidents /\ Proc(y) /\ ReportFacts(y) /\ NoteFacts(y)
          /\ ProgressFacts(y)
      BY SessionFacts
    <3>3. Inserted(y) => Len(reports'[y.id]) = Len(reports[y.id])
      <4>1. Inserted(y) /\ Inserted(x) => y.id # i
        BY <2>2 DEF ReviewsOK, OneInserted
      <4> QED
        BY <1>4, <1>12, <3>2, <4>1
    <3>4. /\ Len(reports[y.id]) <= Len(reports'[y.id]) /\ Len(reports[y.id]) \in Nat
          /\ Len(reports'[y.id]) \in Nat /\ notes[y.id] \subseteq notes'[y.id]
          /\ progress[y.id] # NoRow => progress'[y.id] # NoRow
      BY <1>12, <3>2
    <3>5. ReportFacts(y)'
      <4>1. y.add \in Nat /\ y.pos \in Nat
        <5>1. \A n \in 0 .. MaxVersion : n \in Nat
          BY VersionAssumption
        <5>2. y.add \in 0 .. MaxVersion /\ y.pos \in 0 .. MaxVersion
          BY <3>2 DEF Review
        <5> QED
          BY <5>1, <5>2, Zenon
      <4> DEFINE a == y.add
                 p == y.pos
                 l == Len(reports[y.id])
                 m == Len(reports'[y.id])
      <4>2. (a <= l + 1 => a <= m + 1) /\ (p \in 1 .. l => p \in 1 .. m)
        <5>1. a \in Nat /\ p \in Nat /\ l \in Nat /\ m \in Nat /\ l <= m
          BY <3>4, <4>1
        <5> HIDE DEF a, p, l, m
        <5> QED
          BY <5>1
      <4> QED
        BY <3>1, <3>2, <3>3, <4>2 DEF ReportFacts, Inserted
    <3>6. NoteFacts(y)'
      BY <3>1, <3>2, <3>4 DEF NoteFacts, Inserted
    <3>7. ProgressFacts(y)'
      BY <3>1, <3>2, <3>4 DEF ProgressFacts
    <3>8. Proc(rv'[t])
      BY <3>1, <3>2
    <3> QED
      BY <3>5, <3>6, <3>7, <3>8 DEF SessionOK, Proc
  <2> QED
    BY <2>1, <2>2
<1>14. OneInserted'
  <2>1. ~Inserted(NoReview)
    BY NoReviewFields DEF Inserted
  <2> QED
    BY <1>5, <2>1 DEF ReviewsOK, OneInserted, Inserted
<1>15. x.add # 0 => x.add = L + 1 /\ create(x.add).version = L + 1
                    /\ create(x.add).review = "pending_review"
  BY <1>1, <1>4 DEF ReportFacts, create
<1>16. \A n \in 1 .. Len(Revised(s)) : n \in 1 .. L \/ (x.add # 0 /\ n = L + 1)
  <2> DEFINE m == Len(Revised(s))
             a == x.add
  <2>1. m = L + (IF a = 0 THEN 0 ELSE 1) /\ L \in Nat
    BY <1>1, <1>8
  <2> HIDE DEF m, a, L
  <2>2. \A n \in 1 .. m : n \in 1 .. L \/ (a # 0 /\ n = L + 1)
    BY <2>1
  <2> QED
    BY <2>2 DEF m, a
<1>17. VersionIsPosition'
  <2>1. \A n \in 1 .. L : reports[i][n].version = n
    BY <1>1 DEF ReviewsOK, VersionIsPosition
  <2>2. \A n \in 1 .. Len(Revised(s)) : Revised(s)[n].version = n
    BY <1>9, <1>15, <1>16, <2>1
  <2> QED
    BY <1>6, <2>2 DEF ReviewsOK, VersionIsPosition
<1>18. ReviewIsAnnounced'
  <2> SUFFICES ASSUME NEW j \in Incidents, NEW n \in DOMAIN reports'[j]
               PROVE  /\ <<"rca_ready", reports'[j][n].version>> \in notes'[j]
                      /\ reports'[j][n].review = "rejected"
                           => <<"escalation", "rca_rejected">> \in notes'[j]
    BY DEF ReviewIsAnnounced
  <2>1. CASE j # i
    BY <1>6, <2>1 DEF ReviewsOK, ReviewIsAnnounced
  <2>2. CASE j = i /\ n \in 1 .. L
    <3>1. /\ <<"rca_ready", reports[i][n].version>> \in notes[i]
          /\ reports[i][n].review = "rejected" => <<"escalation", "rca_rejected">> \in notes[i]
      <4>1. n \in DOMAIN reports[i]
        BY <1>1, <2>2
      <4> QED
        BY <1>1, <4>1 DEF ReviewsOK, ReviewIsAnnounced
    <3>2. x.set = "rejected" => <<"escalation", "rca_rejected">> \in notes'[i]
      BY <1>1, <1>4, <1>6 DEF Proc, NoteFacts
    <3>3. reports'[j] = Revised(s) /\ notes[i] \subseteq notes'[i]
      BY <1>1, <1>6, <1>12, <2>2
    <3> QED
      BY <1>9, <2>2, <3>1, <3>2, <3>3
  <2>3. CASE j = i /\ n \notin 1 .. L
    <3>1. reports'[j] = Revised(s) /\ notes'[j] = notes[j] \cup x.notes
      BY <1>6, <2>3
    <3>2. x.add # 0 /\ n = L + 1
      <4>1. DOMAIN Revised(s) = 1 .. Len(Revised(s))
        <5>1. Revised(s) \in Seq(Report)
          BY <1>8
        <5> QED
          BY <5>1
      <4> QED
        BY <1>16, <2>3, <3>1, <4>1
    <3>3. <<"rca_ready", x.add>> \in notes'[i]
      BY <1>1, <1>4, <2>3, <3>1, <3>2 DEF NoteFacts
    <3> QED
      BY <1>9, <1>15, <2>3, <3>1, <3>2, <3>3
  <2> QED
    BY <2>1, <2>2, <2>3
<1> QED
  BY <1>11, <1>13, <1>14, <1>17, <1>18 DEF ReviewsOK

---------------------------------------------------------------------------
(* The invariant, and what it says of the stored reports.                  *)

(* ReviewInv holds in the initial states.                                  *)
LEMMA ReviewInitInv == Init => ReviewInv
<1> SUFFICES ASSUME Init PROVE ReviewInv
  OBVIOUS
<1> DEFINE opened == [Absent EXCEPT !.state = OPEN]
<1>1. opened \in Row /\ opened.state = OPEN /\ opened.fp = NoFingerprint /\ opened.history = {}
  BY AbsentType, StatesAreDistinct DEF Row, Absent
<1>2. /\ rows = [i \in Incidents |-> opened] /\ tx = [s \in Sessions |-> IdleTx]
      /\ published = Incidents
  BY DEF Init
<1> HIDE DEF opened
<1>3. \A i \in Incidents : rows[i] = opened
  BY <1>2
<1>4. \A s \in Sessions : tx[s] = IdleTx
  BY <1>2
<1>5. OPEN # ABSENT
  BY StatesAreDistinct
<1>6. AllExist
  BY <1>1, <1>3, <1>5 DEF AllExist, Exists
<1>7. StoreTypeOK
  BY <1>1, <1>2, IdleType DEF StoreTypeOK
<1>8. UniqueOpenFingerprint /\ PublishedIsCommitted /\ AbsentIsEmpty
      /\ \A i \in Incidents : Recorded(rows[i])
  BY <1>1, <1>2, <1>3, <1>6, NoFingerprintAssumption
     DEF UniqueOpenFingerprint, PublishedIsCommitted, AbsentIsEmpty, Recorded, Indexed, AllExist
<1>9. RowLocks /\ KeyVsRows /\ KeyVsFlushed /\ ReadExists /\ EntityRecorded /\ FlushedRow
  BY <1>4, IdleType DEF RowLocks, KeyVsRows, KeyVsFlushed, ReadExists, EntityRecorded, FlushedRow,
                        Flushed
<1>10. StoreInv
  BY <1>7, <1>8, <1>9 DEF StoreInv
<1>11. ReviewShapes
  <2>1. <<>> \in Seq(Report) /\ NoRow \in Progress \cup {NoRow} /\ {} \in SUBSET Note
    OBVIOUS
  <2> QED
    BY <2>1, NoReviewType DEF Init, ReviewShapes
<1>12. \A i \in Incidents : reports[i] = <<>>
  BY DEF Init
<1>13. \A s \in Sessions : rv[s] = NoReview
  BY DEF Init
<1>14. VersionIsPosition /\ ReviewIsAnnounced
  BY <1>12 DEF VersionIsPosition, ReviewIsAnnounced
<1>15. OneInserted /\ \A s \in Sessions : SessionOK(rv[s])
  BY <1>13, NoReviewFields, NoReviewOK DEF OneInserted, Inserted
<1> QED
  BY <1>6, <1>10, <1>11, <1>14, <1>15 DEF ReviewInv, ReviewsOK

(* A step that leaves the reviews alone.                                   *)
LEMMA ReviewStutter ==
  ASSUME ReviewsOK, UNCHANGED <<rv, reports, progress, notes, claims>>
  PROVE  ReviewsOK'
<1>1. ReviewShapes' /\ VersionIsPosition' /\ ReviewIsAnnounced'
  BY DEF ReviewsOK, ReviewShapes, VersionIsPosition, ReviewIsAnnounced
<1>2. OneInserted'
  BY DEF ReviewsOK, OneInserted, Inserted
<1>3. ASSUME NEW s \in Sessions PROVE SessionOK(rv[s])'
  <2>1. Proc(rv[s])'
    <3>1. Proc(rv'[s])
      BY SessionFacts
    <3> QED
      BY <3>1 DEF Proc
  <2>2. ReportFacts(rv[s])' /\ NoteFacts(rv[s])' /\ ProgressFacts(rv[s])'
    BY SessionFacts DEF ReportFacts, NoteFacts, ProgressFacts, Inserted
  <2> QED
    BY <2>1, <2>2 DEF SessionOK
<1> QED
  BY <1>1, <1>2, <1>3 DEF ReviewsOK

(* Every step preserves ReviewInv.                                         *)
LEMMA ReviewsStay ==
  ASSUME ReviewInv, [Next]_vars
  PROVE  ReviewInv'
<1> USE DEF ReviewInv
<1>0. ReviewShapes
  BY DEF ReviewsOK
<1>1. StoreInv' /\ AllExist'
  BY <1>0, StoreStays
<1>2. ASSUME NEW s \in ApiSessions, StoreStep(s) PROVE ReviewsOK'
  BY <1>2, ReviewStutter DEF StoreStep, reviewVars
<1>3. ASSUME NEW s \in ApiSessions, NEW i \in Incidents, NEW op \in Requests, ReadIncident(s, i, op)
      PROVE  ReviewsOK'
  BY <1>3, ReadIncidentStep DEF Sessions
<1>4. ASSUME NEW w \in Workers, NEW i \in Incidents, StartInvestigation(w, i) PROVE ReviewsOK'
  BY <1>4, StartInvestigationStep DEF Sessions
<1>5. ASSUME NEW w \in Workers, NEW o \in Outcomes, InvestigationEnds(w, o) PROVE ReviewsOK'
  BY <1>5, InvestigationEndsStep DEF Sessions
<1>6. ASSUME NEW s \in Sessions, ReviewStep(s) PROVE ReviewsOK'
  BY <1>6, ReadReportsStep, ReadProgressStep, SaveReportStep, AcceptIncidentStep, ReviewStutter,
     InsertReportStep, LoadProgressStep, FlushProgressStep DEF ReviewStep, SaveIncident, reviewVars
<1>7. ASSUME NEW s \in Sessions, RollbackReview(s) PROVE ReviewsOK'
  BY <1>7, SessionEnds DEF RollbackReview
<1>8. CASE UNCHANGED vars
  <2>1. UNCHANGED <<rv, reports, progress, notes, claims>>
    BY <1>8 DEF vars
  <2> QED
    BY <1>1, <2>1, ReviewStutter
<1>9. ReviewsOK'
  BY <1>2, <1>3, <1>4, <1>5, <1>6, <1>7, <1>8, NotifyStep, CommitReviewStep DEF Next, WorkStep
<1> QED
  BY <1>1, <1>9

(* Reviews, the worker's transaction and the other requests keep the       *)
(* invariant of the incidents table and that of the sessions.              *)
THEOREM ReviewInvariance == Spec => []ReviewInv
<1>1. Init => ReviewInv
  BY ReviewInitInv
<1>2. ReviewInv /\ [Next]_vars => ReviewInv'
  BY ReviewsStay
<1> QED
  BY <1>1, <1>2, PTL DEF Spec

(* Every row, session and notification keeps the shape the code gives it.  *)
THEOREM ReviewTypeCorrect == Spec => []ReviewTypeOK
<1>1. ReviewInv => ReviewTypeOK
  BY DEF ReviewInv, ReviewsOK, ReviewShapes, ReviewTypeOK, StoreInv
<1> QED
  BY <1>1, ReviewInvariance, PTL

(* amend: the stored versions of an RCA are 1, 2, ... without a gap or a   *)
(* second row of one version, whoever amends from the same latest version. *)
THEOREM VersionsStaySequential == Spec => []VersionsAreSequential
<1>1. ReviewInv => VersionsAreSequential
  <2> SUFFICES ASSUME ReviewInv, NEW i \in Incidents
               PROVE  {reports[i][n].version : n \in DOMAIN reports[i]} = 1 .. Len(reports[i])
    BY DEF VersionsAreSequential
  <2>1. reports[i] \in Seq(Report)
    BY DEF ReviewInv, ReviewsOK, ReviewShapes
  <2>2. DOMAIN reports[i] = 1 .. Len(reports[i])
    BY <2>1
  <2>3. \A n \in 1 .. Len(reports[i]) : reports[i][n].version = n
    BY DEF ReviewInv, ReviewsOK, VersionIsPosition
  <2> QED
    BY <2>2, <2>3, Zenon
<1> QED
  BY <1>1, ReviewInvariance, PTL

(* notify_best_effort: every stored version and every rejection has been   *)
(* announced by a notification of its own.                                 *)
THEOREM ReviewsAreAnnounced == Spec => []ReviewIsAnnounced
<1>1. ReviewInv => ReviewIsAnnounced
  BY DEF ReviewInv, ReviewsOK
<1> QED
  BY <1>1, ReviewInvariance, PTL

(* Two open incidents never share a fingerprint, also while the worker and *)
(* the reviewers save incidents of their own.                              *)
THEOREM ReviewsKeepFingerprints == Spec => []UniqueOpenFingerprint
<1>1. ReviewInv => UniqueOpenFingerprint
  BY DEF ReviewInv, StoreInv
<1> QED
  BY <1>1, ReviewInvariance, PTL

---------------------------------------------------------------------------
(* Where the states, reviews and progress that a session carries come from.*)

HasReviewed(i) == \E n \in DOMAIN reports[i] : reports[i][n].review # "pending_review"

(* What a use case has found before it goes on: a reviewer a report, and   *)
(* accept and reject one that is reviewed or that they will set; a worker  *)
(* an event nobody has consumed.  The entity that is to be saved waits for *)
(* a review, or tells of a rejection, only if there is one.                *)
Course(x) ==
  /\ x.op \in Reviews /\ x.pc # "reports" => reports[x.id] # <<>>
  /\ x.op \in {"accept", "reject"} /\ x.pc # "reports" => x.set # "" \/ HasReviewed(x.id)
  /\ x.op = "investigate" => x.id \notin claims
  /\ x.save.status = "pending_review" => reports[x.id] # <<>> \/ x.add # 0
  /\ x.save.reason = "rca_rejected" => HasReviewed(x.id) \/ x.op = "reject"
  /\ x.op = "reject" /\ x.pc = "ready" => x.stored
  /\ x.stored => x.op \notin {"accept", "amend"}

OneWorker ==
  /\ \A s \in Sessions : rv[s].op = "investigate" => s \in Workers
  /\ \A s, t \in Sessions :
       s # t /\ rv[s].op = "investigate" /\ rv[t].op = "investigate" => rv[s].id # rv[t].id

(* The progress row waits for a review only of a stored report, and tells  *)
(* of a rejection only if a report has been reviewed.                      *)
ProgressHasItsReport ==
  \A i \in Incidents :
    /\ progress[i].status = "pending_review" => reports[i] # <<>>
    /\ progress[i].reason = "rca_rejected" => HasReviewed(i)

CourseInv == (\A s \in Sessions : Course(rv[s])) /\ OneWorker /\ ProgressHasItsReport

(* An incident moves to state T only by use case op.                       *)
StateFrom(T, op) ==
  \A s \in Sessions :
    /\ tx[s].pc \in {"read", "load"} /\ tx[s].state = T => rv[s].op = op /\ rv[s].id = tx[s].id
    /\ Flushed(s) /\ tx[s].row.state = T =>
         rows[tx[s].id].state = T \/ (rv[s].op = op /\ rv[s].id = tx[s].id)

(* What a session other than the worker's knows of the progress: once it   *)
(* has seen it past pending_review, it stays so, and it saves nothing that *)
(* reads pending_review itself.  The worker's is the first row.            *)
Passed(x) ==
  /\ x.op \in Controls => x.id \in claims
  /\ x.op # "investigate" /\ x.prog # NoRow /\ x.prog.status # "pending_review"
       => progress[x.id].status # "pending_review"
  /\ x.op # "investigate" /\ x.base # NoRow /\ x.base.status # "pending_review"
       => progress[x.id].status # "pending_review"
  /\ x.op # "investigate" => x.save.status # "pending_review"
  /\ x.op = "investigate" => x.prog = NoRow /\ x.base = NoRow
                             /\ (x.save.status = "pending_review" => ~x.save.paused)

PassedInv ==
  /\ \A s \in Sessions : Passed(rv[s])
  /\ \A i \in Incidents :
       /\ reports[i] # <<>> \/ progress[i] # NoRow \/ rows[i].state = INVESTIGATING => i \in claims
       /\ progress[i].status = "pending_review" => ~progress[i].paused
  /\ RejectedIsNotPending

---------------------------------------------------------------------------
(* The state of an incident.                                               *)

(* The states that are told apart below.                                   *)
LEMMA StatesDiffer ==
  /\ OPEN # INVESTIGATING /\ OPEN # IDENTIFIED /\ INVESTIGATING # IDENTIFIED
  /\ OPEN # ABSENT /\ INVESTIGATING # ABSENT /\ IDENTIFIED # ABSENT
BY DEF OPEN, INVESTIGATING, IDENTIFIED, ABSENT

(* Session s has moved; the others hold what they held, and a row that one *)
(* of them has flushed is not written by s, which would wait for its lock. *)
LEMMA StateFromMoves ==
  ASSUME StoreInv, NEW T, NEW op, StateFrom(T, op), NEW s \in Sessions,
         \A t \in Sessions \ {s} : tx'[t] = tx[t] /\ rv'[t] = rv[t],
         rows' = rows \/ (Flushed(s) /\ CommitRow(s)),
         tx'[s].pc \in {"read", "load"} /\ tx'[s].state = T =>
           rv'[s].op = op /\ rv'[s].id = tx'[s].id,
         tx'[s].pc = "flushed" /\ tx'[s].row.state = T =>
           rows'[tx'[s].id].state = T \/ (rv'[s].op = op /\ rv'[s].id = tx'[s].id)
  PROVE  StateFrom(T, op)'
<1> SUFFICES ASSUME NEW t \in Sessions
             PROVE  /\ tx'[t].pc \in {"read", "load"} /\ tx'[t].state = T =>
                         rv'[t].op = op /\ rv'[t].id = tx'[t].id
                    /\ tx'[t].pc = "flushed" /\ tx'[t].row.state = T =>
                         rows'[tx'[t].id].state = T \/ (rv'[t].op = op /\ rv'[t].id = tx'[t].id)
  BY DEF StateFrom, Flushed
<1>1. CASE t = s
  BY <1>1
<1>2. CASE t # s
  <2>1. tx'[t] = tx[t] /\ rv'[t] = rv[t]
    BY <1>2
  <2>2. Flushed(t) => rows'[tx[t].id] = rows[tx[t].id]
    <3>1. Flushed(s) /\ Flushed(t) => tx[s].id # tx[t].id
      BY <1>2 DEF StoreInv, RowLocks
    <3>2. rows \in [Incidents -> Row] /\ tx[t].id \in Incidents
      BY DEF StoreInv, StoreTypeOK, Tx
    <3> QED
      BY <3>1, <3>2 DEF CommitRow
  <2> QED
    BY <2>1, <2>2 DEF StateFrom, Flushed
<1> QED
  BY <1>1, <1>2

(* The repository's save.                                                  *)
LEMMA SaveKeepsStateFrom ==
  ASSUME StoreInv, NEW T, NEW op, StateFrom(T, op), NEW s \in Sessions,
         Load(s) \/ FlushUpdate(s), rv' = rv
  PROVE  StateFrom(T, op)'
<1>1. tx \in [Sessions -> Tx] /\ tx[s] \in Tx /\ IdleTx \in Tx /\ tx[s].id \in Incidents
  BY IdleType DEF StoreInv, StoreTypeOK, Tx
<1>2. CASE Load(s)
  <2>1. PICK b \in {tx[s].seen, rows[tx[s].id].state} :
          tx' = [tx EXCEPT ![s] = [IdleTx EXCEPT !.pc = "load", !.id = tx[s].id,
                                   !.state = tx[s].state, !.steps = tx[s].steps, !.base = b]]
    BY <1>2 DEF Load
  <2> DEFINE r == [IdleTx EXCEPT !.pc = "load", !.id = tx[s].id, !.state = tx[s].state,
                                 !.steps = tx[s].steps, !.base = b]
  <2>2. r.pc = "load" /\ r.id = tx[s].id /\ r.state = tx[s].state
    BY <1>1 DEF Tx
  <2>3. \A t \in Sessions : tx'[t] = IF t = s THEN r ELSE tx[t]
    BY <1>1, <2>1
  <2> HIDE DEF r
  <2>4. rows' = rows /\ tx[s].pc = "read"
    BY <1>2 DEF Load
  <2> QED
    BY <2>2, <2>3, <2>4, StateFromMoves DEF StateFrom
<1>3. CASE FlushUpdate(s)
  <2> DEFINE u == UpdatedRow(s)
             r == [IdleTx EXCEPT !.pc = "flushed", !.id = tx[s].id, !.row = u]
  <2>1. tx' = [tx EXCEPT ![s] = r] /\ rows' = rows /\ tx[s].pc = "load"
    BY <1>3 DEF FlushUpdate
  <2>2. u.state = tx[s].state \/ u.state = rows[tx[s].id].state
    BY DEF UpdatedRow
  <2> HIDE DEF u
  <2>3. r.pc = "flushed" /\ r.id = tx[s].id /\ r.row = u
    BY <1>1 DEF Tx
  <2>4. \A t \in Sessions : tx'[t] = IF t = s THEN r ELSE tx[t]
    BY <1>1, <2>1
  <2> HIDE DEF r
  <2>5. r.row.state = T => rows'[r.id].state = T \/ (rv'[s].op = op /\ rv'[s].id = r.id)
    BY <2>1, <2>2, <2>3 DEF StateFrom
  <2>6. tx'[s] = r /\ \A t \in Sessions \ {s} : tx'[t] = tx[t] /\ rv'[t] = rv[t]
    BY <2>4
  <2>7. r.pc \notin {"read", "load"}
    BY <2>3
  <2> QED
    BY <2>1, <2>5, <2>6, <2>7, StateFromMoves
<1> QED
  BY <1>2, <1>3

(* A request can take an incident only to a state that clients ask for.    *)
LEMMA RequestKeepsStateFrom ==
  ASSUME StoreInv, NEW T, NEW op, StateFrom(T, op), T \notin Targets, T # OPEN,
         NEW s \in ApiSessions, RequestStep(s) \/ PublishOpened(s), rv' = rv
  PROVE  StateFrom(T, op)'
<1>1. s \in Sessions /\ tx \in [Sessions -> Tx] /\ IdleTx \in Tx /\ IdleTx.state = OPEN
      /\ IdleTx.pc = "idle"
  BY IdleType DEF StoreInv, StoreTypeOK, Sessions
<1>2. ASSUME NEW r \in Tx, tx' = [tx EXCEPT ![s] = r], rows' = rows \/ (Flushed(s) /\ CommitRow(s)),
             r.pc \in {"read", "load"} => r.state # T, r.pc = "flushed" => r.row.state # T
      PROVE  StateFrom(T, op)'
  <2>1. \A t \in Sessions : tx'[t] = IF t = s THEN r ELSE tx[t]
    BY <1>1, <1>2
  <2> QED
    BY <1>1, <1>2, <2>1, StateFromMoves
<1>3. ASSUME NEW i \in Incidents, NEW f, FlushInsert(s, i, f), f \in Fingerprints \cup {NoFingerprint}
      PROVE  StateFrom(T, op)'
  <2> DEFINE n == [state |-> OPEN, fp |-> f, history |-> {}]
             r == [IdleTx EXCEPT !.pc = "flushed", !.id = i, !.row = n, !.created = TRUE]
  <2>1. n \in Row /\ n.state = OPEN
    BY <1>3, StatesAreDistinct DEF Row
  <2>2. tx' = [tx EXCEPT ![s] = r] /\ rows' = rows
    BY <1>3 DEF FlushInsert
  <2> HIDE DEF n
  <2>3. r \in Tx
    BY <1>1, <2>1, ZenonT(60) DEF Tx
  <2>4. r.pc = "flushed" /\ r.row = n
    BY <1>1 DEF Tx
  <2> HIDE DEF r
  <2> QED
    BY <1>2, <2>1, <2>2, <2>3, <2>4
<1>4. ASSUME NEW i \in Incidents, NEW f \in Fingerprints, IngestFound(s, i, f)
      PROVE  StateFrom(T, op)'
  <2> DEFINE r == [IdleTx EXCEPT !.pc = "read", !.id = i]
  <2>1. tx' = [tx EXCEPT ![s] = r] /\ rows' = rows
    BY <1>4 DEF IngestFound
  <2>2. r \in Tx
    BY <1>1, ZenonT(60) DEF Tx
  <2>3. r.pc = "read" /\ r.state = OPEN
    BY <1>1 DEF Tx
  <2> HIDE DEF r
  <2> QED
    BY <1>2, <2>1, <2>2, <2>3
<1>5. ASSUME NEW f \in Fingerprints, IngestNotFound(s, f) PROVE StateFrom(T, op)'
  <2> DEFINE r == [IdleTx EXCEPT !.pc = "insert", !.fp = f]
  <2>1. tx' = [tx EXCEPT ![s] = r] /\ rows' = rows
    BY <1>5 DEF IngestNotFound
  <2>2. r \in Tx
    BY <1>1, ZenonT(60) DEF Tx
  <2>3. r.pc = "insert"
    BY <1>1 DEF Tx
  <2> HIDE DEF r
  <2> QED
    BY <1>2, <2>1, <2>2, <2>3
<1>6. ASSUME NEW i \in Incidents, NEW target \in Targets, PatchState(s, i, target)
      PROVE  StateFrom(T, op)'
  <2> DEFINE r == [IdleTx EXCEPT !.pc = "read", !.id = i, !.seen = rows[i].state,
                                 !.state = target, !.steps = {<<rows[i].state, target>>}]
  <2>1. tx' = [tx EXCEPT ![s] = r] /\ rows' = rows
    BY <1>6 DEF PatchState, ReadForTransition
  <2>2. r.pc = "read" /\ r.state = target
    BY <1>1 DEF Tx
  <2>3. \A t \in Sessions : tx'[t] = IF t = s THEN r ELSE tx[t]
    BY <1>1, <2>1
  <2> HIDE DEF r
  <2> QED
    BY <1>1, <2>1, <2>2, <2>3, StateFromMoves
<1>7. CASE Commit(s)
  <2> DEFINE r == IF tx[s].created THEN [IdleTx EXCEPT !.pc = "publish", !.id = tx[s].id] ELSE IdleTx
  <2>0. tx[s].id \in Incidents
    BY <1>1 DEF Tx
  <2>1. tx' = [tx EXCEPT ![s] = r] /\ Flushed(s) /\ CommitRow(s)
    BY <1>7 DEF Commit
  <2>2. [IdleTx EXCEPT !.pc = "publish", !.id = tx[s].id] \in Tx
    BY <1>1, <2>0, ZenonT(60) DEF Tx
  <2>3. r.pc \in {"idle", "publish"}
    BY <1>1 DEF Tx
  <2>4. r \in Tx
    BY <1>1, <2>2
  <2> HIDE DEF r
  <2> QED
    BY <1>2, <2>1, <2>3, <2>4
<1>8. CASE Rollback(s) \/ PublishOpened(s) \/ LoseOpened(s)
  <2>1. tx' = [tx EXCEPT ![s] = IdleTx] /\ rows' = rows
    BY <1>8 DEF Rollback, PublishOpened, LoseOpened
  <2> QED
    BY <1>1, <1>2, <2>1
<1>9. CASE Load(s) \/ FlushUpdate(s)
  BY <1>1, <1>9, SaveKeepsStateFrom
<1>10. \A i \in Incidents : PostIncident(s, i) \/ IngestInsert(s, i) => StateFrom(T, op)'
  <2>1. tx[s].fp \in Fingerprints \cup {NoFingerprint}
    BY <1>1 DEF Tx
  <2> QED
    BY <1>3, <2>1 DEF PostIncident, IngestInsert
<1> QED
  BY <1>4, <1>5, <1>6, <1>7, <1>8, <1>9, <1>10 DEF RequestStep

---------------------------------------------------------------------------
(* What the steps of a use case change in its session.                     *)

(* A step of one session.                                                  *)
LEMMA SessionUpdate ==
  ASSUME ReviewsOK, NEW s \in Sessions, NEW new, rv' = [rv EXCEPT ![s] = new]
  PROVE  rv'[s] = new /\ \A t \in Sessions \ {s} : rv'[t] = rv[t]
BY DEF ReviewsOK, ReviewShapes

(* The steps of a session that keep what it has decided.                   *)
LEMMA QuietFields ==
  ASSUME ReviewsOK, NEW s \in Sessions,
         InsertReport(s) \/ LoadProgress(s) \/ FlushProgress(s) \/ Notify(s) \/ AcceptIncident(s)
  PROVE  /\ \A t \in Sessions \ {s} : rv'[t] = rv[t]
         /\ rv'[s].op = rv[s].op /\ rv'[s].id = rv[s].id /\ rv'[s].set = rv[s].set
         /\ rv'[s].add = rv[s].add /\ rv'[s].save = rv[s].save
         /\ rv[s].pc # "reports" /\ rv'[s].pc # "reports"
         /\ UNCHANGED <<reports, progress, notes, claims>>
         /\ rv'[s].stored = rv[s].stored \/ (rv[s].pc = "flush" /\ rv'[s].stored)
         /\ rv'[s].op = "reject" /\ rv'[s].pc = "ready" => rv'[s].stored
         /\ rv'[s].prog = rv[s].prog \/ rv'[s].prog = NoRow
         /\ rv'[s].base = rv[s].base \/ (rv'[s].base \in {rv[s].prog, progress[rv[s].id]})
<1> DEFINE x == rv[s]
<1>1. rv \in [Sessions -> Review] /\ x \in Review /\ Proc(x)
  BY SessionFacts
<1>2. CASE InsertReport(s)
  <2> DEFINE new == [x EXCEPT !.pc = "notify"]
  <2>1. rv' = [rv EXCEPT ![s] = new] /\ x.pc = "insert" /\ UNCHANGED <<reports, progress, notes, claims>>
    BY <1>1, <1>2 DEF InsertReport
  <2>2. /\ new.op = x.op /\ new.id = x.id /\ new.set = x.set /\ new.add = x.add /\ new.save = x.save
        /\ new.pc = "notify" /\ new.stored = x.stored /\ new.prog = x.prog /\ new.base = x.base
    BY <1>1 DEF Review
  <2> HIDE DEF new
  <2> QED
    BY <2>1, <2>2, SessionUpdate
<1>3. CASE LoadProgress(s)
  <2>0. PICK b \in {x.prog, progress[x.id]} :
          rv' = [rv EXCEPT ![s].pc = "flush", ![s].prog = NoRow, ![s].base = b]
    BY <1>3 DEF LoadProgress
  <2> DEFINE new == [x EXCEPT !.pc = "flush", !.prog = NoRow, !.base = b]
  <2>1. rv' = [rv EXCEPT ![s] = new] /\ x.pc = "load" /\ UNCHANGED <<reports, progress, notes, claims>>
    BY <1>1, <1>3, <2>0 DEF LoadProgress
  <2>2. /\ new.op = x.op /\ new.id = x.id /\ new.set = x.set /\ new.add = x.add /\ new.save = x.save
        /\ new.pc = "flush" /\ new.stored = x.stored /\ new.prog = NoRow /\ new.base = b
    BY <1>1 DEF Review
  <2> HIDE DEF new
  <2> QED
    BY <2>0, <2>1, <2>2, SessionUpdate
<1>4. CASE FlushProgress(s)
  <2> DEFINE pc == IF x.op \in Controls \/ x.save.reason = "" THEN "ready" ELSE "notify"
             new == [x EXCEPT !.pc = pc, !.stored = TRUE]
  <2>1. rv' = [rv EXCEPT ![s] = new] /\ x.pc = "flush" /\ UNCHANGED <<reports, progress, notes, claims>>
    BY <1>1, <1>4 DEF FlushProgress
  <2>2. pc # "reports"
    OBVIOUS
  <2> HIDE DEF pc
  <2>3. /\ new.op = x.op /\ new.id = x.id /\ new.set = x.set /\ new.add = x.add /\ new.save = x.save
        /\ new.pc = pc /\ new.stored = TRUE /\ new.prog = x.prog /\ new.base = x.base
    BY <1>1 DEF Review
  <2> HIDE DEF new
  <2> QED
    BY <2>1, <2>2, <2>3, SessionUpdate
<1>5. CASE Notify(s)
  <2> DEFINE n == NoteDue(s)
             pc == IF x.op = "investigate" /\ ~x.stored THEN "load" ELSE "ready"
  <2>1. PICK more : rv' = [rv EXCEPT ![s] = [x EXCEPT !.pc = pc, !.notes = more]]
    <3>1. rv' = IF n \in notes[x.id] THEN [rv EXCEPT ![s].pc = pc]
                                     ELSE [rv EXCEPT ![s].pc = pc, ![s].notes = @ \cup {n}]
      BY <1>5, ZenonT(60) DEF Notify
    <3> HIDE DEF pc, n
    <3>2. [x EXCEPT !.pc = pc, !.notes = x.notes] = [x EXCEPT !.pc = pc]
      BY <1>1 DEF Review
    <3>3. CASE n \in notes[x.id]
      <4>1. rv' = [rv EXCEPT ![s] = [x EXCEPT !.pc = pc, !.notes = x.notes]]
        BY <1>1, <3>1, <3>2, <3>3
      <4> QED
        BY <4>1
    <3>4. CASE n \notin notes[x.id]
      <4>1. rv' = [rv EXCEPT ![s] = [x EXCEPT !.pc = pc, !.notes = x.notes \cup {n}]]
        BY <1>1, <3>1, <3>4
      <4> QED
        BY <4>1
    <3> QED
      BY <3>3, <3>4
  <2> DEFINE new == [x EXCEPT !.pc = pc, !.notes = more]
  <2>2. x.pc = "notify" /\ UNCHANGED <<reports, progress, notes, claims>>
    BY <1>5 DEF Notify
  <2>3. pc # "reports"
    OBVIOUS
  <2> HIDE DEF pc
  <2>4. /\ new.op = x.op /\ new.id = x.id /\ new.set = x.set /\ new.add = x.add /\ new.save = x.save
        /\ new.pc = pc /\ new.stored = x.stored /\ new.prog = x.prog /\ new.base = x.base
    BY <1>1 DEF Review
  <2>5. rv' = [rv EXCEPT ![s] = new]
    BY <2>1
  <2> HIDE DEF new
  <2>6. x.op = "reject" => x.stored
    BY <1>1, <2>2 DEF Proc
  <2> QED
    BY <2>2, <2>3, <2>4, <2>5, <2>6, SessionUpdate
<1>6. CASE AcceptIncident(s)
  <2> DEFINE pc == IF x.seen = INVESTIGATING THEN "saving" ELSE "ready"
             new == [x EXCEPT !.pc = pc, !.seen = OPEN]
  <2>1. rv' = [rv EXCEPT ![s] = new] /\ x.pc = "incident" /\ UNCHANGED <<reports, progress, notes, claims>>
    BY <1>1, <1>6 DEF AcceptIncident
  <2>2. pc # "reports" /\ x.op = "accept"
    BY <1>1, <2>1 DEF Proc, Review, Reviews, Controls
  <2> HIDE DEF pc
  <2>3. /\ new.op = x.op /\ new.id = x.id /\ new.set = x.set /\ new.add = x.add /\ new.save = x.save
        /\ new.pc = pc /\ new.stored = x.stored /\ new.prog = x.prog /\ new.base = x.base
    BY <1>1 DEF Review
  <2> HIDE DEF new
  <2> QED
    BY <2>1, <2>2, <2>3, SessionUpdate
<1> QED
  BY <1>2, <1>3, <1>4, <1>5, <1>6

(* What reading the reports decides.                                       *)
LEMMA ReadReportsFields ==
  ASSUME ReviewsOK, NEW s \in Sessions, ReadReports(s)
  PROVE  /\ \A t \in Sessions \ {s} : rv'[t] = rv[t]
         /\ rv'[s].op = rv[s].op /\ rv'[s].id = rv[s].id /\ rv'[s].save = rv[s].save
         /\ rv'[s].stored = rv[s].stored /\ rv'[s].prog = rv[s].prog /\ rv'[s].base = rv[s].base
         /\ rv'[s].pc # "ready"
         /\ reports[rv[s].id] # <<>> /\ UNCHANGED <<reports, progress, notes, claims>>
         /\ rv[s].op \in {"accept", "reject"} =>
              rv'[s].set # "" \/ HasReviewed(rv[s].id)
<1> DEFINE x == rv[s]
           i == x.id
           k == Latest(i)
           target == IF x.op = "accept" THEN "accepted" ELSE "rejected"
           after == IF x.op = "accept" THEN "incident" ELSE "progress"
<1>1. rv \in [Sessions -> Review] /\ x \in Review /\ i \in Incidents
  BY SessionFacts
<1>2. reports[i] # <<>> /\ UNCHANGED <<reports, progress, notes, claims>>
      /\ Decided(s, k, reports[i][k])
  BY DEF ReadReports
<1>3. k \in DOMAIN reports[i]
  <2>1. reports[i] \in Seq(Report) /\ k \in 1 .. Len(reports[i])
    BY <1>1, <1>2, LatestIsLast DEF ReviewsOK, ReviewShapes
  <2> QED
    BY <2>1
<1> HIDE DEF k
<1>4. CASE x.op = "amend"
  <2> DEFINE new == [x EXCEPT !.pc = "insert", !.add = reports[i][k].version + 1]
  <2>1. rv' = [rv EXCEPT ![s] = new]
    BY <1>1, <1>2, <1>4 DEF Decided
  <2>2. /\ new.op = x.op /\ new.id = x.id /\ new.save = x.save /\ new.stored = x.stored
        /\ new.prog = x.prog /\ new.base = x.base /\ new.pc = "insert"
    BY <1>1 DEF Review
  <2> HIDE DEF new
  <2> QED
    BY <1>2, <1>4, <2>1, <2>2, SessionUpdate
<1>5. CASE x.op # "amend" /\ reports[i][k].review = target
  <2> DEFINE new == [x EXCEPT !.pc = after]
  <2>1. rv' = [rv EXCEPT ![s] = new]
    BY <1>1, <1>2, <1>5 DEF Decided
  <2>2. after # "ready"
    OBVIOUS
  <2> HIDE DEF after
  <2>3. /\ new.op = x.op /\ new.id = x.id /\ new.save = x.save /\ new.stored = x.stored
        /\ new.prog = x.prog /\ new.base = x.base /\ new.pc = after
    BY <1>1 DEF Review
  <2>4. HasReviewed(i)
    BY <1>3, <1>5 DEF HasReviewed
  <2> HIDE DEF new
  <2> QED
    BY <1>2, <2>1, <2>2, <2>3, <2>4, SessionUpdate
<1>6. CASE x.op # "amend" /\ reports[i][k].review # target
  <2> DEFINE new == [x EXCEPT !.pc = "report", !.pos = k, !.set = target]
  <2>1. rv' = [rv EXCEPT ![s] = new]
    BY <1>1, <1>2, <1>6 DEF Decided
  <2>2. target # ""
    OBVIOUS
  <2> HIDE DEF target
  <2>3. /\ new.op = x.op /\ new.id = x.id /\ new.save = x.save /\ new.stored = x.stored
        /\ new.prog = x.prog /\ new.base = x.base /\ new.pc = "report" /\ new.set = target
    BY <1>1 DEF Review
  <2> HIDE DEF new
  <2> QED
    BY <1>2, <2>1, <2>2, <2>3, SessionUpdate
<1> QED
  BY <1>4, <1>5, <1>6

(* A progress row, or the one created in its place, is paused or not.      *)
LEMMA PausedIsBoolean ==
  ASSUME ReviewsOK, NEW i \in Incidents
  PROVE  orCreate(progress[i]).paused \in BOOLEAN
<1>1. progress[i] \in Progress \cup {NoRow}
  BY DEF ReviewsOK, ReviewShapes
<1> QED
  BY <1>1 DEF orCreate, ProgressRow, Progress

(* What is saved: a rejection, or what was read with the pause set.        *)
LEMMA ReadProgressFields ==
  ASSUME ReviewsOK, NEW s \in Sessions, ReadProgress(s)
  PROVE  /\ \A t \in Sessions \ {s} : rv'[t] = rv[t]
         /\ rv'[s].op = rv[s].op /\ rv'[s].id = rv[s].id /\ rv'[s].set = rv[s].set
         /\ rv'[s].add = rv[s].add /\ rv'[s].stored = rv[s].stored /\ rv'[s].base = rv[s].base
         /\ UNCHANGED <<reports, progress, notes, claims>>
         /\ rv[s].pc = "progress" /\ rv'[s].pc # "reports" /\ rv[s].op \in Controls \cup {"reject"}
         /\ rv'[s].op = "reject" => rv'[s].pc # "ready"
         /\ rv'[s].prog = rv[s].prog \/ rv'[s].prog = progress[rv[s].id]
         /\ \/ rv'[s].save = rv[s].save
            \/ /\ rv'[s].save.status \in {"escalated", "paused", "running"}
                  \/ /\ rv'[s].save.status = orCreate(progress[rv[s].id]).status
                     /\ orCreate(progress[rv[s].id]).paused
               /\ rv'[s].save.reason = "rca_rejected" =>
                    rv[s].op = "reject" \/ progress[rv[s].id].reason = "rca_rejected"
<1> DEFINE x == rv[s]
           p == orCreate(progress[x.id])
           save == CASE x.op = "reject" -> with_rejection(p)
                     [] x.op = "pause"  -> with_pause(p, TRUE)
                     [] x.op = "resume" -> with_pause(p, FALSE)
           same == x.op \in Controls /\ p.paused = (x.op = "pause")
<1>1. rv \in [Sessions -> Review] /\ x \in Review /\ Proc(x)
  BY SessionFacts
<1>2. /\ x.pc = "progress" /\ UNCHANGED <<reports, progress, notes, claims>>
      /\ rv' = IF same THEN [rv EXCEPT ![s].pc = "ready"]
               ELSE [rv EXCEPT ![s].pc = "load", ![s].prog = progress[x.id], ![s].save = save]
  BY Zenon DEF ReadProgress
<1>3. x.op \in Controls \cup {"reject"}
  BY <1>1, <1>2 DEF Proc, Review, Reviews, Controls
<1>4. CASE same
  <2> DEFINE new == [x EXCEPT !.pc = "ready"]
  <2>1. rv' = [rv EXCEPT ![s] = new]
    BY <1>1, <1>2, <1>4
  <2>2. /\ new.op = x.op /\ new.id = x.id /\ new.save = x.save /\ new.stored = x.stored
        /\ new.prog = x.prog /\ new.base = x.base /\ new.pc = "ready" /\ new.set = x.set
        /\ new.add = x.add
    BY <1>1 DEF Review
  <2>3. x.op # "reject"
    BY <1>4 DEF Controls
  <2> HIDE DEF new, same
  <2>4. rv'[s] = new /\ \A t \in Sessions \ {s} : rv'[t] = rv[t]
    BY <2>1, SessionUpdate
  <2> QED
    BY <1>2, <1>3, <2>2, <2>3, <2>4
<1>5. CASE ~same
  <2>0. /\ x.op = "reject" => save = with_rejection(p)
        /\ x.op = "pause" => save = with_pause(p, TRUE)
        /\ x.op = "resume" => save = with_pause(p, FALSE)
    OBVIOUS
  <2>00. x.op \in {"reject", "pause", "resume"}
    BY <1>3 DEF Controls
  <2>1. x.op = "resume" => p.paused
    BY <1>1, <1>5, <2>00, PausedIsBoolean DEF Controls, Review
  <2>2. p.reason = "rca_rejected" => progress[x.id].reason = "rca_rejected"
    BY DEF orCreate, ProgressRow
  <2> HIDE DEF save, p, same
  <2>3. \/ save.status \in {"escalated", "paused", "running"}
        \/ save.status = p.status /\ p.paused
    BY <2>0, <2>00, <2>1 DEF with_rejection, with_pause, ProgressRow
  <2>4. save.reason = "rca_rejected" => x.op = "reject" \/ p.reason = "rca_rejected"
    BY <2>0, <2>00 DEF with_rejection, with_pause, ProgressRow
  <2> DEFINE new == [x EXCEPT !.pc = "load", !.prog = progress[x.id], !.save = save]
  <2>5. rv' = [rv EXCEPT ![s] = new]
    BY <1>1, <1>2, <1>5
  <2>6. /\ new.op = x.op /\ new.id = x.id /\ new.save = save /\ new.stored = x.stored
        /\ new.prog = progress[x.id] /\ new.base = x.base /\ new.pc = "load" /\ new.set = x.set
        /\ new.add = x.add
    BY <1>1 DEF Review
  <2> HIDE DEF new
  <2>7. rv'[s] = new /\ \A t \in Sessions \ {s} : rv'[t] = rv[t]
    BY <2>5, SessionUpdate
  <2>8. \/ new.save.status \in {"escalated", "paused", "running"}
        \/ new.save.status = p.status /\ p.paused
    BY <2>3, <2>6
  <2>9. new.save.reason = "rca_rejected" =>
          x.op = "reject" \/ progress[x.id].reason = "rca_rejected"
    BY <2>2, <2>4, <2>6
  <2>10. new.pc # "ready" /\ new.pc # "reports"
    BY <2>6
  <2> QED
    BY <1>2, <1>3, <2>6, <2>7, <2>8, <2>9, <2>10 DEF p
<1> QED
  BY <1>4, <1>5

(* What saving the report keeps of the session.                            *)
LEMMA SaveReportFields ==
  ASSUME ReviewsOK, NEW s \in Sessions, SaveReport(s)
  PROVE  /\ \A t \in Sessions \ {s} : rv'[t] = rv[t]
         /\ rv'[s].op = rv[s].op /\ rv'[s].id = rv[s].id /\ rv'[s].save = rv[s].save
         /\ rv'[s].add = rv[s].add /\ rv'[s].stored = rv[s].stored /\ rv'[s].base = rv[s].base
         /\ rv'[s].prog = rv[s].prog /\ UNCHANGED <<reports, progress, notes, claims>>
         /\ rv[s].pc # "reports" /\ rv'[s].pc \notin {"ready", "reports"}
         /\ rv'[s].set # "" \/ HasReviewed(rv[s].id)
<1> DEFINE x == rv[s]
           after == IF x.op = "accept" THEN "incident" ELSE "progress"
<1>1. /\ rv \in [Sessions -> Review] /\ x \in Review /\ Proc(x) /\ ReportFacts(x)
      /\ reports[x.id] \in Seq(Report)
  BY SessionFacts
<1>2. x.pc = "report" /\ UNCHANGED <<reports, progress, notes, claims>> /\ after \notin {"ready", "reports"}
  BY DEF SaveReport
<1>3. x.set \in {"accepted", "rejected"} /\ x.pos \in DOMAIN reports[x.id]
  <2>1. x.set \in {"accepted", "rejected"} /\ x.pos \in 1 .. Len(reports[x.id])
    BY <1>1, <1>2 DEF Proc, ReportFacts
  <2> QED
    BY <1>1, <2>1
<1>4. \/ rv' = [rv EXCEPT ![s] = [x EXCEPT !.pc = after]]
      \/ /\ rv' = [rv EXCEPT ![s] = [x EXCEPT !.pc = after, !.pos = 0, !.set = ""]]
         /\ reports[x.id][x.pos].review = x.set
  BY <1>1 DEF SaveReport
<1> HIDE DEF after
<1>5. CASE rv' = [rv EXCEPT ![s] = [x EXCEPT !.pc = after]]
  <2> DEFINE new == [x EXCEPT !.pc = after]
  <2>1. rv' = [rv EXCEPT ![s] = new]
    BY <1>5
  <2>2. /\ new.op = x.op /\ new.id = x.id /\ new.save = x.save /\ new.stored = x.stored
        /\ new.prog = x.prog /\ new.base = x.base /\ new.pc = after /\ new.set = x.set
        /\ new.add = x.add
    BY <1>1 DEF Review
  <2> HIDE DEF new
  <2> QED
    BY <1>2, <1>3, <2>1, <2>2, SessionUpdate
<1>6. CASE /\ rv' = [rv EXCEPT ![s] = [x EXCEPT !.pc = after, !.pos = 0, !.set = ""]]
           /\ reports[x.id][x.pos].review = x.set
  <2> DEFINE new == [x EXCEPT !.pc = after, !.pos = 0, !.set = ""]
  <2>1. rv' = [rv EXCEPT ![s] = new]
    BY <1>6
  <2>2. /\ new.op = x.op /\ new.id = x.id /\ new.save = x.save /\ new.stored = x.stored
        /\ new.prog = x.prog /\ new.base = x.base /\ new.pc = after /\ new.add = x.add
    BY <1>1 DEF Review
  <2>3. HasReviewed(x.id)
    BY <1>3, <1>6 DEF HasReviewed
  <2> HIDE DEF new
  <2> QED
    BY <1>2, <2>1, <2>2, <2>3, SessionUpdate
<1> QED
  BY <1>4, <1>5, <1>6

(* What a worker brings to its commit.                                     *)
LEMMA InvestigationEndsFields ==
  ASSUME ReviewsOK, NEW w \in Sessions, NEW o \in Outcomes, InvestigationEnds(w, o)
  PROVE  /\ \A t \in Sessions \ {w} : rv'[t] = rv[t]
         /\ rv[w].op = "investigate" /\ rv'[w].op = "investigate" /\ rv'[w].id = rv[w].id
         /\ rv'[w].stored = rv[w].stored /\ rv'[w].base = rv[w].base /\ rv'[w].prog = rv[w].prog
         /\ UNCHANGED <<reports, progress, notes, claims>>
         /\ rv'[w].save.reason # "rca_rejected"
         /\ rv'[w].save.status = "pending_review" => rv'[w].add # 0 /\ ~rv'[w].save.paused
<1> DEFINE x == rv[w]
           pc == IF o.report THEN "insert" ELSE "load"
           add == IF o.report THEN 1 ELSE 0
           new == [x EXCEPT !.pc = pc, !.add = add, !.save = o.save]
<1>1. rv \in [Sessions -> Review] /\ x \in Review
  BY SessionFacts
<1>2. /\ x.op = "investigate" /\ UNCHANGED <<reports, progress, notes, claims>>
      /\ rv' = [rv EXCEPT ![w] = new]
  BY <1>1 DEF InvestigationEnds
<1>3. /\ o.save.reason # "rca_rejected"
      /\ o.save.status = "pending_review" => add # 0 /\ ~o.save.paused
  <2> DEFINE a == ProgressRow("pending_review", "", FALSE)
             b == ProgressRow("escalated", "low_confidence", FALSE)
             c == ProgressRow("running", "dependency_failure", FALSE)
  <2>1. /\ a.paused = FALSE /\ a.reason = "" /\ b.reason = "low_confidence" /\ b.status = "escalated"
        /\ c.reason = "dependency_failure" /\ c.status = "running"
    BY DEF ProgressRow
  <2>2. o \in {[report |-> TRUE, save |-> a], [report |-> TRUE, save |-> b],
               [report |-> FALSE, save |-> c]}
    BY DEF Outcomes
  <2> HIDE DEF a, b, c
  <2>3. \/ o.report = TRUE /\ o.save = a
        \/ o.save = b \/ o.save = c
    BY <2>2
  <2>4. o.report = TRUE => add # 0
    OBVIOUS
  <2> HIDE DEF add
  <2>5. CASE o.report = TRUE /\ o.save = a
    BY <2>1, <2>4, <2>5, Zenon
  <2>6. CASE o.save = b
    BY <2>1, <2>6
  <2>7. CASE o.save = c
    BY <2>1, <2>7
  <2> QED
    BY <2>3, <2>5, <2>6, <2>7
<1> HIDE DEF pc, add
<1>4. /\ new.op = x.op /\ new.id = x.id /\ new.save = o.save /\ new.stored = x.stored
      /\ new.prog = x.prog /\ new.base = x.base /\ new.add = add
  BY <1>1 DEF Review
<1> HIDE DEF new
<1>5. rv'[w] = new /\ \A t \in Sessions \ {w} : rv'[t] = rv[t]
  BY <1>2, SessionUpdate
<1> QED
  BY <1>2, <1>3, <1>4, <1>5

---------------------------------------------------------------------------
(* Only accept identifies an incident and only the worker's transaction    *)
(* takes one under investigation, when no PATCH asks for that state.       *)
LEMMA StateFromStays ==
  ASSUME ReviewInv, NEW T, NEW op,
         \/ T = IDENTIFIED /\ op = "accept"
         \/ T = INVESTIGATING /\ op = "investigate",
         T \notin Targets, StateFrom(T, op), [Next]_vars
  PROVE  StateFrom(T, op)'
<1>0. T # OPEN /\ StoreInv /\ ReviewsOK
  BY StatesDiffer DEF ReviewInv
<1>1. tx \in [Sessions -> Tx] /\ IdleTx \in Tx /\ IdleTx.pc = "idle" /\ rv \in [Sessions -> Review]
  BY <1>0, IdleType DEF StoreInv, StoreTypeOK, ReviewsOK, ReviewShapes
<1>2. ASSUME NEW s \in ApiSessions, StoreStep(s) PROVE StateFrom(T, op)'
  BY <1>0, <1>2, RequestKeepsStateFrom DEF StoreStep, reviewVars
<1>3. ASSUME NEW s \in Sessions, \A t \in Sessions \ {s} : rv'[t] = rv[t], UNCHANGED <<rows, tx>>,
             tx[s].pc = "idle" \/ (rv'[s].op = rv[s].op /\ rv'[s].id = rv[s].id)
      PROVE  StateFrom(T, op)'
  BY <1>0, <1>3, StateFromMoves DEF StateFrom, Flushed
<1>4. ASSUME NEW s \in Sessions, tx' = [tx EXCEPT ![s] = IdleTx], rv' = [rv EXCEPT ![s] = NoReview],
             rows' = rows \/ (Flushed(s) /\ CommitRow(s))
      PROVE  StateFrom(T, op)'
  <2>1. \A t \in Sessions : /\ rv'[t] = IF t = s THEN NoReview ELSE rv[t]
                            /\ tx'[t] = IF t = s THEN IdleTx ELSE tx[t]
    BY <1>1, <1>4
  <2> QED
    BY <1>0, <1>1, <1>4, <2>1, StateFromMoves
<1>5. ASSUME NEW s \in ApiSessions, NEW i \in Incidents, NEW o \in Requests, ReadIncident(s, i, o)
      PROVE  StateFrom(T, op)'
  <2>1. s \in Sessions /\ tx[s].pc = "idle" /\ UNCHANGED <<rows, tx>>
    BY <1>5 DEF ReadIncident, Free, Sessions
  <2>2. \A t \in Sessions \ {s} : rv'[t] = rv[t]
    BY <1>1, <1>5 DEF ReadIncident
  <2> QED
    BY <1>3, <2>1, <2>2
<1>6. ASSUME NEW w \in Workers, NEW i \in Incidents, StartInvestigation(w, i)
      PROVE  StateFrom(T, op)'
  <2> DEFINE r == [IdleTx EXCEPT !.pc = "read", !.id = i, !.seen = rows[i].state,
                                 !.state = INVESTIGATING, !.steps = {<<rows[i].state, INVESTIGATING>>}]
             new == [NoReview EXCEPT !.op = "investigate", !.pc = "saving", !.id = i]
  <2>1. tx' = [tx EXCEPT ![w] = r] /\ rows' = rows /\ rv' = [rv EXCEPT ![w] = new] /\ w \in Sessions
    BY <1>6 DEF StartInvestigation, ReadForTransition, Sessions
  <2>2. r.pc = "read" /\ r.state = INVESTIGATING /\ r.id = i
    BY <1>1 DEF Tx
  <2>3. new.op = "investigate" /\ new.id = i
    BY NoReviewType DEF Review
  <2> HIDE DEF r, new
  <2>4. \A t \in Sessions : /\ rv'[t] = IF t = w THEN new ELSE rv[t]
                            /\ tx'[t] = IF t = w THEN r ELSE tx[t]
    BY <1>1, <2>1
  <2> QED
    BY <1>0, <2>1, <2>2, <2>3, <2>4, StateFromMoves, StatesDiffer
<1>7. ASSUME NEW s \in Sessions, AcceptIncident(s) PROVE StateFrom(T, op)'
  <2>1. rv[s] \in Review /\ rv[s].pc = "incident" /\ rv[s].op = "accept" /\ rows' = rows
    BY <1>0, <1>7, SessionFacts DEF AcceptIncident, Proc, Review, Reviews, Controls
  <2>2. CASE rv[s].seen = INVESTIGATING
    <3> DEFINE r == [IdleTx EXCEPT !.pc = "read", !.id = rv[s].id, !.seen = INVESTIGATING,
                                   !.state = IDENTIFIED, !.steps = {<<INVESTIGATING, IDENTIFIED>>}]
               new == [rv[s] EXCEPT !.pc = "saving", !.seen = OPEN]
    <3>1. tx' = [tx EXCEPT ![s] = r] /\ rv' = [rv EXCEPT ![s] = new]
      BY <1>1, <1>7, <2>2 DEF AcceptIncident
    <3>2. r.pc = "read" /\ r.state = IDENTIFIED /\ r.id = rv[s].id
      BY <1>1 DEF Tx
    <3>3. new.op = "accept" /\ new.id = rv[s].id
      BY <2>1 DEF Review
    <3> HIDE DEF r, new
    <3>4. \A t \in Sessions : /\ rv'[t] = IF t = s THEN new ELSE rv[t]
                              /\ tx'[t] = IF t = s THEN r ELSE tx[t]
      BY <1>1, <3>1
    <3> QED
      BY <1>0, <2>1, <3>2, <3>3, <3>4, StateFromMoves, StatesDiffer
  <2>3. CASE rv[s].seen # INVESTIGATING
    <3> DEFINE new == [rv[s] EXCEPT !.pc = "ready", !.seen = OPEN]
    <3>1. tx' = tx /\ rv' = [rv EXCEPT ![s] = new]
      BY <1>1, <1>7, <2>3 DEF AcceptIncident
    <3>2. new.op = rv[s].op /\ new.id = rv[s].id
      BY <2>1 DEF Review
    <3> HIDE DEF new
    <3> QED
      BY <1>1, <1>3, <2>1, <3>1, <3>2
  <2> QED
    BY <2>2, <2>3
<1>8. ASSUME NEW s \in Sessions, CommitReview(s) \/ RollbackReview(s) PROVE StateFrom(T, op)'
  BY <1>4, <1>8 DEF CommitReview, RollbackReview
<1>9. ASSUME NEW s \in Sessions, UNCHANGED <<rows, tx>>,
             \/ ReadReports(s) \/ ReadProgress(s) \/ SaveReport(s) \/ InsertReport(s)
             \/ LoadProgress(s) \/ FlushProgress(s) \/ Notify(s)
             \/ \E o \in Outcomes : InvestigationEnds(s, o)
      PROVE  StateFrom(T, op)'
  <2>1. (\A t \in Sessions \ {s} : rv'[t] = rv[t]) /\ rv'[s].op = rv[s].op /\ rv'[s].id = rv[s].id
    <3>1. CASE ReadReports(s)
      BY <1>0, <3>1, ReadReportsFields
    <3>2. CASE ReadProgress(s)
      BY <1>0, <3>2, ReadProgressFields
    <3>3. CASE SaveReport(s)
      BY <1>0, <3>3, SaveReportFields
    <3>4. CASE InsertReport(s) \/ LoadProgress(s) \/ FlushProgress(s) \/ Notify(s)
      BY <1>0, <3>4, QuietFields
    <3>5. ASSUME NEW o \in Outcomes, InvestigationEnds(s, o)
          PROVE  (\A t \in Sessions \ {s} : rv'[t] = rv[t]) /\ rv'[s].op = rv[s].op
                 /\ rv'[s].id = rv[s].id
      BY <1>0, <3>5, InvestigationEndsFields
    <3> QED
      BY <1>9, <3>1, <3>2, <3>3, <3>4, <3>5
  <2> QED
    BY <1>3, <1>9, <2>1
<1>10. CASE UNCHANGED vars
  BY <1>10 DEF vars, StateFrom, Flushed
<1>11. ASSUME NEW s \in Sessions, SaveIncident(s) PROVE StateFrom(T, op)'
  BY <1>0, <1>11, SaveKeepsStateFrom DEF SaveIncident, reviewVars
<1>12. ASSUME NEW s \in Sessions,
              \/ ReadReports(s) \/ ReadProgress(s) \/ SaveReport(s) \/ InsertReport(s)
              \/ LoadProgress(s) \/ FlushProgress(s) \/ Notify(s)
              \/ \E o \in Outcomes : InvestigationEnds(s, o)
       PROVE  UNCHANGED <<rows, tx>>
  BY <1>12 DEF ReadReports, ReadProgress, SaveReport, InsertReport, LoadProgress, FlushProgress,
               Notify, InvestigationEnds
<1> QED
  BY <1>2, <1>5, <1>6, <1>7, <1>8, <1>9, <1>10, <1>11, <1>12
     DEF Next, WorkStep, ReviewStep, Sessions

---------------------------------------------------------------------------
(* The course of the use cases.                                            *)

(* Sequences of reports.                                                   *)
LEMMA SeqFacts ==
  ASSUME NEW q \in Seq(Report)
  PROVE  DOMAIN q = 1 .. Len(q) /\ Len(q) \in Nat /\ (q = <<>> <=> Len(q) = 0)
OBVIOUS

(* A commit adds reports and reviews and takes none away.                  *)
LEMMA ReviewsGrow ==
  ASSUME ReviewsOK, NEW s \in Sessions, CommitReview(s)
  PROVE  /\ rv[s].add # 0 => reports'[rv[s].id] # <<>>
         /\ \A i \in Incidents :
              /\ rv[s].set # "" /\ i = rv[s].id => HasReviewed(i)'
              /\ reports[i] # <<>> => reports'[i] # <<>>
              /\ HasReviewed(i) => HasReviewed(i)'
              /\ reports'[i] # <<>> => reports[i] # <<>> \/ (i = rv[s].id /\ rv[s].add # 0)
              /\ \A n \in DOMAIN reports'[i] : reports'[i][n].review = "rejected" =>
                   \/ n \in DOMAIN reports[i] /\ reports[i][n].review = "rejected"
                   \/ i = rv[s].id /\ rv[s].op = "reject"
<1> DEFINE x == rv[s]
           q == reports[x.id]
           r == Revised(s)
           L == Len(q)
<1>1. /\ x \in Review /\ x.id \in Incidents /\ Proc(x) /\ ReportFacts(x) /\ q \in Seq(Report)
      /\ L \in Nat
  BY SessionFacts
<1>2. x.pc # "insert" /\ reports' = [reports EXCEPT ![x.id] = r]
  BY <1>1 DEF CommitReview, Proc
<1>3. reports \in [Incidents -> Seq(Report)]
  BY DEF ReviewsOK, ReviewShapes
<1>4. \A i \in Incidents : reports'[i] = IF i = x.id THEN r ELSE reports[i]
  BY <1>2, <1>3
<1>5. /\ r \in Seq(Report) /\ Len(r) = L + (IF x.add = 0 THEN 0 ELSE 1)
      /\ x.add # 0 => r[L + 1] = create(x.add)
      /\ x.set # "" => r[x.pos].review = x.set
      /\ \A n \in 1 .. L : \/ r[n].review = q[n].review
                           \/ x.set # "" /\ n = x.pos /\ r[n].review = x.set
  BY <1>2, RevisedReports
<1> HIDE DEF r, q
<1>6. DOMAIN r = 1 .. Len(r) /\ DOMAIN q = 1 .. L /\ (r = <<>> <=> Len(r) = 0) /\ (q = <<>> <=> L = 0)
  <2>1. r \in Seq(Report) /\ q \in Seq(Report)
    BY <1>1, <1>5
  <2> QED
    BY <2>1, SeqFacts, Zenon
<1>7. /\ 1 .. L \subseteq 1 .. Len(r)
      /\ \A n \in 1 .. Len(r) : n \in 1 .. L \/ (x.add # 0 /\ n = L + 1)
      /\ (Len(r) = 0 <=> L = 0 /\ x.add = 0)
  <2> DEFINE m == Len(r)
             a == x.add
  <2>1. m = L + (IF a = 0 THEN 0 ELSE 1) /\ L \in Nat
    BY <1>1, <1>5
  <2> HIDE DEF m, a, L
  <2>2. /\ 1 .. L \subseteq 1 .. m
        /\ \A n \in 1 .. m : n \in 1 .. L \/ (a # 0 /\ n = L + 1)
        /\ (m = 0 <=> L = 0 /\ a = 0)
    BY <2>1
  <2> QED
    BY <2>2 DEF m, a
<1> HIDE DEF L
<1>8. x.set # "" => x.pos \in DOMAIN r /\ x.set # "pending_review"
  <2>1. x.set # "" => x.pos \in 1 .. L /\ x.set # "pending_review"
    BY <1>1 DEF Proc, ReportFacts, L, q
  <2> QED
    BY <1>6, <1>7, <2>1
<1>9. x.set # "" => \E n \in DOMAIN r : r[n].review # "pending_review"
  BY <1>5, <1>8
<1>10. (\E n \in DOMAIN q : q[n].review # "pending_review")
         => \E n \in DOMAIN r : r[n].review # "pending_review"
  <2> SUFFICES ASSUME NEW n \in DOMAIN q, q[n].review # "pending_review"
               PROVE  \E k \in DOMAIN r : r[k].review # "pending_review"
    OBVIOUS
  <2>1. n \in 1 .. L /\ n \in DOMAIN r
    BY <1>6, <1>7
  <2>2. r[n].review = q[n].review \/ x.set # ""
    BY <1>5, <2>1
  <2>3. CASE r[n].review = q[n].review
    <3>1. r[n].review # "pending_review"
      BY <2>3
    <3> QED
      BY <2>1, <3>1
  <2>4. CASE x.set # ""
    BY <1>9, <2>4
  <2> QED
    BY <2>2, <2>3, <2>4
<1>11. \A n \in DOMAIN r : r[n].review = "rejected" =>
         (n \in DOMAIN q /\ q[n].review = "rejected") \/ x.op = "reject"
  <2>0. create(x.add).review = "pending_review"
    BY DEF create
  <2>1. x.add # 0 => r[L + 1].review = "pending_review"
    BY <1>5, <2>0, Zenon
  <2>2. x.set = "rejected" => x.op = "reject"
    BY <1>1 DEF Proc
  <2> QED
    BY <1>5, <1>6, <1>7, <2>1, <2>2
<1>12. reports'[x.id] = r /\ reports[x.id] = q
  BY <1>1, <1>4 DEF q
<1>13. \A i \in Incidents : x.set # "" /\ i = x.id => HasReviewed(i)'
  BY <1>9, <1>12 DEF HasReviewed
<1>14. x.add # 0 => reports'[x.id] # <<>>
  BY <1>6, <1>7, <1>12
<1>15. ASSUME NEW i \in Incidents
       PROVE  /\ reports[i] # <<>> => reports'[i] # <<>>
              /\ HasReviewed(i) => HasReviewed(i)'
              /\ reports'[i] # <<>> => reports[i] # <<>> \/ (i = x.id /\ x.add # 0)
              /\ \A n \in DOMAIN reports'[i] : reports'[i][n].review = "rejected" =>
                   \/ n \in DOMAIN reports[i] /\ reports[i][n].review = "rejected"
                   \/ i = x.id /\ x.op = "reject"
  <2>1. CASE i = x.id
    <3>1. reports[i] # <<>> => reports'[i] # <<>>
      BY <1>6, <1>7, <1>12, <2>1
    <3>2. HasReviewed(i) => HasReviewed(i)'
      BY <1>10, <1>12, <2>1 DEF HasReviewed
    <3>3. reports'[i] # <<>> => reports[i] # <<>> \/ x.add # 0
      BY <1>6, <1>7, <1>12, <2>1
    <3> QED
      BY <1>11, <1>12, <2>1, <3>1, <3>2, <3>3
  <2>2. CASE i # x.id
    <3>1. reports'[i] = reports[i]
      BY <1>4, <2>2
    <3> QED
      BY <3>1 DEF HasReviewed
  <2> QED
    BY <2>1, <2>2
<1> QED
  BY <1>13, <1>14, <1>15

(* An idle session is on course.                                           *)
LEMMA NoReviewCourse == Course(NoReview)
BY NoReviewFields, NoRowIsNone DEF Course, Reviews

(* A session's step that commits nothing.                                  *)
LEMMA CourseMoves ==
  ASSUME CourseInv, NEW s \in Sessions, \A t \in Sessions \ {s} : rv'[t] = rv[t],
         UNCHANGED <<reports, progress, claims>>, Course(rv'[s]),
         rv'[s].op = "investigate" =>
           /\ s \in Workers
           /\ \A t \in Sessions \ {s} : rv[t].op = "investigate" => rv[t].id # rv'[s].id
  PROVE  CourseInv'
<1>1. ASSUME NEW t \in Sessions PROVE Course(rv[t])'
  <2>1. Course(rv'[t])
    BY DEF CourseInv
  <2> QED
    BY <2>1 DEF Course, HasReviewed
<1>2. OneWorker'
  BY DEF CourseInv, OneWorker
<1>3. ProgressHasItsReport'
  BY DEF CourseInv, ProgressHasItsReport, HasReviewed
<1> QED
  BY <1>1, <1>2, <1>3 DEF CourseInv

(* A step of one session that writes nothing.                              *)
LEMMA CourseMovesOn ==
  ASSUME CourseInv, NEW s \in Sessions, \A t \in Sessions \ {s} : rv'[t] = rv[t],
         UNCHANGED <<reports, progress, claims>>, Course(rv'[s]),
         rv'[s].op = "investigate" => rv[s].op = "investigate" /\ rv'[s].id = rv[s].id
  PROVE  CourseInv'
<1>1. rv'[s].op = "investigate" =>
        /\ s \in Workers
        /\ \A t \in Sessions \ {s} : rv[t].op = "investigate" => rv[t].id # rv'[s].id
  BY DEF CourseInv, OneWorker
<1> QED
  BY <1>1, CourseMoves

(* A commit keeps all sessions on course.                                  *)
LEMMA CourseCommits ==
  ASSUME ReviewsOK, CourseInv, NEW s \in Sessions, CommitReview(s)
  PROVE  CourseInv'
<1> DEFINE x == rv[s]
<1>0. PICK i \in Incidents : i = x.id
  BY SessionFacts
<1>1. /\ x \in Review /\ rv \in [Sessions -> Review] /\ Proc(x)
  BY SessionFacts
<1>2. /\ x.pc \in {"ready", "saving"}
      /\ progress' = IF x.stored THEN [progress EXCEPT ![i] = Merged(s)] ELSE progress
      /\ claims' = IF x.op = "investigate" THEN claims \cup {i} ELSE claims
      /\ rv' = [rv EXCEPT ![s] = NoReview]
  BY <1>0 DEF CommitReview
<1>3. Course(x) /\ OneWorker /\ ProgressHasItsReport
  BY DEF CourseInv
<1>4. rv'[s] = NoReview /\ \A t \in Sessions \ {s} : rv'[t] = rv[t]
  BY <1>1, <1>2
<1>5. \A j \in Incidents : (reports[j] # <<>> => reports'[j] # <<>>) /\ (HasReviewed(j) => HasReviewed(j)')
  BY ReviewsGrow
<1>6. ASSUME NEW t \in Sessions PROVE Course(rv[t])'
  <2>1. CASE t = s
    BY <1>4, <2>1, NoReviewFields, NoRowIsNone DEF Course, Reviews
  <2>2. CASE t # s
    <3> DEFINE y == rv[t]
    <3>1. rv'[t] = y /\ Course(y) /\ y.id \in Incidents
      BY <1>4, <2>2, SessionFacts DEF CourseInv
    <3>2. y.op = "investigate" => y.id \notin claims'
      BY <1>0, <1>2, <1>3, <2>2, <3>1 DEF OneWorker, Course
    <3>3. (reports[y.id] # <<>> => reports'[y.id] # <<>>) /\ (HasReviewed(y.id) => HasReviewed(y.id)')
      BY <1>5, <3>1
    <3>4. HasReviewed(rv[t].id)' <=> HasReviewed(y.id)'
      BY <3>1 DEF HasReviewed
    <3> QED
      BY <3>1, <3>2, <3>3, <3>4 DEF Course
  <2> QED
    BY <2>1, <2>2
<1>7. OneWorker'
  BY <1>3, <1>4, NoReviewFields DEF OneWorker
<1>8. ASSUME x.stored
      PROVE  /\ Merged(s).status = "pending_review" => reports'[i] # <<>>
             /\ Merged(s).reason = "rca_rejected" => HasReviewed(i)'
  <2>1. /\ Merged(s).status \in {x.save.status, progress[i].status}
        /\ Merged(s).reason \in {x.save.reason, progress[i].reason}
    BY <1>0 DEF Merged, ProgressRow
  <2>2. x.save.status = "pending_review" => reports'[i] # <<>>
    BY <1>0, <1>3, <1>5, ReviewsGrow DEF Course
  <2>3. x.save.reason = "rca_rejected" => HasReviewed(i)'
    <3>1. x.save.reason = "rca_rejected" => x.set # "" \/ HasReviewed(i)
      BY <1>0, <1>2, <1>3 DEF Course
    <3> QED
      BY <1>0, <1>5, <3>1, ReviewsGrow
  <2>4. /\ progress[i].status = "pending_review" => reports'[i] # <<>>
        /\ progress[i].reason = "rca_rejected" => HasReviewed(i)'
    BY <1>3, <1>5 DEF ProgressHasItsReport
  <2> QED
    BY <2>1, <2>2, <2>3, <2>4
<1>9. ProgressHasItsReport'
  <2> SUFFICES ASSUME NEW j \in Incidents
               PROVE  /\ progress'[j].status = "pending_review" => reports'[j] # <<>>
                      /\ progress'[j].reason = "rca_rejected" => HasReviewed(j)'
    BY DEF ProgressHasItsReport, HasReviewed
  <2>1. progress'[j] = IF j = i /\ x.stored THEN Merged(s) ELSE progress[j]
    BY <1>1, <1>2 DEF ReviewsOK, ReviewShapes
  <2>2. CASE j = i /\ x.stored
    BY <1>8, <2>1, <2>2
  <2>3. CASE ~(j = i /\ x.stored)
    BY <1>3, <1>5, <2>1, <2>3 DEF ProgressHasItsReport
  <2> QED
    BY <2>2, <2>3
<1> QED
  BY <1>6, <1>7, <1>9 DEF CourseInv

(* Every step preserves CourseInv.                                         *)
LEMMA CourseStays ==
  ASSUME ReviewInv, CourseInv, [Next]_vars
  PROVE  CourseInv'
<1>0. ReviewsOK
  BY DEF ReviewInv
<1>1. CASE UNCHANGED <<rv, reports, progress, claims>>
  <2>1. \A t \in Sessions : Course(rv[t])'
    BY <1>1 DEF CourseInv, Course, HasReviewed
  <2> QED
    BY <1>1, <2>1 DEF CourseInv, OneWorker, ProgressHasItsReport, HasReviewed
<1>2. ASSUME NEW s \in Sessions, NEW i \in Incidents, NEW op \in Requests, ReadIncident(s, i, op)
      PROVE  CourseInv'
  <2> DEFINE pc == IF op \in Controls THEN "progress" ELSE "reports"
             new == [NoReview EXCEPT !.op = op, !.pc = pc, !.id = i,
                                     !.seen = IF op = "accept" THEN rows[i].state ELSE OPEN]
  <2>1. rv' = [rv EXCEPT ![s] = new] /\ UNCHANGED <<reports, progress, claims>>
    BY <1>2 DEF ReadIncident
  <2>2. op \in Reviews => pc = "reports"
    BY DEF Reviews, Controls
  <2>3. op \in Reviews \cup Controls
    BY RequestsAssumption
  <2> HIDE DEF pc
  <2>4. /\ new.op = op /\ new.pc = pc /\ new.save = NoRow /\ new.stored = FALSE
    BY NoReviewFields, NoReviewType DEF Review
  <2> HIDE DEF new
  <2>5. Course(new) /\ new.op # "investigate"
    BY <2>2, <2>3, <2>4, NoRowIsNone DEF Course, Reviews, Controls
  <2>6. rv'[s] = new /\ \A t \in Sessions \ {s} : rv'[t] = rv[t]
    BY <1>0, <2>1, SessionUpdate
  <2>7. Course(rv'[s])
    BY <2>5, <2>6
  <2> QED
    BY <2>1, <2>5, <2>6, <2>7, CourseMovesOn
<1>3. ASSUME NEW w \in Workers, NEW i \in Incidents, StartInvestigation(w, i)
      PROVE  CourseInv'
  <2> DEFINE new == [NoReview EXCEPT !.op = "investigate", !.pc = "saving", !.id = i]
  <2>1. /\ rv' = [rv EXCEPT ![w] = new] /\ UNCHANGED <<reports, progress, claims>>
        /\ i \notin claims /\ w \in Sessions
        /\ \A v \in Workers : rv[v].op = "investigate" => rv[v].id # i
    BY <1>3 DEF StartInvestigation, Sessions
  <2>2. /\ new.op = "investigate" /\ new.id = i /\ new.save = NoRow /\ new.stored = FALSE
    BY NoReviewFields, NoReviewType DEF Review
  <2> HIDE DEF new
  <2>3. Course(new)
    BY <2>1, <2>2, NoRowIsNone DEF Course, Reviews
  <2>4. \A t \in Sessions \ {w} : rv[t].op = "investigate" => rv[t].id # i
    BY <2>1 DEF CourseInv, OneWorker
  <2>5. rv'[w] = new /\ \A t \in Sessions \ {w} : rv'[t] = rv[t]
    BY <1>0, <2>1, SessionUpdate
  <2>6. Course(rv'[w])
    BY <2>3, <2>5
  <2> QED
    BY <1>3, <2>1, <2>2, <2>4, <2>5, <2>6, CourseMoves
<1>4. ASSUME NEW w \in Sessions, NEW o \in Outcomes, InvestigationEnds(w, o) PROVE CourseInv'
  <2>1. Course(rv[w])
    BY DEF CourseInv
  <2>2. Course(rv'[w])
    BY <1>0, <1>4, <2>1, InvestigationEndsFields DEF Course, Reviews
  <2> QED
    BY <1>0, <1>4, <2>2, InvestigationEndsFields, CourseMovesOn
<1>5. ASSUME NEW s \in Sessions, ReadReports(s) PROVE CourseInv'
  <2>1. Course(rv[s])
    BY DEF CourseInv
  <2>2. Course(rv'[s])
    BY <1>0, <1>5, <2>1, ReadReportsFields DEF Course
  <2> QED
    BY <1>0, <1>5, <2>2, ReadReportsFields, CourseMovesOn
<1>6. ASSUME NEW s \in Sessions, ReadProgress(s) PROVE CourseInv'
  <2>1. Course(rv[s]) /\ ProgressHasItsReport /\ rv[s].id \in Incidents
    BY <1>0, SessionFacts DEF CourseInv
  <2>2. orCreate(progress[rv[s].id]).status = "pending_review" => reports[rv[s].id] # <<>>
    BY <2>1 DEF ProgressHasItsReport, orCreate, ProgressRow
  <2>3. Course(rv'[s])
    BY <1>0, <1>6, <2>1, <2>2, ReadProgressFields DEF Course, ProgressHasItsReport, Controls, Reviews
  <2> QED
    BY <1>0, <1>6, <2>3, ReadProgressFields, CourseMovesOn
<1>7. ASSUME NEW s \in Sessions, SaveReport(s) PROVE CourseInv'
  <2>1. Course(rv[s])
    BY DEF CourseInv
  <2>2. Course(rv'[s])
    BY <1>0, <1>7, <2>1, SaveReportFields DEF Course
  <2> QED
    BY <1>0, <1>7, <2>2, SaveReportFields, CourseMovesOn
<1>8. ASSUME NEW s \in Sessions,
             InsertReport(s) \/ LoadProgress(s) \/ FlushProgress(s) \/ Notify(s) \/ AcceptIncident(s)
      PROVE  CourseInv'
  <2>1. Course(rv[s]) /\ Proc(rv[s])
    BY <1>0, SessionFacts DEF CourseInv
  <2>2. rv[s].pc = "flush" => rv[s].op \notin {"accept", "amend"}
    BY <2>1 DEF Proc
  <2>3. Course(rv'[s])
    BY <1>0, <1>8, <2>1, <2>2, QuietFields DEF Course
  <2> QED
    BY <1>0, <1>8, <2>3, QuietFields, CourseMovesOn
<1>9. ASSUME NEW s \in Sessions, RollbackReview(s) PROVE CourseInv'
  <2>1. rv' = [rv EXCEPT ![s] = NoReview] /\ UNCHANGED <<reports, progress, claims>>
    BY <1>9 DEF RollbackReview
  <2> QED
    BY <1>0, <2>1, SessionUpdate, CourseMovesOn, NoReviewCourse, NoReviewFields
<1>10. ASSUME NEW s \in Sessions, StoreStep(s) \/ SaveIncident(s)
       PROVE  UNCHANGED <<rv, reports, progress, claims>>
  BY <1>10 DEF StoreStep, SaveIncident, reviewVars
<1>11. UNCHANGED vars => UNCHANGED <<rv, reports, progress, claims>>
  BY DEF vars
<1> QED
  BY <1>0, <1>1, <1>2, <1>3, <1>4, <1>5, <1>6, <1>7, <1>8, <1>9, <1>10, <1>11, CourseCommits
     DEF Next, WorkStep, ReviewStep, Sessions

(* A row comes to state T only by the commit of a use case op.             *)
LEMMA OnlyFrom ==
  ASSUME ReviewInv, NEW T, NEW op \in {"accept", "investigate"}, StateFrom(T, op),
         [Next]_vars, NEW i \in Incidents, rows'[i].state = T
  PROVE  \/ rows[i].state = T
         \/ \E s \in Sessions : CommitReview(s) /\ rv[s].op = op /\ rv[s].id = i
<1>0. StoreInv /\ ReviewsOK
  BY DEF ReviewInv
<1>1. CASE rows' = rows
  BY <1>1
<1>2. ASSUME NEW s \in Sessions, Flushed(s), CommitRow(s)
      PROVE  \/ rows[i].state = T
             \/ rv[s].op = op /\ rv[s].id = i
  <2>1. rows'[i] = IF i = tx[s].id THEN tx[s].row ELSE rows[i]
    BY <1>0, <1>2 DEF CommitRow, StoreInv, StoreTypeOK
  <2> QED
    BY <1>2, <2>1 DEF StateFrom
<1>3. ASSUME NEW s \in ApiSessions, StoreStep(s), rows' # rows
      PROVE  rows[i].state = T
  <2>1. Flushed(s) /\ CommitRow(s) /\ s \in Sessions
    BY <1>3 DEF StoreStep, RequestStep, PublishOpened, PostIncident, IngestFound, IngestNotFound,
       IngestInsert, FlushInsert, PatchState, Load, FlushUpdate, Rollback, LoseOpened, Commit, Sessions
  <2>2. rv[s].op = "none"
    BY <1>0, <1>3, <2>1, SessionFacts, NoReviewFields DEF StoreStep, Proc
  <2> QED
    BY <1>2, <2>1, <2>2
<1>4. ASSUME NEW s \in Sessions, CommitReview(s), rows' # rows
      PROVE  rows[i].state = T \/ (rv[s].op = op /\ rv[s].id = i)
  BY <1>2, <1>4 DEF CommitReview
<1>5. \/ rows' = rows
      \/ \E s \in ApiSessions : StoreStep(s)
      \/ \E s \in Sessions : CommitReview(s)
  BY DEF Next, WorkStep, ReviewStep, ReadIncident, StartInvestigation, InvestigationEnds, ReadReports,
         ReadProgress, SaveReport, AcceptIncident, SaveIncident, Load, FlushUpdate, InsertReport,
         LoadProgress, FlushProgress, Notify, RollbackReview, vars
<1> QED
  BY <1>1, <1>3, <1>4, <1>5

---------------------------------------------------------------------------
(* What accept promises.                                                   *)

(* At the beginning nothing is identified, claimed or under investigation. *)
LEMMA CourseInit ==
  ASSUME Init
  PROVE  /\ CourseInv /\ IdentifiedWasReviewed
         /\ StateFrom(IDENTIFIED, "accept") /\ StateFrom(INVESTIGATING, "investigate")
<1>1. \A s \in Sessions : rv[s] = NoReview /\ tx[s] = IdleTx
  BY DEF Init
<1>2. \A i \in Incidents : reports[i] = <<>> /\ progress[i] = NoRow /\ rows[i].state = OPEN
  <2>1. [Absent EXCEPT !.state = OPEN].state = OPEN
    BY AbsentType DEF Row
  <2> QED
    BY <2>1 DEF Init
<1>3. OneWorker /\ \A s \in Sessions : Course(rv[s])
  BY <1>1, NoReviewCourse, NoReviewFields DEF OneWorker
<1>4. ProgressHasItsReport /\ IdentifiedWasReviewed
  BY <1>2, NoRowIsNone, StatesDiffer DEF ProgressHasItsReport, IdentifiedWasReviewed
<1>5. StateFrom(IDENTIFIED, "accept") /\ StateFrom(INVESTIGATING, "investigate")
  BY <1>1, IdleType DEF StateFrom, Flushed
<1> QED
  BY <1>3, <1>4, <1>5 DEF CourseInv

(* Every step preserves IdentifiedWasReviewed.                             *)
LEMMA IdentifiedStays ==
  ASSUME ReviewInv, CourseInv, StateFrom(IDENTIFIED, "accept"), IdentifiedWasReviewed, [Next]_vars
  PROVE  IdentifiedWasReviewed'
<1> SUFFICES ASSUME NEW i \in Incidents, rows'[i].state = IDENTIFIED PROVE HasReviewed(i)'
  BY DEF IdentifiedWasReviewed, HasReviewed
<1>0. ReviewsOK
  BY DEF ReviewInv
<1>1. ASSUME NEW s \in Sessions, CommitReview(s) PROVE HasReviewed(i) => HasReviewed(i)'
  BY <1>0, <1>1, ReviewsGrow
<1>3. reports' = reports \/ \E s \in Sessions : CommitReview(s)
  BY DEF Next, WorkStep, ReviewStep, ReadIncident, StartInvestigation, InvestigationEnds, ReadReports,
         ReadProgress, SaveReport, AcceptIncident, SaveIncident, InsertReport, StoreStep, reviewVars,
         LoadProgress, FlushProgress, Notify, RollbackReview, vars
<1>4. HasReviewed(i) => HasReviewed(i)'
  <2>1. CASE reports' = reports
    BY <2>1 DEF HasReviewed
  <2> QED
    BY <1>1, <1>3, <2>1
<1>5. CASE rows[i].state = IDENTIFIED
  BY <1>4, <1>5 DEF IdentifiedWasReviewed, HasReviewed
<1>6. ASSUME NEW s \in Sessions, CommitReview(s), rv[s].op = "accept", rv[s].id = i
      PROVE  HasReviewed(i)'
  <2>1. Course(rv[s]) /\ rv[s].pc # "reports"
    BY <1>6 DEF CourseInv, CommitReview
  <2>2. rv[s].set # "" \/ HasReviewed(i)
    BY <1>6, <2>1 DEF Course
  <2> QED
    BY <1>0, <1>4, <1>6, <2>2, ReviewsGrow
<1> QED
  BY <1>5, <1>6, OnlyFrom

(* "Humans accept before identified": unless an engineer asks for the      *)
(* state by hand (PATCH does not look at the reports), an identified       *)
(* incident has a report that a human has reviewed.                        *)
THEOREM AcceptIdentifiesReviewed ==
  ASSUME IDENTIFIED \notin Targets
  PROVE  Spec => []IdentifiedWasReviewed
<1> DEFINE I == ReviewInv /\ CourseInv /\ StateFrom(IDENTIFIED, "accept") /\ IdentifiedWasReviewed
<1>1. Init => I
  BY ReviewInitInv, CourseInit
<1>2. I /\ [Next]_vars => I'
  BY ReviewsStay, CourseStays, StateFromStays, IdentifiedStays
<1>3. I => IdentifiedWasReviewed
  OBVIOUS
<1> QED
  BY <1>1, <1>2, <1>3, PTL DEF Spec

---------------------------------------------------------------------------
(* What reject promises.                                                   *)

(* An idle session remembers no status.                                    *)
LEMMA NoReviewPassed == Passed(NoReview)
BY NoReviewFields, NoRowIsNone DEF Passed, Controls

(* The part of PassedInv about the committed rows.                         *)
RowsPassed ==
  \A i \in Incidents :
    /\ reports[i] # <<>> \/ progress[i] # NoRow \/ rows[i].state = INVESTIGATING => i \in claims
    /\ progress[i].status = "pending_review" => ~progress[i].paused

(* A session's step that commits nothing.                                  *)
LEMMA PassedMoves ==
  ASSUME PassedInv, NEW s \in Sessions, \A t \in Sessions \ {s} : rv'[t] = rv[t],
         UNCHANGED <<rows, reports, progress, claims>>, Passed(rv'[s])
  PROVE  PassedInv'
<1>1. ASSUME NEW t \in Sessions PROVE Passed(rv[t])'
  <2>1. Passed(rv'[t])
    BY DEF PassedInv
  <2> QED
    BY <2>1 DEF Passed
<1>2. RowsPassed' /\ RejectedIsNotPending'
  BY DEF PassedInv, RowsPassed, RejectedIsNotPending
<1> QED
  BY <1>1, <1>2 DEF PassedInv, RowsPassed

(* The commit of anyone but the worker leaves no row that reads            *)
(* pending_review; the worker's is the incident's first.                   *)
LEMMA MergedPassed ==
  ASSUME ReviewsOK, CourseInv, PassedInv, NEW s \in Sessions, rv[s].stored
  PROVE  /\ rv[s].op # "investigate" => Merged(s).status # "pending_review"
         /\ rv[s].op = "investigate" => Merged(s) = rv[s].save
<1> DEFINE x == rv[s]
           p == progress[x.id]
<1>1. Passed(x)
  BY DEF PassedInv
<1>2. CASE x.op = "investigate"
  BY <1>1, <1>2 DEF Passed, Merged
<1>3. CASE x.op # "investigate" /\ x.base = NoRow
  BY <1>1, <1>3 DEF Passed, Merged
<1>4. CASE x.op # "investigate" /\ x.base # NoRow
  <2>1. Merged(s).status = IF x.save.status # x.base.status THEN x.save.status ELSE p.status
    BY <1>4 DEF Merged, ProgressRow
  <2>2. x.save.status # "pending_review"
        /\ (x.base.status # "pending_review" => p.status # "pending_review")
    BY <1>1, <1>4 DEF Passed
  <2> QED
    BY <1>4, <2>1, <2>2
<1> QED
  BY <1>2, <1>3, <1>4

(* A commit preserves PassedInv.                                           *)
LEMMA PassedCommits ==
  ASSUME ReviewInv, CourseInv, StateFrom(INVESTIGATING, "investigate"), PassedInv,
         NEW s \in Sessions, CommitReview(s)
  PROVE  PassedInv'
<1> DEFINE x == rv[s]
<1>0. PICK i \in Incidents : i = x.id
  BY SessionFacts DEF ReviewInv
<1>1. x \in Review /\ rv \in [Sessions -> Review] /\ Proc(x) /\ ReviewsOK /\ ReviewShapes
  BY SessionFacts DEF ReviewInv, ReviewsOK
<1>2. /\ x.pc \in {"ready", "saving"}
      /\ progress' = IF x.stored THEN [progress EXCEPT ![i] = Merged(s)] ELSE progress
      /\ claims' = IF x.op = "investigate" THEN claims \cup {i} ELSE claims
      /\ rv' = [rv EXCEPT ![s] = NoReview]
  BY <1>0 DEF CommitReview
<1>3. Course(x) /\ Passed(x) /\ RowsPassed
  BY DEF CourseInv, PassedInv, RowsPassed
<1>4. rv'[s] = NoReview /\ \A t \in Sessions \ {s} : rv'[t] = rv[t]
  BY <1>1, <1>2
<1>5. \A j \in Incidents : progress'[j] = IF j = i /\ x.stored THEN Merged(s) ELSE progress[j]
  BY <1>1, <1>2 DEF ReviewShapes
<1>6. /\ x.stored /\ x.op # "investigate" => Merged(s).status # "pending_review"
      /\ x.stored /\ x.op = "investigate" => Merged(s) = x.save
  BY <1>1, MergedPassed
<1>7. x.op = "investigate" => reports[i] = <<>> /\ progress[i] = NoRow
  BY <1>0, <1>3 DEF Course, RowsPassed
<1>8. /\ x.add # 0 => i \in claims'
      /\ x.stored => i \in claims'
  <2>1. x.op \in Reviews /\ x.pc # "reports" => i \in claims
    BY <1>0, <1>3 DEF Course, RowsPassed
  <2>2. x.op \in Controls => i \in claims
    BY <1>0, <1>3 DEF Passed
  <2>3. x.op = "investigate" => i \in claims'
    BY <1>2
  <2>4. x.op # "none" /\ x.pc # "reports"
    BY <1>1, <1>2 DEF Proc
  <2>5. x.op \in Reviews \cup Controls \cup {"none", "investigate"}
    BY <1>1 DEF Review
  <2> QED
    BY <1>2, <2>1, <2>2, <2>3, <2>4, <2>5
<1>9. ASSUME NEW t \in Sessions PROVE Passed(rv[t])'
  <2>1. CASE t = s
    BY <1>4, <2>1, NoReviewFields, NoRowIsNone DEF Passed, Controls
  <2>2. CASE t # s
    <3> DEFINE y == rv[t]
    <3>1. rv'[t] = y /\ Passed(y) /\ ProgressFacts(y) /\ y.id \in Incidents
      BY <1>1, <1>4, <2>2, SessionFacts DEF PassedInv
    <3>2. claims \subseteq claims'
      BY <1>2
    <3>3. progress[y.id] # NoRow /\ progress[y.id].status # "pending_review"
            => progress'[y.id].status # "pending_review"
      BY <1>5, <1>6, <1>7, <3>1
    <3> QED
      BY <3>1, <3>2, <3>3 DEF Passed, ProgressFacts
  <2> QED
    BY <2>1, <2>2
<1>10. RowsPassed'
  <2> SUFFICES ASSUME NEW j \in Incidents
               PROVE  /\ reports'[j] # <<>> \/ progress'[j] # NoRow \/ rows'[j].state = INVESTIGATING
                           => j \in claims'
                      /\ progress'[j].status = "pending_review" => ~progress'[j].paused
    BY DEF RowsPassed
  <2>1. reports'[j] # <<>> => j \in claims'
    BY <1>0, <1>1, <1>2, <1>3, <1>8, ReviewsGrow DEF RowsPassed
  <2>2. progress'[j] # NoRow => j \in claims'
    BY <1>2, <1>3, <1>5, <1>8 DEF RowsPassed
  <2>3. rows'[j].state = INVESTIGATING => j \in claims'
    <3>1. CASE rows[j].state = INVESTIGATING
      BY <1>2, <1>3, <3>1 DEF RowsPassed
    <3>2. CASE rows[j].state # INVESTIGATING /\ rows'[j].state = INVESTIGATING
      <4>1. Flushed(s) /\ CommitRow(s)
        BY <3>2 DEF CommitReview
      <4>2. rows'[j] = IF j = tx[s].id THEN tx[s].row ELSE rows[j]
        BY <4>1 DEF CommitRow, ReviewInv, StoreInv, StoreTypeOK
      <4>3. x.op = "investigate" /\ j = i
        BY <1>0, <3>2, <4>1, <4>2 DEF StateFrom
      <4> QED
        BY <1>2, <4>3
    <3> QED
      BY <3>1, <3>2
  <2>4. progress'[j].status = "pending_review" => ~progress'[j].paused
    <3>1. CASE j = i /\ x.stored
      <4>1. progress'[j] = Merged(s)
        BY <1>5, <3>1
      <4> QED
        BY <1>3, <1>6, <3>1, <4>1 DEF Passed
    <3>2. CASE ~(j = i /\ x.stored)
      BY <1>3, <1>5, <3>2 DEF RowsPassed
    <3> QED
      BY <3>1, <3>2
  <2> QED
    BY <2>1, <2>2, <2>3, <2>4
<1>11. RejectedIsNotPending'
  <2> SUFFICES ASSUME NEW j \in Incidents, NEW n \in DOMAIN reports'[j],
                      reports'[j][n].review = "rejected"
               PROVE  progress'[j].status # "pending_review"
    BY DEF RejectedIsNotPending
  <2>1. \/ n \in DOMAIN reports[j] /\ reports[j][n].review = "rejected"
        \/ j = i /\ x.op = "reject"
    BY <1>0, <1>1, ReviewsGrow
  <2>2. CASE j = i /\ x.op = "reject"
    <3>1. x.stored
      BY <1>1, <1>2, <1>3, <2>2 DEF Course, Proc
    <3> QED
      BY <1>5, <1>6, <2>2, <3>1
  <2>3. CASE n \in DOMAIN reports[j] /\ reports[j][n].review = "rejected"
    <3>1. progress[j].status # "pending_review" /\ reports[j] # <<>>
      BY <2>3 DEF PassedInv, RejectedIsNotPending
    <3> QED
      BY <1>5, <1>6, <1>7, <3>1
  <2> QED
    BY <2>1, <2>2, <2>3
<1> QED
  BY <1>9, <1>10, <1>11 DEF PassedInv, RowsPassed

(* Every step preserves PassedInv.                                         *)
LEMMA PassedStays ==
  ASSUME ReviewInv, CourseInv, StateFrom(INVESTIGATING, "investigate"), PassedInv, [Next]_vars
  PROVE  PassedInv'
<1>0. ReviewsOK
  BY DEF ReviewInv
<1>1. ASSUME UNCHANGED <<rv, reports, progress, claims>>,
             \A i \in Incidents : rows'[i].state = INVESTIGATING => rows[i].state = INVESTIGATING
      PROVE  PassedInv'
  <2>1. \A t \in Sessions : Passed(rv[t])'
    BY <1>1 DEF PassedInv, Passed
  <2>2. RowsPassed' /\ RejectedIsNotPending'
    BY <1>1 DEF PassedInv, RowsPassed, RejectedIsNotPending
  <2> QED
    BY <2>1, <2>2 DEF PassedInv, RowsPassed
<1>2. ASSUME NEW s \in Sessions, NEW i \in Incidents, NEW op \in Requests, ReadIncident(s, i, op)
      PROVE  PassedInv'
  <2> DEFINE new == [NoReview EXCEPT !.op = op, !.id = i,
                       !.pc = IF op \in Controls THEN "progress" ELSE "reports",
                       !.seen = IF op = "accept" THEN rows[i].state ELSE OPEN]
  <2>1. rv' = [rv EXCEPT ![s] = new] /\ UNCHANGED <<rows, reports, progress, claims>>
    BY <1>2 DEF ReadIncident
  <2>2. op \in Controls => i \in claims
    BY <1>2 DEF ReadIncident, PassedInv
  <2>3. op \in Reviews \cup Controls
    BY RequestsAssumption
  <2>4. /\ new.op = op /\ new.id = i /\ new.save = NoRow /\ new.prog = NoRow /\ new.base = NoRow
    BY NoReviewFields, NoReviewType DEF Review
  <2> HIDE DEF new
  <2>5. Passed(new)
    BY <2>2, <2>3, <2>4, NoRowIsNone DEF Passed, Reviews, Controls
  <2>6. rv'[s] = new /\ \A t \in Sessions \ {s} : rv'[t] = rv[t]
    BY <1>0, <2>1, SessionUpdate
  <2>7. Passed(rv'[s])
    BY <2>5, <2>6
  <2> QED
    BY <2>1, <2>6, <2>7, PassedMoves
<1>3. ASSUME NEW w \in Workers, NEW i \in Incidents, StartInvestigation(w, i)
      PROVE  PassedInv'
  <2> DEFINE new == [NoReview EXCEPT !.op = "investigate", !.pc = "saving", !.id = i]
  <2>1. rv' = [rv EXCEPT ![w] = new] /\ UNCHANGED <<rows, reports, progress, claims>> /\ w \in Sessions
    BY <1>3 DEF StartInvestigation, Sessions
  <2>2. new.op = "investigate" /\ new.save = NoRow /\ new.prog = NoRow /\ new.base = NoRow
    BY NoReviewFields, NoReviewType DEF Review
  <2> HIDE DEF new
  <2>3. Passed(new)
    BY <2>2, NoRowIsNone DEF Passed, Controls
  <2>4. rv'[w] = new /\ \A t \in Sessions \ {w} : rv'[t] = rv[t]
    BY <1>0, <2>1, SessionUpdate
  <2>5. Passed(rv'[w])
    BY <2>3, <2>4
  <2> QED
    BY <2>1, <2>4, <2>5, PassedMoves
<1>4. ASSUME NEW w \in Sessions, NEW o \in Outcomes, InvestigationEnds(w, o) PROVE PassedInv'
  <2>1. Passed(rv[w]) /\ rows' = rows
    BY <1>4 DEF PassedInv, InvestigationEnds
  <2>2. Passed(rv'[w])
    BY <1>0, <1>4, <2>1, InvestigationEndsFields DEF Passed, Controls
  <2> QED
    BY <1>0, <1>4, <2>1, <2>2, InvestigationEndsFields, PassedMoves
<1>5. ASSUME NEW s \in Sessions, ReadReports(s) PROVE PassedInv'
  <2>1. Passed(rv[s]) /\ rows' = rows
    BY <1>5 DEF PassedInv, ReadReports
  <2>2. Passed(rv'[s])
    BY <1>0, <1>5, <2>1, ReadReportsFields DEF Passed
  <2> QED
    BY <1>0, <1>5, <2>1, <2>2, ReadReportsFields, PassedMoves
<1>6. ASSUME NEW s \in Sessions, ReadProgress(s) PROVE PassedInv'
  <2>1. Passed(rv[s]) /\ rows' = rows /\ rv[s].id \in Incidents
    BY <1>0, <1>6, SessionFacts DEF PassedInv, ReadProgress
  <2>2. orCreate(progress[rv[s].id]).paused =>
          orCreate(progress[rv[s].id]).status # "pending_review"
    BY <2>1 DEF PassedInv, orCreate, ProgressRow
  <2>3. rv'[s].save.status # "pending_review"
    BY <1>0, <1>6, <2>1, <2>2, ReadProgressFields DEF Passed, Controls
  <2>4. Passed(rv'[s])
    BY <1>0, <1>6, <2>1, <2>3, ReadProgressFields DEF Passed, Controls
  <2> QED
    BY <1>0, <1>6, <2>1, <2>4, ReadProgressFields, PassedMoves
<1>7. ASSUME NEW s \in Sessions, SaveReport(s) PROVE PassedInv'
  <2>1. Passed(rv[s]) /\ rows' = rows
    BY <1>7 DEF PassedInv, SaveReport
  <2>2. Passed(rv'[s])
    BY <1>0, <1>7, <2>1, SaveReportFields DEF Passed
  <2> QED
    BY <1>0, <1>7, <2>1, <2>2, SaveReportFields, PassedMoves
<1>8. ASSUME NEW s \in Sessions,
             InsertReport(s) \/ LoadProgress(s) \/ FlushProgress(s) \/ Notify(s) \/ AcceptIncident(s)
      PROVE  PassedInv'
  <2>1. /\ Passed(rv[s]) /\ rv[s].id \in Incidents /\ Course(rv[s])
        /\ rows' = rows
    BY <1>0, <1>8, SessionFacts DEF PassedInv, CourseInv, InsertReport, LoadProgress, FlushProgress,
                                    Notify, AcceptIncident
  <2>2. rv[s].op = "investigate" => progress[rv[s].id] = NoRow
    BY <2>1 DEF PassedInv, Course
  <2>3. Passed(rv'[s])
    BY <1>0, <1>8, <2>1, <2>2, QuietFields DEF Passed
  <2> QED
    BY <1>0, <1>8, <2>1, <2>3, QuietFields, PassedMoves
<1>9. ASSUME NEW s \in Sessions, RollbackReview(s) PROVE PassedInv'
  <2>1. rv' = [rv EXCEPT ![s] = NoReview] /\ UNCHANGED <<rows, reports, progress, claims>>
    BY <1>9 DEF RollbackReview
  <2> QED
    BY <1>0, <2>1, SessionUpdate, PassedMoves, NoReviewPassed
<1>10. ASSUME \/ \E s \in ApiSessions : StoreStep(s)
              \/ \E s \in Sessions : SaveIncident(s)
              \/ UNCHANGED vars
       PROVE  PassedInv' \/ \E s \in Sessions : CommitReview(s)
  <2>1. UNCHANGED <<rv, reports, progress, claims>>
    BY <1>10 DEF StoreStep, SaveIncident, reviewVars, vars
  <2>2. \A i \in Incidents : rows'[i].state = INVESTIGATING =>
          rows[i].state = INVESTIGATING \/ \E s \in Sessions : CommitReview(s)
    BY OnlyFrom
  <2> QED
    BY <1>1, <2>1, <2>2
<1> QED
  BY <1>2, <1>3, <1>4, <1>5, <1>6, <1>7, <1>8, <1>9, <1>10, PassedCommits
     DEF Next, WorkStep, ReviewStep, Sessions

(* After a rejection the investigation never reads as waiting for review   *)
(* again, although pause and resume save a status they read before it;     *)
(* provided that it is the worker who takes incidents under investigation. *)
(* A PATCH to investigating breaks it: the investigation can then be       *)
(* paused before the worker's first progress row, and resumed into         *)
(* pending_review by a session that has read it before the rejection.      *)
THEOREM RejectionsAreKept ==
  ASSUME INVESTIGATING \notin Targets
  PROVE  Spec => []RejectedIsNotPending
<1> DEFINE I == ReviewInv /\ CourseInv /\ StateFrom(INVESTIGATING, "investigate") /\ PassedInv
<1>1. Init => I
  <2> SUFFICES ASSUME Init PROVE I
    OBVIOUS
  <2>1. \A s \in Sessions : rv[s] = NoReview
    BY DEF Init
  <2>2. [Absent EXCEPT !.state = OPEN].state = OPEN
    BY AbsentType DEF Row
  <2>3. \A i \in Incidents : reports[i] = <<>> /\ progress[i] = NoRow /\ rows[i].state = OPEN
    BY <2>2 DEF Init
  <2>4. RejectedIsNotPending /\ RowsPassed
    BY <2>3, NoRowIsNone, StatesDiffer DEF RejectedIsNotPending, RowsPassed
  <2> QED
    BY <2>1, <2>4, ReviewInitInv, CourseInit, NoReviewPassed DEF PassedInv, RowsPassed
<1>2. I /\ [Next]_vars => I'
  BY ReviewsStay, CourseStays, StateFromStays, PassedStays
<1>3. I => RejectedIsNotPending
  BY DEF PassedInv
<1> QED
  BY <1>1, <1>2, <1>3, PTL DEF Spec

---------------------------------------------------------------------------
(* The answers that are assembled from several tables.                     *)

(* What has been read of an answer, against what is stored now.            *)
ReportView(v) ==
  /\ v.read >= 2 => \A n \in DOMAIN v.reports : <<"rca_ready", v.reports[n].version>> \in notes[v.id]
  /\ v.read = 4 => \A n \in DOMAIN v.reports : <<"rca_ready", v.reports[n].version>> \in v.notes
  /\ v.state = IDENTIFIED => /\ HasReviewed(v.id)
                             /\ v.read >= 1 => v.evidence \cap Collected # {}
                             /\ v.read >= 2 => Reviewed(v)

ProgressView(v) ==
  /\ v.read >= 1 => /\ v.row.status = "pending_review" => reports[v.id] # <<>>
                    /\ v.row.reason = "rca_rejected" => HasReviewed(v.id)
  /\ v.state = IDENTIFIED => HasReviewed(v.id)
  /\ v.read = 0 => v.row = NoRow
  /\ v.read = 3 => /\ v.row.status = "pending_review" => v.reports # <<>>
                   /\ v.state = IDENTIFIED \/ v.row.reason = "rca_rejected" => Reviewed(v)

ViewOK(v) == (v.use = "report" => ReportView(v)) /\ (v.use = "progress" => ProgressView(v))

(* A stored report comes with the worker's evidence.                       *)
EvidenceIsStored == \A i \in Incidents : reports[i] # <<>> => evidence[i] \cap Collected # {}

ViewInv == ViewTypeOK /\ EvidenceIsStored /\ \A r \in Readers : ViewOK(view[r])

(* Committed reports, reviews and notifications are there to stay.         *)
LEMMA TablesGrow ==
  ASSUME ReviewInv, [Next]_vars, NEW i \in Incidents
  PROVE  /\ reports[i] # <<>> => reports'[i] # <<>>
         /\ HasReviewed(i) => HasReviewed(i)'
         /\ notes[i] \subseteq notes'[i]
<1>0. ReviewsOK
  BY DEF ReviewInv
<1>1. CASE UNCHANGED <<reports, notes>>
  BY <1>1 DEF HasReviewed
<1>2. ASSUME NEW s \in Sessions, CommitReview(s)
      PROVE  /\ reports[i] # <<>> => reports'[i] # <<>>
             /\ HasReviewed(i) => HasReviewed(i)'
             /\ notes[i] \subseteq notes'[i]
  <2>1. notes[i] \subseteq notes'[i]
    BY <1>0, <1>2, SessionFacts DEF CommitReview, ReviewsOK, ReviewShapes
  <2> QED
    BY <1>0, <1>2, <2>1, ReviewsGrow
<1>3. UNCHANGED <<reports, notes>> \/ \E s \in Sessions : CommitReview(s)
  BY DEF Next, WorkStep, ReviewStep, ReadIncident, StartInvestigation, InvestigationEnds, ReadReports,
         ReadProgress, SaveReport, AcceptIncident, SaveIncident, InsertReport, StoreStep, reviewVars,
         LoadProgress, FlushProgress, Notify, RollbackReview, vars
<1> QED
  BY <1>1, <1>2, <1>3

(* An answer in the making is not outdated by a step of the others.        *)
LEMMA ViewKept ==
  ASSUME ReviewInv, [Next]_vars, NEW v \in View, ViewOK(v)
  PROVE  ViewOK(v)'
<1>1. v.id \in Incidents
  BY DEF View
<1>2. PICK i \in Incidents : i = v.id
  BY <1>1
<1>3. /\ reports[v.id] # <<>> => reports'[v.id] # <<>>
      /\ HasReviewed(v.id) => HasReviewed(v.id)'
      /\ notes[v.id] \subseteq notes'[v.id]
  BY <1>1, TablesGrow
<1>4. v.use = "report" => ReportView(v)'
  BY <1>3 DEF ViewOK, ReportView, Reviewed
<1>5. v.use = "progress" => ProgressView(v)'
  BY <1>3 DEF ViewOK, ProgressView, Reviewed
<1> QED
  BY <1>4, <1>5 DEF ViewOK

(* A reader without a view.                                                *)
LEMMA NoViewType == NoView \in View /\ ViewOK(NoView) /\ NoView.use = "none" /\ NoView.read = 0
                    /\ NoView.row = NoRow
<1>1. IdleTx.id \in Incidents /\ OPEN \in IncidentState /\ NoRow \in Progress \cup {NoRow}
      /\ <<>> \in Seq(Report)
  BY IdleType, StatesAreDistinct DEF Tx
<1>2. NoView \in View
  BY <1>1, SMT DEF NoView, View
<1>3. NoView.use = "none" /\ NoView.read = 0 /\ NoView.row = NoRow
  BY DEF NoView
<1> QED
  BY <1>2, <1>3 DEF ViewOK

(* A step of RcaReview stores the evidence of the investigation it makes   *)
(* visible.                                                                *)
LEMMA EvidenceFollows ==
  ASSUME ReviewInv, CourseInv, EvidenceIsStored, ViewTypeOK, RunStep
  PROVE  EvidenceIsStored' /\ evidence' \in [Incidents -> SUBSET EvidenceSource]
<1>0. ReviewsOK
  BY DEF ReviewInv
<1>1. PICK found \in SUBSET Collected : (found = {} => reports' = reports) /\ StoreEvidence(found)
  BY DEF RunStep
<1>2. \A i \in Incidents : evidence'[i] = IF i \in claims' \ claims THEN evidence[i] \cup found
                                                                    ELSE evidence[i]
  BY <1>1 DEF StoreEvidence
<1>3. \A i \in Incidents : evidence[i] \subseteq EvidenceSource
  BY DEF ViewTypeOK
<1>4. evidence' \in [Incidents -> SUBSET EvidenceSource]
  <2>1. found \subseteq EvidenceSource
    BY <1>1 DEF EvidenceSource
  <2> QED
    BY <1>1, <1>3, <2>1 DEF StoreEvidence
<1>5. ASSUME NEW i \in Incidents, reports'[i] # <<>>
      PROVE  evidence'[i] \cap Collected # {}
  <2>1. CASE reports[i] # <<>>
    <3>1. evidence[i] \cap Collected # {}
      BY <2>1 DEF EvidenceIsStored
    <3>2. evidence[i] \subseteq evidence'[i]
      BY <1>2
    <3> QED
      BY <3>1, <3>2
  <2>2. CASE reports[i] = <<>>
    <3>1. reports' # reports /\ found # {}
      BY <1>1, <1>5, <2>2
    <3>2. PICK s \in Sessions : CommitReview(s)
      BY <3>1 DEF RunStep, Next, WorkStep, ReviewStep, ReadIncident, StartInvestigation,
         InvestigationEnds, ReadReports, ReadProgress, SaveReport, AcceptIncident, SaveIncident,
         InsertReport, StoreStep, reviewVars, LoadProgress, FlushProgress, Notify, RollbackReview
    <3>3. i = rv[s].id /\ rv[s].add # 0
      BY <1>0, <1>5, <2>2, <3>2, ReviewsGrow
    <3>4. /\ Proc(rv[s]) /\ Course(rv[s])
      BY <1>0, SessionFacts DEF CourseInv
    <3>5. rv[s].op = "investigate"
      BY <2>2, <3>2, <3>3, <3>4 DEF Proc, Course, Reviews, CommitReview
    <3>6. i \in claims' \ claims
      BY <3>2, <3>3, <3>4, <3>5 DEF Course, CommitReview
    <3> QED
      BY <1>1, <1>2, <3>1, <3>6
  <2> QED
    BY <2>1, <2>2
<1> QED
  BY <1>4, <1>5 DEF EvidenceIsStored

(* A reader's step.                                                        *)
LEMMA ViewSteps ==
  ASSUME ViewInv, NEW r \in Readers, NEW new \in View, ViewOK(new), view' = [view EXCEPT ![r] = new],
         UNCHANGED <<rows, reports, progress, notes, evidence>>
  PROVE  ViewInv'
<1>1. \A q \in Readers : view'[q] = IF q = r THEN new ELSE view[q]
  BY DEF ViewInv, ViewTypeOK
<1>2. ViewTypeOK' /\ EvidenceIsStored'
  BY DEF ViewInv, ViewTypeOK, EvidenceIsStored
<1>3. ASSUME NEW q \in Readers PROVE ViewOK(view[q])'
  <2>1. ViewOK(view'[q])
    BY <1>1 DEF ViewInv
  <2> QED
    BY <2>1 DEF ViewOK, ReportView, ProgressView, Reviewed, HasReviewed
<1> QED
  BY <1>2, <1>3 DEF ViewInv

(* A view begins with its incident.                                        *)
LEMMA OpenViewStep ==
  ASSUME ReviewInv, IdentifiedWasReviewed, ViewInv, NEW r \in Readers, NEW i \in Incidents,
         NEW use \in {"progress", "report"}, OpenView(r, i, use)
  PROVE  ViewInv'
<1> DEFINE new == [NoView EXCEPT !.use = use, !.id = i, !.state = rows[i].state]
<1>1. view' = [view EXCEPT ![r] = new] /\ UNCHANGED <<rows, reports, progress, notes, evidence>>
  BY DEF OpenView, vars
<1>2. rows[i].state \in IncidentState
  BY DEF ReviewInv, StoreInv, StoreTypeOK, AllExist, Exists, Row
<1>3. new \in View
  BY <1>2, NoViewType, ZenonT(60) DEF View
<1>4. /\ new.use = use /\ new.id = i /\ new.state = rows[i].state /\ new.read = 0 /\ new.row = NoRow
  BY NoViewType DEF View
<1>5. new.state = IDENTIFIED => HasReviewed(new.id)
  BY <1>4 DEF IdentifiedWasReviewed, HasReviewed
<1> HIDE DEF new
<1>6. ViewOK(new)
  BY <1>4, <1>5 DEF ViewOK, ReportView, ProgressView
<1> QED
  BY <1>1, <1>3, <1>6, ViewSteps

(* A view reads its next table.                                            *)
LEMMA ReadTableStep ==
  ASSUME ReviewInv, CourseInv, ViewInv, NEW r \in Readers, ReadTable(r)
  PROVE  ViewInv'
<1> DEFINE v == view[r]
           t == Reads(v.use)[v.read + 1]
           row == IF t = "progress" THEN progress[v.id] ELSE v.row
           ev == IF t = "evidence" THEN evidence[v.id] ELSE v.evidence
           rep == IF t = "rca" THEN reports[v.id] ELSE v.reports
           log == IF t = "notifications" THEN notes[v.id] ELSE v.notes
           new == [v EXCEPT !.read = v.read + 1, !.row = row, !.evidence = ev, !.reports = rep,
                            !.notes = log]
<1>1. v \in View /\ v.id \in Incidents /\ ViewOK(v)
  BY DEF ViewInv, ViewTypeOK, View
<1>2. /\ view' = [view EXCEPT ![r] = new] /\ UNCHANGED <<rows, reports, progress, notes, evidence>>
      /\ v.use # "none" /\ v.read < Len(Reads(v.use))
  BY DEF ReadTable, vars
<1>3. /\ v.use \in {"none", "progress", "report"} /\ v.read \in 0 .. 4 /\ v.row \in Progress \cup {NoRow}
      /\ v.evidence \subseteq EvidenceSource /\ v.reports \in Seq(Report) /\ v.notes \subseteq Note
  BY <1>1 DEF View
<1>4. /\ progress[v.id] \in Progress \cup {NoRow} /\ evidence[v.id] \subseteq EvidenceSource
      /\ reports[v.id] \in Seq(Report) /\ notes[v.id] \subseteq Note
  BY <1>1 DEF ReviewInv, ReviewsOK, ReviewShapes, ViewInv, ViewTypeOK
<1>5. \/ v.use = "progress" /\ v.read \in {0, 1, 2}
      \/ v.use = "report" /\ v.read \in {0, 1, 2, 3}
  BY <1>2, <1>3 DEF Reads
<1>6. /\ v.use = "progress" => /\ v.read = 0 => t = "progress"
                               /\ v.read = 1 => t = "evidence"
                               /\ v.read = 2 => t = "rca"
      /\ v.use = "report" => /\ v.read = 0 => t = "evidence"
                             /\ v.read = 1 => t = "rca"
                             /\ v.read = 2 => t = "progress"
                             /\ v.read = 3 => t = "notifications"
  BY DEF Reads
<1> HIDE DEF t
<1>7. /\ row \in Progress \cup {NoRow} /\ ev \in SUBSET EvidenceSource /\ rep \in Seq(Report)
      /\ log \in SUBSET Note
  BY <1>3, <1>4
<1>8. v.read + 1 \in 0 .. 4
  BY <1>5
<1>9. /\ t = "progress" => row = progress[v.id] /\ ev = v.evidence /\ rep = v.reports /\ log = v.notes
      /\ t = "evidence" => row = v.row /\ ev = evidence[v.id] /\ rep = v.reports /\ log = v.notes
      /\ t = "rca" => row = v.row /\ ev = v.evidence /\ rep = reports[v.id] /\ log = v.notes
      /\ t = "notifications" => row = v.row /\ ev = v.evidence /\ rep = v.reports /\ log = notes[v.id]
  OBVIOUS
<1> HIDE DEF row, ev, rep, log
<1>10. new \in View
  BY <1>1, <1>7, <1>8, ZenonT(60) DEF View
<1>11. /\ new.use = v.use /\ new.id = v.id /\ new.state = v.state /\ new.read = v.read + 1
       /\ new.row = row /\ new.evidence = ev /\ new.reports = rep /\ new.notes = log
  BY <1>1 DEF View
<1> HIDE DEF new
<1>12. CASE v.use = "report"
  <2> USE <1>11, <1>12
  <2>0. ReportView(v)
    BY <1>1 DEF ViewOK
  <2>1. ASSUME v.read = 0 PROVE ViewOK(new)
    <3>1. v.state = IDENTIFIED => ev \cap Collected # {}
      <4>1. HasReviewed(v.id) => reports[v.id] # <<>>
        BY DEF HasReviewed
      <4>2. reports[v.id] # <<>> => evidence[v.id] \cap Collected # {}
        BY <1>1 DEF ViewInv, EvidenceIsStored
      <4> QED
        BY <1>6, <1>9, <2>0, <2>1, <4>1, <4>2 DEF ReportView
    <3>2. new.read = 1
      BY <2>1
    <3> QED
      BY <2>0, <3>1, <3>2 DEF ViewOK, ReportView
  <2>2. ASSUME v.read = 1 PROVE ViewOK(new)
    <3>1. rep = reports[v.id] /\ ev = v.evidence /\ new.read = 2
      BY <1>6, <1>9, <2>2
    <3>2. \A n \in DOMAIN rep : <<"rca_ready", rep[n].version>> \in notes[v.id]
      BY <1>1, <3>1 DEF ReviewInv, ReviewsOK, ReviewIsAnnounced
    <3>3. HasReviewed(v.id) => Reviewed(new)
      BY <3>1 DEF HasReviewed, Reviewed
    <3>4. v.state = IDENTIFIED => HasReviewed(v.id) /\ v.evidence \cap Collected # {}
      BY <2>0, <2>2 DEF ReportView
    <3> QED
      BY <3>1, <3>2, <3>3, <3>4 DEF ViewOK, ReportView
  <2>3. ASSUME v.read = 2 PROVE ViewOK(new)
    <3>1. rep = v.reports /\ ev = v.evidence /\ new.read = 3
      BY <1>6, <1>9, <2>3
    <3>2. Reviewed(v) => Reviewed(new)
      BY <3>1 DEF Reviewed
    <3> QED
      BY <2>0, <2>3, <3>1, <3>2 DEF ViewOK, ReportView
  <2>4. ASSUME v.read = 3 PROVE ViewOK(new)
    <3>1. rep = v.reports /\ ev = v.evidence /\ log = notes[v.id] /\ new.read = 4
      BY <1>6, <1>9, <2>4
    <3>2. Reviewed(v) => Reviewed(new)
      BY <3>1 DEF Reviewed
    <3> QED
      BY <2>0, <2>4, <3>1, <3>2 DEF ViewOK, ReportView
  <2>5. ViewOK(new)
    BY <1>5, <2>1, <2>2, <2>3, <2>4
  <2> QED
    BY <1>2, <1>10, <2>5, ViewSteps
<1>13. CASE v.use = "progress"
  <2> USE <1>11, <1>13
  <2>0. ProgressView(v)
    BY <1>1 DEF ViewOK
  <2>1. ASSUME v.read = 0 PROVE ViewOK(new)
    <3>1. row = progress[v.id] /\ new.read = 1
      BY <1>6, <1>9, <2>1
    <3>2. /\ row.status = "pending_review" => reports[v.id] # <<>>
          /\ row.reason = "rca_rejected" => HasReviewed(v.id)
      BY <1>1, <3>1 DEF CourseInv, ProgressHasItsReport
    <3> QED
      BY <2>0, <3>1, <3>2 DEF ViewOK, ProgressView
  <2>2. ASSUME v.read = 1 PROVE ViewOK(new)
    <3>1. row = v.row /\ new.read = 2
      BY <1>6, <1>9, <2>2
    <3> QED
      BY <2>0, <2>2, <3>1 DEF ViewOK, ProgressView
  <2>3. ASSUME v.read = 2 PROVE ViewOK(new)
    <3>1. row = v.row /\ rep = reports[v.id] /\ new.read = 3
      BY <1>6, <1>9, <2>3
    <3>2. HasReviewed(v.id) => Reviewed(new)
      BY <3>1 DEF HasReviewed, Reviewed
    <3> QED
      BY <2>0, <2>3, <3>1, <3>2 DEF ViewOK, ProgressView
  <2>4. ViewOK(new)
    BY <1>5, <2>1, <2>2, <2>3
  <2> QED
    BY <1>2, <1>10, <2>4, ViewSteps
<1> QED
  BY <1>5, <1>12, <1>13

(* Every step preserves ViewInv.                                           *)
LEMMA ViewStays ==
  ASSUME ReviewInv, CourseInv, IdentifiedWasReviewed, ViewInv, [ViewNext]_viewVars
  PROVE  ViewInv'
<1>1. ASSUME UNCHANGED view, ViewTypeOK', EvidenceIsStored', [Next]_vars
      PROVE  ViewInv'
  <2>1. ASSUME NEW r \in Readers PROVE ViewOK(view[r])'
    <3>1. PICK v \in View : v = view[r]
      BY DEF ViewInv, ViewTypeOK
    <3>2. ViewOK(v)'
      BY <1>1, <3>1, ViewKept DEF ViewInv
    <3>3. view'[r] = v
      BY <1>1, <3>1
    <3> QED
      BY <3>2, <3>3 DEF ViewOK, ReportView, ProgressView, Reviewed, HasReviewed
  <2> QED
    BY <1>1, <2>1 DEF ViewInv
<1>2. CASE RunStep
  <2>1. UNCHANGED view /\ [Next]_vars
    BY <1>2 DEF RunStep
  <2>2. EvidenceIsStored' /\ evidence' \in [Incidents -> SUBSET EvidenceSource]
    BY <1>2, EvidenceFollows DEF ViewInv
  <2>3. ViewTypeOK'
    BY <2>1, <2>2 DEF ViewInv, ViewTypeOK
  <2> QED
    BY <1>1, <2>1, <2>2, <2>3
<1>3. ASSUME NEW i \in Incidents, AddManualEvidence(i) PROVE ViewInv'
  <2>1. UNCHANGED view /\ UNCHANGED vars /\ evidence' = [evidence EXCEPT ![i] = @ \cup {"manual"}]
    BY <1>3 DEF AddManualEvidence
  <2>2. evidence \in [Incidents -> SUBSET EvidenceSource]
    BY DEF ViewInv, ViewTypeOK
  <2>3. evidence' \in [Incidents -> SUBSET EvidenceSource]
        /\ \A j \in Incidents : evidence[j] \subseteq evidence'[j]
    BY <2>1, <2>2 DEF EvidenceSource
  <2>4. EvidenceIsStored' /\ ViewTypeOK'
    BY <2>1, <2>3 DEF ViewInv, ViewTypeOK, EvidenceIsStored, vars
  <2> QED
    BY <1>1, <2>1, <2>4
<1>4. CASE UNCHANGED viewVars
  <2>1. UNCHANGED <<view, evidence>> /\ UNCHANGED vars
    BY <1>4 DEF viewVars
  <2>2. EvidenceIsStored' /\ ViewTypeOK'
    BY <2>1 DEF ViewInv, ViewTypeOK, EvidenceIsStored, vars
  <2> QED
    BY <1>1, <2>1, <2>2
<1>5. ASSUME NEW r \in Readers, Respond(r) PROVE ViewInv'
  <2>1. view' = [view EXCEPT ![r] = NoView] /\ UNCHANGED <<rows, reports, progress, notes, evidence>>
    BY <1>5 DEF Respond, vars
  <2> QED
    BY <2>1, NoViewType, ViewSteps
<1> QED
  BY <1>2, <1>3, <1>4, <1>5, OpenViewStep, ReadTableStep DEF ViewNext

(* ViewInv holds in the initial states.                                    *)
LEMMA ViewInitInv ==
  ASSUME ViewInit
  PROVE  ViewInv
<1>1. \A i \in Incidents : reports[i] = <<>>
  BY DEF ViewInit, Init
<1>2. ViewTypeOK
  BY NoViewType DEF ViewInit, ViewTypeOK
<1>3. \A r \in Readers : view[r] = NoView
  BY DEF ViewInit
<1> QED
  BY <1>1, <1>2, <1>3, NoViewType DEF ViewInv, EvidenceIsStored

(* The reads of an answer interleave with everything the sessions do.      *)
THEOREM ViewInvariance ==
  ASSUME IDENTIFIED \notin Targets
  PROVE  ViewSpec => []ViewInv
<1> DEFINE I == ReviewInv /\ CourseInv /\ StateFrom(IDENTIFIED, "accept") /\ IdentifiedWasReviewed
<1>1. ViewInit => I /\ ViewInv
  BY ReviewInitInv, CourseInit, ViewInitInv DEF ViewInit
<1>2. I /\ ViewInv /\ [ViewNext]_viewVars => I' /\ ViewInv'
  <2>1. [ViewNext]_viewVars => [Next]_vars
    BY DEF ViewNext, viewVars, RunStep, OpenView, ReadTable, Respond, AddManualEvidence
  <2>2. I /\ [Next]_vars => I'
    BY ReviewsStay, CourseStays, StateFromStays, IdentifiedStays
  <2> QED
    BY <2>1, <2>2, ViewStays
<1> QED
  BY <1>1, <1>2, PTL DEF ViewSpec

(* What a step makes of the views and the evidence has their types,        *)
(* whatever clients PATCH.                                                 *)
LEMMA ViewTypesStay ==
  ASSUME ReviewInv, ViewTypeOK, [ViewNext]_viewVars
  PROVE  ViewTypeOK'
<1>1. CASE RunStep
  <2>1. PICK found \in SUBSET Collected : StoreEvidence(found)
    BY <1>1 DEF RunStep
  <2>2. evidence' \in [Incidents -> SUBSET EvidenceSource]
    BY <2>1 DEF StoreEvidence, EvidenceSource, ViewTypeOK
  <2> QED
    BY <1>1, <2>2 DEF RunStep, ViewTypeOK
<1>2. ASSUME NEW r \in Readers, NEW i \in Incidents, NEW use \in {"progress", "report"},
             OpenView(r, i, use)
      PROVE  ViewTypeOK'
  <2> DEFINE new == [NoView EXCEPT !.use = use, !.id = i, !.state = rows[i].state]
  <2>1. rows[i].state \in IncidentState
    BY <1>2 DEF OpenView, ReviewInv, StoreInv, StoreTypeOK, AllExist, Exists, Row
  <2>2. new \in View
    BY <2>1, NoViewType, ZenonT(60) DEF View
  <2>3. view' = [view EXCEPT ![r] = new] /\ UNCHANGED evidence
    BY <1>2 DEF OpenView
  <2> QED
    BY <2>2, <2>3 DEF ViewTypeOK
<1>3. ASSUME NEW r \in Readers, ReadTable(r) PROVE ViewTypeOK'
  <2> DEFINE v == view[r]
             t == Reads(v.use)[v.read + 1]
             row == IF t = "progress" THEN progress[v.id] ELSE v.row
             ev == IF t = "evidence" THEN evidence[v.id] ELSE v.evidence
             rep == IF t = "rca" THEN reports[v.id] ELSE v.reports
             log == IF t = "notifications" THEN notes[v.id] ELSE v.notes
             new == [v EXCEPT !.read = v.read + 1, !.row = row, !.evidence = ev,
                              !.reports = rep, !.notes = log]
  <2>1. v \in View
    BY DEF ViewTypeOK
  <2>2. /\ view' = [view EXCEPT ![r] = new] /\ UNCHANGED evidence
        /\ v.use # "none" /\ v.read < Len(Reads(v.use))
    BY <1>3 DEF ReadTable
  <2>3. v.use \in {"none", "progress", "report"} /\ v.read \in 0 .. 4 /\ v.id \in Incidents
        /\ v.row \in Progress \cup {NoRow} /\ v.evidence \subseteq EvidenceSource
        /\ v.reports \in Seq(Report) /\ v.notes \subseteq Note
    BY <2>1 DEF View
  <2>4. v.read + 1 \in 0 .. 4
    BY <2>2, <2>3 DEF Reads
  <2>5. /\ progress[v.id] \in Progress \cup {NoRow} /\ evidence[v.id] \subseteq EvidenceSource
        /\ reports[v.id] \in Seq(Report) /\ notes[v.id] \subseteq Note
    BY <2>3 DEF ReviewInv, ReviewsOK, ReviewShapes, ViewTypeOK
  <2> HIDE DEF t
  <2>6. /\ row \in Progress \cup {NoRow} /\ ev \in SUBSET EvidenceSource
        /\ rep \in Seq(Report) /\ log \in SUBSET Note
    BY <2>3, <2>5
  <2> HIDE DEF row, ev, rep, log
  <2>7. new \in View
    BY <2>1, <2>4, <2>6, ZenonT(60) DEF View
  <2> HIDE DEF new
  <2> QED
    BY <2>2, <2>7 DEF ViewTypeOK
<1>4. ASSUME NEW r \in Readers, Respond(r) PROVE ViewTypeOK'
  BY <1>4, NoViewType DEF Respond, ViewTypeOK
<1>5. ASSUME NEW i \in Incidents, AddManualEvidence(i) PROVE ViewTypeOK'
  BY <1>5 DEF AddManualEvidence, ViewTypeOK, EvidenceSource
<1>6. CASE UNCHANGED viewVars
  BY <1>6 DEF viewVars, ViewTypeOK
<1> QED
  BY <1>1, <1>2, <1>3, <1>4, <1>5, <1>6 DEF ViewNext

(* Every answer keeps the shape of its DTO, whatever clients ask for.      *)
THEOREM ViewTypeCorrect == ViewSpec => []ViewTypeOK
<1>1. ViewInit => ReviewInv /\ ViewTypeOK
  BY ReviewInitInv, ViewInitInv DEF ViewInit, ViewInv
<1>2. ReviewInv /\ ViewTypeOK /\ [ViewNext]_viewVars => ReviewInv' /\ ViewTypeOK'
  <2>1. [ViewNext]_viewVars => [Next]_vars
    BY DEF ViewNext, viewVars, RunStep, OpenView, ReadTable, Respond, AddManualEvidence
  <2> QED
    BY <2>1, ReviewsStay, ViewTypesStay
<1> QED
  BY <1>1, <1>2, PTL DEF ViewSpec

(* BuildPostIncidentReport: a report read from four tables at four moments *)
(* announces every version it lists, and on an identified incident it has  *)
(* the worker's evidence and a reviewed version; unless an engineer set    *)
(* the state by hand.                                                      *)
THEOREM ReportsAreWhole ==
  ASSUME IDENTIFIED \notin Targets
  PROVE  ViewSpec => []ReportIsWhole
<1>1. ViewInv => ReportIsWhole
  <2> SUFFICES ASSUME ViewInv, NEW r \in Readers, Answered(r), view[r].use = "report"
               PROVE  /\ \A n \in DOMAIN view[r].reports :
                           <<"rca_ready", view[r].reports[n].version>> \in view[r].notes
                      /\ view[r].state = IDENTIFIED =>
                           Reviewed(view[r]) /\ view[r].evidence \cap Collected # {}
    BY DEF ReportIsWhole
  <2>1. view[r].read = 4
    BY DEF Answered, Reads
  <2> QED
    BY <2>1 DEF ViewInv, ViewOK, ReportView
<1> QED
  BY <1>1, ViewInvariance, PTL

(* GetInvestigationProgress: the reports of an answer are read last and    *)
(* are never behind its other fields; unless an engineer set the state by  *)
(* hand.                                                                   *)
THEOREM ProgressShowsItsReports ==
  ASSUME IDENTIFIED \notin Targets
  PROVE  ViewSpec => []ProgressIsNotBehind
<1>1. ViewInv => ProgressIsNotBehind
  <2> SUFFICES ASSUME ViewInv, NEW r \in Readers, Answered(r), view[r].use = "progress"
               PROVE  /\ ShownStatus(view[r]) = "pending_review" => view[r].reports # <<>>
                      /\ view[r].state = IDENTIFIED \/ view[r].row.reason = "rca_rejected"
                           => Reviewed(view[r])
    BY DEF ProgressIsNotBehind
  <2>1. view[r].read = 3
    BY DEF Answered, Reads
  <2>2. ProgressView(view[r])
    BY DEF ViewInv, ViewOK
  <2> QED
    BY <2>1, <2>2 DEF ProgressView, ShownStatus, inferred_status
<1> QED
  BY <1>1, ViewInvariance, PTL

---------------------------------------------------------------------------
(* The incidents table does not tell a review from a request.  accept      *)
(* reads the incident first and changes the entity some steps later; seen  *)
(* from the table, its session is a PATCH to identified from the read on,  *)
(* which TxBar makes of it.                                                *)

(* The transaction of a PATCH to identified of what s has read.            *)
Reading(s) == [IdleTx EXCEPT !.pc    = "read",
                             !.id    = rv[s].id,
                             !.seen  = INVESTIGATING,
                             !.state = IDENTIFIED,
                             !.steps = {<<INVESTIGATING, IDENTIFIED>>}]

(* The transactions as the table sees them.                                *)
TxBar == [s \in Sessions |-> IF rv[s].seen = INVESTIGATING THEN Reading(s) ELSE tx[s]]

(* The table with every session a request session.                         *)
Table == INSTANCE IncidentStore WITH ApiSessions <- Sessions, Workers <- {},
           Targets <- Targets \cup {INVESTIGATING, IDENTIFIED}, tx <- TxBar

(* What accept has read but not yet changed is kept by no transaction, and *)
(* no use case creates an incident.                                        *)
ReviewTx ==
  \A s \in Sessions :
    /\ rv[s].seen = INVESTIGATING => tx[s] = IdleTx
    /\ rv[s].pc # "idle" => ~tx[s].created
    /\ tx[s].pc = "idle" => tx[s] = IdleTx

---------------------------------------------------------------------------
(* The steps of a use case that touch neither the table nor what accept    *)
(* has read of the incident.                                               *)
LEMMA QuietSeen ==
  ASSUME ReviewsOK, NEW s \in Sessions,
         \/ ReadReports(s) \/ ReadProgress(s) \/ SaveReport(s) \/ InsertReport(s)
         \/ LoadProgress(s) \/ FlushProgress(s) \/ Notify(s)
         \/ \E o \in Outcomes : InvestigationEnds(s, o)
  PROVE  /\ rv'[s].seen = rv[s].seen /\ rv'[s].id = rv[s].id /\ rv[s].pc # "idle"
         /\ \A t \in Sessions \ {s} : rv'[t] = rv[t]
         /\ UNCHANGED storeVars
<1>1. rv \in [Sessions -> Review] /\ rv[s] \in Review
  BY SessionFacts
<1>2. UNCHANGED storeVars
  BY DEF ReadReports, ReadProgress, SaveReport, InsertReport, LoadProgress, FlushProgress,
         Notify, InvestigationEnds, storeVars
<1> DEFINE Same == /\ rv'[s].seen = rv[s].seen /\ rv'[s].id = rv[s].id /\ rv[s].pc # "idle"
                   /\ \A t \in Sessions \ {s} : rv'[t] = rv[t]
<1>3. CASE ReadReports(s)
  <2>1. PICK n, r : Decided(s, n, r)
    BY <1>3 DEF ReadReports
  <2>2. CASE rv[s].op = "amend"
    <3>1. rv' = [rv EXCEPT ![s].pc = "insert", ![s].add = r.version + 1]
      BY <2>1, <2>2 DEF Decided
    <3>2. QED
      BY <1>1, <1>2, <1>3, <3>1 DEF Review, ReadReports
  <2>3. CASE rv[s].op # "amend"
    <3> DEFINE st == IF rv[s].op = "accept" THEN "accepted" ELSE "rejected"
               pc == IF rv[s].op = "accept" THEN "incident" ELSE "progress"
    <3>1. \/ rv' = [rv EXCEPT ![s].pc = pc]
          \/ rv' = [rv EXCEPT ![s].pc = "report", ![s].pos = n, ![s].set = st]
      BY <2>1, <2>3 DEF Decided
    <3> HIDE DEF st, pc
    <3>2. CASE rv' = [rv EXCEPT ![s].pc = pc]
      BY <1>1, <1>2, <1>3, <3>2 DEF Review, ReadReports
    <3>3. CASE rv' = [rv EXCEPT ![s].pc = "report", ![s].pos = n, ![s].set = st]
      BY <1>1, <1>2, <1>3, <3>3 DEF Review, ReadReports
    <3>4. QED
      BY <3>1, <3>2, <3>3
  <2>4. QED
    BY <2>2, <2>3, <1>2
<1>4. CASE ReadProgress(s)
  <2>1. PICK a, b, save : \/ rv' = [rv EXCEPT ![s].pc = a]
                          \/ rv' = [rv EXCEPT ![s].pc = a, ![s].prog = b, ![s].save = save]
    BY <1>4 DEF ReadProgress
  <2>2. QED
    BY <1>1, <1>2, <1>4, <2>1 DEF Review, ReadProgress
<1>5. CASE SaveReport(s)
  <2>1. PICK a : \/ rv' = [rv EXCEPT ![s].pc = a]
                 \/ rv' = [rv EXCEPT ![s].pc = a, ![s].pos = 0, ![s].set = ""]
    BY <1>5 DEF SaveReport
  <2>2. CASE rv' = [rv EXCEPT ![s].pc = a]
    BY <1>1, <1>2, <1>5, <2>2 DEF Review, SaveReport
  <2>3. CASE rv' = [rv EXCEPT ![s].pc = a, ![s].pos = 0, ![s].set = ""]
    BY <1>1, <1>2, <1>5, <2>3 DEF Review, SaveReport
  <2>4. QED
    BY <2>1, <2>2, <2>3
<1>6. CASE InsertReport(s)
  BY <1>1, <1>2, <1>6 DEF Review, InsertReport
<1>7. CASE LoadProgress(s)
  <2>1. PICK b : rv' = [rv EXCEPT ![s].pc = "flush", ![s].prog = NoRow, ![s].base = b]
    BY <1>7 DEF LoadProgress
  <2>2. QED
    BY <1>1, <1>2, <1>7, <2>1 DEF Review, LoadProgress
<1>8. CASE FlushProgress(s)
  <2>1. PICK a : rv' = [rv EXCEPT ![s].pc = a, ![s].stored = TRUE]
    BY <1>8 DEF FlushProgress
  <2>2. QED
    <3> DEFINE new == [rv[s] EXCEPT !.pc = a, !.stored = TRUE]
    <3>1. rv' = [rv EXCEPT ![s] = new] /\ rv[s].pc # "idle"
      BY <1>1, <1>8, <2>1 DEF FlushProgress
    <3>2. new.seen = rv[s].seen /\ new.id = rv[s].id
      BY <1>1 DEF Review
    <3> HIDE DEF new
    <3>3. QED
      BY <1>2, <3>1, <3>2, SessionUpdate
<1>9. CASE Notify(s)
  <2>1. PICK a, n : \/ rv' = [rv EXCEPT ![s].pc = a]
                    \/ rv' = [rv EXCEPT ![s].pc = a, ![s].notes = @ \cup {n}]
    BY <1>9 DEF Notify
  <2>2. CASE rv' = [rv EXCEPT ![s].pc = a]
    BY <1>1, <1>2, <1>9, <2>2 DEF Review, Notify
  <2>3. CASE rv' = [rv EXCEPT ![s].pc = a, ![s].notes = @ \cup {n}]
    BY <1>1, <1>2, <1>9, <2>3 DEF Review, Notify
  <2>4. QED
    BY <2>1, <2>2, <2>3
<1>10. CASE \E o \in Outcomes : InvestigationEnds(s, o)
  <2>1. PICK o \in Outcomes : InvestigationEnds(s, o)
    BY <1>10
  <2> DEFINE pc == IF o.report THEN "insert" ELSE "load"
             add == IF o.report THEN 1 ELSE 0
  <2>2. rv' = [rv EXCEPT ![s].pc = pc, ![s].add = add, ![s].save = o.save] /\ rv[s].pc = "saving"
    BY <2>1 DEF InvestigationEnds
  <2> HIDE DEF pc, add
  <2>3. QED
    BY <1>1, <1>2, <2>2 DEF Review
<1>11. QED
  BY <1>2, <1>3, <1>4, <1>5, <1>6, <1>7, <1>8, <1>9, <1>10

---------------------------------------------------------------------------
(* Nobody has a transaction at the start.                                  *)
LEMMA ReviewTxInit == Init => ReviewTx
<1> SUFFICES ASSUME Init PROVE ReviewTx
  OBVIOUS
<1>1. \A s \in Sessions : tx[s] = IdleTx /\ rv[s] = NoReview
  BY DEF Init
<1>2. QED
  BY <1>1, NoReviewFields, StatesDiffer DEF ReviewTx

(* A step of one session.                                                  *)
LEMMA OneSessionTx ==
  ASSUME ReviewTx, NEW s \in Sessions,
         \A t \in Sessions \ {s} : tx'[t] = tx[t] /\ rv'[t] = rv[t],
         rv'[s].seen = INVESTIGATING => tx'[s] = IdleTx,
         rv'[s].pc # "idle" => ~tx'[s].created,
         tx'[s].pc = "idle" => tx'[s] = IdleTx
  PROVE  ReviewTx'
BY DEF ReviewTx

(* Every step of a request leaves its session idle or in a transaction.    *)
LEMMA RequestLeaves ==
  ASSUME tx \in [Sessions -> Tx], NEW s \in Sessions, RequestStep(s) \/ PublishOpened(s)
  PROVE  \E r : tx' = [tx EXCEPT ![s] = r] /\ (r.pc = "idle" => r = IdleTx)
<1>1. CASE Rollback(s) \/ LoseOpened(s) \/ PublishOpened(s)
  BY <1>1 DEF Rollback, LoseOpened, PublishOpened
<1>2. CASE Commit(s)
  <2> DEFINE r == [IdleTx EXCEPT !.pc = "publish", !.id = tx[s].id]
  <2>1. tx' = [tx EXCEPT ![s] = r] \/ tx' = [tx EXCEPT ![s] = IdleTx]
    BY <1>2 DEF Commit
  <2>2. r.pc = "publish"
    BY DEF IdleTx
  <2> HIDE DEF r
  <2>3. QED
    BY <2>1, <2>2
<1>3. CASE FlushUpdate(s)
  <2> DEFINE r == [IdleTx EXCEPT !.pc = "flushed", !.id = tx[s].id, !.row = UpdatedRow(s)]
  <2>1. tx' = [tx EXCEPT ![s] = r]
    BY <1>3 DEF FlushUpdate
  <2>2. r.pc = "flushed"
    BY DEF IdleTx
  <2> HIDE DEF r
  <2>3. QED
    BY <2>1, <2>2
<1>4. CASE \E i, f : FlushInsert(s, i, f)
  <2>1. PICK i, f : FlushInsert(s, i, f)
    BY <1>4
  <2> DEFINE new == [state |-> OPEN, fp |-> f, history |-> {}]
             r == [IdleTx EXCEPT !.pc = "flushed", !.id = i, !.row = new, !.created = TRUE]
  <2>2. tx' = [tx EXCEPT ![s] = r]
    BY <2>1 DEF FlushInsert
  <2>3. r.pc = "flushed"
    BY DEF IdleTx
  <2> HIDE DEF r
  <2>4. QED
    BY <2>2, <2>3
<1>5. CASE \E i, f : IngestFound(s, i, f)
  <2>1. PICK i, f : IngestFound(s, i, f)
    BY <1>5
  <2> DEFINE r == [IdleTx EXCEPT !.pc = "read", !.id = i]
  <2>2. tx' = [tx EXCEPT ![s] = r] /\ r.pc = "read"
    BY <2>1 DEF IngestFound, IdleTx
  <2> HIDE DEF r
  <2>3. QED
    BY <2>2
<1>6. CASE \E f : IngestNotFound(s, f)
  <2>1. PICK f : IngestNotFound(s, f)
    BY <1>6
  <2> DEFINE r == [IdleTx EXCEPT !.pc = "insert", !.fp = f]
  <2>2. tx' = [tx EXCEPT ![s] = r] /\ r.pc = "insert"
    BY <2>1 DEF IngestNotFound, IdleTx
  <2> HIDE DEF r
  <2>3. QED
    BY <2>2
<1>7. CASE \E i, target : PatchState(s, i, target)
  <2>1. PICK i, target : PatchState(s, i, target)
    BY <1>7
  <2> DEFINE r == [IdleTx EXCEPT !.pc = "read", !.id = i, !.seen = rows[i].state,
                                 !.state = target, !.steps = {<<rows[i].state, target>>}]
  <2>2. tx' = [tx EXCEPT ![s] = r]
    BY <2>1 DEF PatchState, ReadForTransition
  <2>3. r.pc = "read"
    BY DEF IdleTx
  <2> HIDE DEF r
  <2>4. QED
    BY <2>2, <2>3
<1>8. CASE Load(s)
  <2>1. PICK b : tx' = [tx EXCEPT ![s] = [IdleTx EXCEPT !.pc    = "load",
                                                        !.id    = tx[s].id,
                                                        !.state = tx[s].state,
                                                        !.steps = tx[s].steps,
                                                        !.base  = b]]
    BY <1>8 DEF Load
  <2> DEFINE r == [IdleTx EXCEPT !.pc = "load", !.id = tx[s].id, !.state = tx[s].state,
                                 !.steps = tx[s].steps, !.base = b]
  <2>2. r.pc = "load"
    BY DEF IdleTx
  <2>3. tx' = [tx EXCEPT ![s] = r]
    BY <2>1
  <2> HIDE DEF r
  <2>4. QED
    BY <2>2, <2>3
<1>9. QED
  BY <1>1, <1>2, <1>3, <1>4, <1>5, <1>6, <1>7, <1>8
     DEF RequestStep, PostIncident, IngestInsert

(* Every step keeps ReviewTx.                                              *)
LEMMA ReviewTxNext ==
  ASSUME ReviewInv, ReviewTx, [Next]_vars
  PROVE  ReviewTx'
<1>0. /\ tx \in [Sessions -> Tx] /\ rv \in [Sessions -> Review] /\ ReviewsOK
      /\ ~IdleTx.created /\ IdleTx.pc = "idle"
      /\ ApiSessions \subseteq Sessions /\ Workers \subseteq Sessions
  BY DEF ReviewInv, ReviewsOK, ReviewShapes, StoreInv, StoreTypeOK, IdleTx, Sessions
<1>1. ASSUME NEW s \in ApiSessions, StoreStep(s) PROVE ReviewTx'
  <2>1. rv' = rv /\ rv[s] = NoReview /\ s \in Sessions
    BY <1>0, <1>1, SessionFacts DEF StoreStep, reviewVars, Proc
  <2>2. PICK r : tx' = [tx EXCEPT ![s] = r] /\ (r.pc = "idle" => r = IdleTx)
    BY <1>0, <1>1, <2>1, RequestLeaves DEF StoreStep
  <2>3. (\A t \in Sessions \ {s} : tx'[t] = tx[t]) /\ tx'[s] = r
    BY <1>0, <2>1, <2>2
  <2>4. QED
    BY <2>1, <2>2, <2>3, OneSessionTx, NoReviewFields, StatesDiffer
<1>2. ASSUME NEW s \in Sessions,
             \/ ReadReports(s) \/ ReadProgress(s) \/ SaveReport(s) \/ InsertReport(s)
             \/ LoadProgress(s) \/ FlushProgress(s) \/ Notify(s)
             \/ \E o \in Outcomes : InvestigationEnds(s, o)
      PROVE  ReviewTx'
  <2>1. /\ rv'[s].seen = rv[s].seen /\ rv[s].pc # "idle"
        /\ \A t \in Sessions \ {s} : rv'[t] = rv[t]
        /\ tx' = tx
    BY <1>0, <1>2, QuietSeen DEF storeVars
  <2>2. QED
    BY <2>1, OneSessionTx DEF ReviewTx
<1>3. ASSUME NEW s \in ApiSessions, NEW i \in Incidents, NEW op \in Requests, ReadIncident(s, i, op)
      PROVE  ReviewTx'
  <2>1. PICK new : rv' = [rv EXCEPT ![s] = new]
    BY <1>3 DEF ReadIncident
  <2>2. tx' = tx /\ tx[s] = IdleTx
    BY <1>0, <1>3 DEF ReadIncident, Free, ReviewTx
  <2>3. QED
    BY <1>0, <2>1, <2>2, OneSessionTx
<1>4. ASSUME NEW w \in Workers, NEW i \in Incidents, StartInvestigation(w, i) PROVE ReviewTx'
  <2> DEFINE new == [NoReview EXCEPT !.op = "investigate", !.pc = "saving", !.id = i]
  <2>1. rv' = [rv EXCEPT ![w] = new] /\ new.seen = OPEN
    BY <1>4, NoReviewType DEF StartInvestigation, NoReview
  <2> HIDE DEF new
  <2>2. /\ \A t \in Sessions \ {w} : tx'[t] = tx[t]
        /\ tx'[w].pc = "read" /\ ~tx'[w].created
    BY <1>0, <1>4 DEF StartInvestigation, ReadForTransition, IdleTx
  <2>3. QED
    BY <1>0, <2>1, <2>2, OneSessionTx, StatesDiffer
<1>5. ASSUME NEW s \in Sessions, AcceptIncident(s) PROVE ReviewTx'
  <2> DEFINE new == [rv[s] EXCEPT !.pc = IF rv[s].seen = INVESTIGATING THEN "saving" ELSE "ready",
                                  !.seen = OPEN]
  <2>1. rv' = [rv EXCEPT ![s] = new] /\ new.seen = OPEN
    BY <1>0, <1>5 DEF AcceptIncident, Review
  <2> HIDE DEF new
  <2>2. CASE rv[s].seen = INVESTIGATING
    <3>1. tx' = [tx EXCEPT ![s] = Reading(s)]
      BY <1>5, <2>2 DEF AcceptIncident, Reading
    <3>2. Reading(s).pc = "read" /\ ~Reading(s).created
      BY DEF Reading, IdleTx
    <3>3. QED
      BY <1>0, <2>1, <3>1, <3>2, OneSessionTx, StatesDiffer
  <2>3. CASE rv[s].seen # INVESTIGATING
    <3>1. tx' = tx /\ rv[s].pc = "incident"
      BY <1>5, <2>3 DEF AcceptIncident
    <3>2. QED
      BY <1>0, <2>1, <3>1, OneSessionTx, StatesDiffer DEF ReviewTx
  <2>4. QED
    BY <2>2, <2>3
<1>6. ASSUME NEW s \in Sessions, SaveIncident(s) PROVE ReviewTx'
  <2>1. rv' = rv /\ tx[s].pc # "idle"
    BY <1>6 DEF SaveIncident, reviewVars, Load, FlushUpdate
  <2>2. /\ \A t \in Sessions \ {s} : tx'[t] = tx[t]
        /\ tx'[s].pc # "idle" /\ ~tx'[s].created
    <3>1. CASE Load(s)
      <4>1. PICK b : tx' = [tx EXCEPT ![s] = [IdleTx EXCEPT !.pc    = "load",
                                                            !.id    = tx[s].id,
                                                            !.state = tx[s].state,
                                                            !.steps = tx[s].steps,
                                                            !.base  = b]]
        BY <3>1 DEF Load
      <4>2. QED
        BY <1>0, <4>1 DEF IdleTx
    <3>2. CASE FlushUpdate(s)
      BY <1>0, <3>2 DEF FlushUpdate, IdleTx
    <3>3. QED
      BY <1>6, <3>1, <3>2 DEF SaveIncident
  <2>3. QED
    BY <1>0, <2>1, <2>2, OneSessionTx DEF ReviewTx
<1>7. ASSUME NEW s \in Sessions, CommitReview(s) \/ RollbackReview(s) PROVE ReviewTx'
  <2>1. tx' = [tx EXCEPT ![s] = IdleTx] /\ rv' = [rv EXCEPT ![s] = NoReview]
    BY <1>7 DEF CommitReview, RollbackReview
  <2>2. QED
    BY <1>0, <2>1, OneSessionTx
<1>8. CASE UNCHANGED vars
  BY <1>8 DEF vars, ReviewTx
<1>9. QED
  BY <1>0, <1>1, <1>2, <1>3, <1>4, <1>5, <1>6, <1>7, <1>8 DEF Next, WorkStep, ReviewStep

---------------------------------------------------------------------------
(* The table of requests has the constants of this one.                    *)
LEMMA TableConstants ==
  /\ Table!Sessions = Sessions
  /\ Table!OPEN = OPEN /\ Table!ABSENT = ABSENT /\ Table!IdleTx = IdleTx /\ Table!Absent = Absent
  /\ Table!ALLOWED_TRANSITIONS = ALLOWED_TRANSITIONS
BY DEF Table!Sessions, Table!OPEN, OPEN, Table!ABSENT, ABSENT, Table!IdleTx, IdleTx, Table!Absent, Absent,
       Table!ALLOWED_TRANSITIONS, ALLOWED_TRANSITIONS,
       Table!INVESTIGATING, INVESTIGATING, Table!IDENTIFIED, IDENTIFIED, Table!REMEDIATING, REMEDIATING,
       Table!RESOLVED, RESOLVED, Table!CLOSED, CLOSED

(* What the table of requests sees of a session.                           *)
LEMMA BarFacts ==
  ASSUME ReviewTx, NEW t \in Sessions
  PROVE  /\ rv[t].seen # INVESTIGATING => TxBar[t] = tx[t]
         /\ rv[t].seen = INVESTIGATING =>
              TxBar[t] = Reading(t) /\ TxBar[t].pc = "read" /\ tx[t].pc = "idle"
         /\ Flushed(t) \/ TxBar[t].pc = "flushed" => TxBar[t] = tx[t]
         /\ TxBar[t].pc \in {"flushed", "publish"} <=> tx[t].pc \in {"flushed", "publish"}
         /\ tx[t].pc \in {"flushed", "publish"} => TxBar[t] = tx[t]
<1>1. Reading(t).pc = "read" /\ IdleTx.pc = "idle"
  BY DEF Reading, IdleTx
<1>2. QED
  BY <1>1 DEF TxBar, ReviewTx, Flushed

(* A step in a session's transaction, seen from that table.                *)
LEMMA BarMoves ==
  ASSUME tx \in [Sessions -> Tx], NEW s \in Sessions, NEW r, tx' = [tx EXCEPT ![s] = r],
         rv'[s].seen # INVESTIGATING, \A t \in Sessions \ {s} : rv'[t] = rv[t]
  PROVE  TxBar' = [TxBar EXCEPT ![s] = r]
BY DEF TxBar, Reading

(* One that is not seen there.                                             *)
LEMMA BarStays ==
  ASSUME tx' = tx,
         \A t \in Sessions : /\ rv'[t].seen = rv[t].seen
                             /\ rv[t].seen = INVESTIGATING => rv'[t].id = rv[t].id
  PROVE  TxBar' = TxBar
BY DEF TxBar, Reading

(* A read changes what the table has of its own session only.              *)
LEMMA BarOfReader ==
  ASSUME NEW s \in Sessions, tx' = tx, \A t \in Sessions \ {s} : rv'[t] = rv[t]
  PROVE  /\ TxBar' = [TxBar EXCEPT ![s] = TxBar'[s]]
         /\ rv'[s].seen = INVESTIGATING => TxBar'[s] = Reading(s)'
         /\ rv'[s].seen # INVESTIGATING => TxBar'[s] = tx[s]
<1>1. \A t \in Sessions \ {s} : Reading(t)' = Reading(t)
  BY DEF Reading
<1>2. \A t \in Sessions : TxBar'[t] = IF rv'[t].seen = INVESTIGATING THEN Reading(t)' ELSE tx'[t]
  BY DEF TxBar
<1>3. \A t \in Sessions \ {s} : TxBar'[t] = TxBar[t]
  BY <1>1, <1>2 DEF TxBar
<1>4. DOMAIN TxBar = Sessions /\ DOMAIN TxBar' = Sessions
      /\ TxBar = [t \in Sessions |-> TxBar[t]] /\ TxBar' = [t \in Sessions |-> TxBar'[t]]
  BY DEF TxBar
<1> QED
  BY <1>2, <1>3, <1>4

(* The guards of that table are the guards of this one.                    *)
LEMMA TableGuards ==
  ASSUME ReviewTx
  PROVE  /\ \A row, f : Table!Indexed(row, f) <=> Indexed(row, f)
         /\ \A i : Table!Exists(i) <=> Exists(i)
         /\ \A s \in Sessions : Table!Flushed(s) <=> Flushed(s)
         /\ \A s \in Sessions : \A i : Table!RowLocked(s, i) <=> RowLocked(s, i)
         /\ \A i, f : Table!KeyTaken(i, f) <=> KeyTaken(i, f)
         /\ \A s \in Sessions : \A i, f : Table!KeyPending(s, i, f) <=> KeyPending(s, i, f)
         /\ \A i : Table!Fresh(i) <=> Fresh(i)
         /\ \A a, b : Table!can_transition(a, b) <=> can_transition(a, b)
<1>1. \A row, f : Table!Indexed(row, f) <=> Indexed(row, f)
  BY TableConstants DEF Table!Indexed, Indexed
<1>2. \A i : Table!Exists(i) <=> Exists(i)
  BY TableConstants DEF Table!Exists, Exists
<1>3. \A s \in Sessions : Table!Flushed(s) <=> Flushed(s)
  BY BarFacts DEF Table!Flushed, Flushed
<1>4. \A s \in Sessions : \A i : Table!RowLocked(s, i) <=> RowLocked(s, i)
  BY <1>3, BarFacts, TableConstants DEF Table!RowLocked, RowLocked
<1>5. \A i, f : Table!KeyTaken(i, f) <=> KeyTaken(i, f)
  BY <1>1 DEF Table!KeyTaken, KeyTaken
<1>6. \A s \in Sessions : \A i, f : Table!KeyPending(s, i, f) <=> KeyPending(s, i, f)
  BY <1>1, <1>3, BarFacts, TableConstants DEF Table!KeyPending, KeyPending
<1>7. \A i : Table!Fresh(i) <=> Fresh(i)
  BY <1>2, BarFacts, TableConstants DEF Table!Fresh, Fresh
<1>8. \A a, b : Table!can_transition(a, b) <=> can_transition(a, b)
  BY TableConstants DEF Table!can_transition, can_transition
<1>9. QED
  BY <1>1, <1>2, <1>3, <1>4, <1>5, <1>6, <1>7, <1>8

(* What a session does to the table with what it has read itself.          *)
LEMMA TableSteps ==
  ASSUME ReviewTx, tx \in [Sessions -> Tx], NEW s \in Sessions,
         rv[s].seen # INVESTIGATING, rv'[s].seen # INVESTIGATING,
         \A t \in Sessions \ {s} : rv'[t] = rv[t]
  PROVE  /\ Load(s) => Table!Load(s)
         /\ FlushUpdate(s) => Table!FlushUpdate(s)
         /\ Rollback(s) => Table!Rollback(s)
         /\ Commit(s) => Table!Commit(s)
         /\ LoseOpened(s) => Table!LoseOpened(s)
         /\ PublishOpened(s) => Table!PublishOpened(s)
         /\ \A i, f : FlushInsert(s, i, f) => Table!FlushInsert(s, i, f)
         /\ \A i, target : ReadForTransition(s, i, target) => Table!ReadForTransition(s, i, target)
<1>0. TxBar[s] = tx[s]
  BY BarFacts
<1> USE TableConstants, TableGuards
<1>1. ASSUME Load(s) PROVE Table!Load(s)
  <2>1. PICK b \in {tx[s].seen, rows[tx[s].id].state} :
          tx' = [tx EXCEPT ![s] = [IdleTx EXCEPT !.pc    = "load",
                                                 !.id    = tx[s].id,
                                                 !.state = tx[s].state,
                                                 !.steps = tx[s].steps,
                                                 !.base  = b]]
    BY <1>1 DEF Load
  <2> DEFINE r == [IdleTx EXCEPT !.pc = "load", !.id = tx[s].id, !.state = tx[s].state,
                                 !.steps = tx[s].steps, !.base = b]
  <2>2. TxBar' = [TxBar EXCEPT ![s] = r]
    <3> HIDE DEF r
    <3>1. tx' = [tx EXCEPT ![s] = r]
      BY <2>1 DEF r
    <3>2. QED
      BY <3>1, BarMoves
  <2>3. QED
    BY <1>0, <1>1, <2>2 DEF Load, Table!Load
<1>2. ASSUME FlushUpdate(s) PROVE Table!FlushUpdate(s)
  <2> DEFINE r == [IdleTx EXCEPT !.pc = "flushed", !.id = tx[s].id, !.row = UpdatedRow(s)]
  <2>1. TxBar' = [TxBar EXCEPT ![s] = r]
    <3> HIDE DEF r
    <3>1. tx' = [tx EXCEPT ![s] = r]
      BY <1>2 DEF r, FlushUpdate
    <3>2. QED
      BY <3>1, BarMoves
  <2>2. Table!UpdatedRow(s) = UpdatedRow(s)
    BY <1>0 DEF UpdatedRow, Table!UpdatedRow
  <2>3. QED
    BY <1>0, <1>2, <2>1, <2>2 DEF FlushUpdate, Table!FlushUpdate
<1>3. Rollback(s) => Table!Rollback(s)
  BY <1>0, BarMoves DEF Rollback, Table!Rollback
<1>4. ASSUME Commit(s) PROVE Table!Commit(s)
  <2> DEFINE r == IF tx[s].created THEN [IdleTx EXCEPT !.pc = "publish", !.id = tx[s].id] ELSE IdleTx
  <2>1. TxBar' = [TxBar EXCEPT ![s] = r]
    <3> HIDE DEF r
    <3>1. tx' = [tx EXCEPT ![s] = r]
      BY <1>4 DEF r, Commit
    <3>2. QED
      BY <3>1, BarMoves
  <2>2. QED
    BY <1>0, <1>4, <2>1 DEF Commit, Table!Commit, CommitRow, Table!CommitRow
<1>5. LoseOpened(s) => Table!LoseOpened(s)
  BY <1>0, BarMoves DEF LoseOpened, Table!LoseOpened
<1>6. PublishOpened(s) => Table!PublishOpened(s)
  BY <1>0, BarMoves DEF PublishOpened, Table!PublishOpened
<1>7. ASSUME NEW i, NEW f, FlushInsert(s, i, f) PROVE Table!FlushInsert(s, i, f)
  <2> DEFINE new == [state |-> OPEN, fp |-> f, history |-> {}]
             r == [IdleTx EXCEPT !.pc = "flushed", !.id = i, !.row = new, !.created = TRUE]
  <2>1. TxBar' = [TxBar EXCEPT ![s] = r]
    <3> HIDE DEF r
    <3>1. tx' = [tx EXCEPT ![s] = r]
      BY <1>7 DEF r, FlushInsert
    <3>2. QED
      BY <3>1, BarMoves
  <2>2. QED
    BY <1>7, <2>1 DEF FlushInsert, Table!FlushInsert
<1>8. ASSUME NEW i, NEW target, ReadForTransition(s, i, target)
      PROVE  Table!ReadForTransition(s, i, target)
  <2> DEFINE r == [IdleTx EXCEPT !.pc = "read", !.id = i, !.seen = rows[i].state,
                                 !.state = target, !.steps = {<<rows[i].state, target>>}]
  <2>1. TxBar' = [TxBar EXCEPT ![s] = r]
    <3> HIDE DEF r
    <3>1. tx' = [tx EXCEPT ![s] = r]
      BY <1>8 DEF r, ReadForTransition
    <3>2. QED
      BY <3>1, BarMoves
  <2>2. QED
    BY <1>8, <2>1 DEF ReadForTransition, Table!ReadForTransition
<1>9. QED
  BY <1>1, <1>2, <1>3, <1>4, <1>5, <1>6, <1>7, <1>8

(* A request is a request of that table.                                   *)
LEMMA RequestsOnTable ==
  ASSUME ReviewTx, tx \in [Sessions -> Tx], NEW s \in Sessions,
         rv[s].seen # INVESTIGATING, rv' = rv, RequestStep(s) \/ PublishOpened(s)
  PROVE  Table!RequestStep(s) \/ Table!PublishOpened(s)
<1>0. TxBar[s] = tx[s]
  BY BarFacts
<1> USE TableConstants, TableGuards, TableSteps
<1>1. CASE \E i \in Incidents : PostIncident(s, i)
  BY <1>0, <1>1 DEF PostIncident, Table!PostIncident, Table!RequestStep
<1>2. CASE \E i \in Incidents, f \in Fingerprints : IngestFound(s, i, f)
  <2>1. PICK i \in Incidents, f \in Fingerprints : IngestFound(s, i, f)
    BY <1>2
  <2> DEFINE r == [IdleTx EXCEPT !.pc = "read", !.id = i]
  <2>2. TxBar' = [TxBar EXCEPT ![s] = r]
    <3> HIDE DEF r
    <3>1. tx' = [tx EXCEPT ![s] = r]
      BY <2>1 DEF r, IngestFound
    <3>2. QED
      BY <3>1, BarMoves
  <2>3. Table!IngestFound(s, i, f)
    BY <1>0, <2>1, <2>2 DEF IngestFound, Table!IngestFound
  <2>4. QED
    BY <2>3 DEF Table!RequestStep
<1>3. CASE \E f \in Fingerprints : IngestNotFound(s, f)
  <2>1. PICK f \in Fingerprints : IngestNotFound(s, f)
    BY <1>3
  <2> DEFINE r == [IdleTx EXCEPT !.pc = "insert", !.fp = f]
  <2>2. TxBar' = [TxBar EXCEPT ![s] = r]
    <3> HIDE DEF r
    <3>1. tx' = [tx EXCEPT ![s] = r]
      BY <2>1 DEF r, IngestNotFound
    <3>2. QED
      BY <3>1, BarMoves
  <2>3. Table!IngestNotFound(s, f)
    BY <1>0, <2>1, <2>2 DEF IngestNotFound, Table!IngestNotFound
  <2>4. QED
    BY <2>3 DEF Table!RequestStep
<1>4. CASE \E i \in Incidents : IngestInsert(s, i)
  BY <1>0, <1>4 DEF IngestInsert, Table!IngestInsert, Table!RequestStep
<1>5. CASE \E i \in Incidents, target \in Targets : PatchState(s, i, target)
  BY <1>0, <1>5 DEF PatchState, Table!PatchState, Table!RequestStep
<1>6. CASE Load(s) \/ FlushUpdate(s) \/ Commit(s) \/ Rollback(s) \/ LoseOpened(s)
  BY <1>6 DEF Table!RequestStep
<1>7. CASE PublishOpened(s)
  BY <1>7
<1>8. QED
  BY <1>1, <1>2, <1>3, <1>4, <1>5, <1>6, <1>7 DEF RequestStep

(* A session that ends gives up what the table has of it.                  *)
LEMMA EndOnTable ==
  ASSUME ReviewTx, tx \in [Sessions -> Tx], NEW s \in Sessions,
         tx' = [tx EXCEPT ![s] = IdleTx], UNCHANGED <<rows, published>>,
         rv'[s].seen # INVESTIGATING, \A t \in Sessions \ {s} : rv'[t] = rv[t]
  PROVE  Table!Rollback(s) \/ Table!LoseOpened(s) \/ UNCHANGED <<rows, TxBar, published>>
<1>1. TxBar' = [TxBar EXCEPT ![s] = IdleTx]
  BY BarMoves
<1>2. CASE TxBar[s].pc = "publish"
  BY <1>1, <1>2, TableConstants DEF Table!LoseOpened
<1>3. CASE TxBar[s].pc \in {"insert", "read", "load", "flushed"}
  BY <1>1, <1>3, TableConstants DEF Table!Rollback
<1>4. CASE TxBar[s].pc = "idle"
  <2>1. TxBar[s] = IdleTx
    BY <1>4, BarFacts DEF ReviewTx
  <2>2. TxBar' = TxBar
    BY <1>1, <2>1 DEF TxBar
  <2>3. QED
    BY <2>2
<1>5. tx[s].pc \in {"idle", "insert", "read", "load", "flushed", "publish"}
  BY DEF Tx
<1>6. QED
  BY <1>2, <1>3, <1>4, <1>5, BarFacts

(* Every step is a step of the requests on the table, or stutters: accept  *)
(* reading an incident under investigation is the read of a PATCH to       *)
(* identified, a worker's start one of a PATCH to investigating, and a use *)
(* case that fails rolls a request back.                                   *)
LEMMA ReviewStepOnTable ==
  ASSUME ReviewInv, ReviewTx, [Next]_vars
  PROVE  [Table!StoreNext]_(Table!storeVars)
<1>0. /\ tx \in [Sessions -> Tx] /\ rv \in [Sessions -> Review] /\ ReviewsOK
      /\ ApiSessions \subseteq Sessions /\ Workers \subseteq Sessions
  BY DEF ReviewInv, ReviewsOK, ReviewShapes, StoreInv, StoreTypeOK, Sessions
<1> DEFINE Goal == Table!StoreNext \/ UNCHANGED <<rows, TxBar, published>>
<1>1. ASSUME NEW s \in ApiSessions, StoreStep(s) PROVE Goal
  <2>1. rv' = rv /\ rv[s] = NoReview /\ s \in Sessions
    BY <1>0, <1>1, SessionFacts DEF StoreStep, reviewVars, Proc
  <2>2. Table!RequestStep(s) \/ Table!PublishOpened(s)
    BY <1>0, <1>1, <2>1, RequestsOnTable, NoReviewFields, StatesDiffer DEF StoreStep
  <2>3. QED
    BY <2>1, <2>2, TableConstants DEF Table!StoreNext
<1>2. ASSUME NEW s \in Sessions,
             \/ ReadReports(s) \/ ReadProgress(s) \/ SaveReport(s) \/ InsertReport(s)
             \/ LoadProgress(s) \/ FlushProgress(s) \/ Notify(s)
             \/ \E o \in Outcomes : InvestigationEnds(s, o)
      PROVE  Goal
  <2>1. /\ rv'[s].seen = rv[s].seen /\ rv'[s].id = rv[s].id
        /\ \A t \in Sessions \ {s} : rv'[t] = rv[t]
        /\ tx' = tx /\ rows' = rows /\ published' = published
    BY <1>0, <1>2, QuietSeen DEF storeVars
  <2>2. TxBar' = TxBar
    BY <2>1, BarStays
  <2>3. QED
    BY <2>1, <2>2
<1>3. ASSUME NEW s \in ApiSessions, NEW i \in Incidents, NEW op \in Requests, ReadIncident(s, i, op)
      PROVE  Goal
  <2> DEFINE seen == IF op = "accept" THEN rows[i].state ELSE OPEN
             new == [NoReview EXCEPT !.op = op, !.pc = IF op \in Controls THEN "progress" ELSE "reports",
                                     !.id = i, !.seen = seen]
  <2>1. rv' = [rv EXCEPT ![s] = new] /\ UNCHANGED <<rows, tx, published>> /\ Exists(i)
    BY <1>3 DEF ReadIncident
  <2>2. new.seen = seen /\ new.id = i
    BY DEF NoReview
  <2> HIDE DEF new
  <2>3. rv'[s].seen = seen /\ rv'[s].id = i /\ s \in Sessions
        /\ \A t \in Sessions \ {s} : rv'[t] = rv[t]
    BY <1>0, <2>1, <2>2
  <2>4. rv[s] = NoReview /\ tx[s] = IdleTx
    BY <1>0, <1>3, <2>3, SessionFacts DEF ReadIncident, Free, Proc, ReviewTx
  <2>5. TxBar[s] = IdleTx
    BY <2>3, <2>4, BarFacts, NoReviewFields, StatesDiffer
  <2>6. CASE seen = INVESTIGATING
    <3> DEFINE r == [IdleTx EXCEPT !.pc = "read", !.id = i, !.seen = INVESTIGATING,
                                   !.state = IDENTIFIED, !.steps = {<<INVESTIGATING, IDENTIFIED>>}]
    <3>1. rows[i].state = INVESTIGATING
      BY <2>6, StatesDiffer
    <3>2. Reading(s)' = r
      BY <2>3 DEF Reading, IdleTx
    <3>3. TxBar' = [TxBar EXCEPT ![s] = r]
      <4> HIDE DEF r, seen
      <4>1. QED
        BY <2>1, <2>3, <2>6, <3>2, BarOfReader
    <3>4. can_transition(INVESTIGATING, IDENTIFIED) /\ IdleTx.pc = "idle"
      BY DEF can_transition, ALLOWED_TRANSITIONS, IdleTx
    <3>5. Table!PatchState(s, i, IDENTIFIED)
      BY <2>1, <2>5, <3>1, <3>3, <3>4, <2>3, TableConstants, TableGuards
         DEF Table!PatchState, Table!ReadForTransition
    <3>6. QED
      BY <2>3, <3>5, TableConstants DEF Table!StoreNext, Table!RequestStep
  <2>7. CASE seen # INVESTIGATING
    <3>1. TxBar' = TxBar
      <4>1. TxBar' = [TxBar EXCEPT ![s] = TxBar[s]]
        BY <2>1, <2>3, <2>4, <2>5, <2>7, BarOfReader
      <4>2. QED
        BY <4>1 DEF TxBar
    <3>2. QED
      BY <2>1, <3>1
  <2>8. QED
    BY <2>6, <2>7
<1>4. ASSUME NEW w \in Workers, NEW i \in Incidents, StartInvestigation(w, i) PROVE Goal
  <2> DEFINE new == [NoReview EXCEPT !.op = "investigate", !.pc = "saving", !.id = i]
  <2>1. rv' = [rv EXCEPT ![w] = new] /\ new.seen = OPEN
    BY <1>4 DEF StartInvestigation, NoReview
  <2> HIDE DEF new
  <2>2. rv[w] = NoReview /\ tx[w] = IdleTx /\ w \in Sessions
    BY <1>0, <1>4, SessionFacts DEF StartInvestigation, Free, Proc, ReviewTx
  <2>3. rv'[w].seen # INVESTIGATING /\ rv[w].seen # INVESTIGATING
        /\ \A t \in Sessions \ {w} : rv'[t] = rv[t]
    BY <1>0, <2>1, <2>2, NoReviewFields, StatesDiffer
  <2>4. Table!ReadForTransition(w, i, INVESTIGATING)
    BY <1>0, <1>4, <2>2, <2>3, TableSteps DEF StartInvestigation
  <2>5. TxBar[w].pc = "idle" /\ UNCHANGED <<rows, published>>
    BY <1>4, <2>2, <2>3, BarFacts DEF StartInvestigation, IdleTx
  <2>6. Table!PatchState(w, i, INVESTIGATING)
    BY <2>4, <2>5 DEF Table!PatchState
  <2>7. QED
    BY <2>2, <2>6, TableConstants DEF Table!StoreNext, Table!RequestStep
<1>5. ASSUME NEW s \in Sessions, AcceptIncident(s) PROVE Goal
  <2> DEFINE new == [rv[s] EXCEPT !.pc = IF rv[s].seen = INVESTIGATING THEN "saving" ELSE "ready",
                                  !.seen = OPEN]
  <2>1. rv' = [rv EXCEPT ![s] = new] /\ new.seen = OPEN
    BY <1>0, <1>5 DEF AcceptIncident, Review
  <2> HIDE DEF new
  <2>2. rv'[s].seen = OPEN /\ \A t \in Sessions \ {s} : rv'[t] = rv[t]
    BY <1>0, <2>1
  <2>3. UNCHANGED <<rows, published>>
    BY <1>5 DEF AcceptIncident
  <2>4. CASE rv[s].seen = INVESTIGATING
    <3>1. tx' = [tx EXCEPT ![s] = Reading(s)]
      BY <1>5, <2>4 DEF AcceptIncident, Reading
    <3>2. TxBar' = [TxBar EXCEPT ![s] = Reading(s)]
      BY <1>0, <2>2, <3>1, BarMoves, StatesDiffer
    <3>3. TxBar' = TxBar
      BY <2>4, <3>2 DEF TxBar
    <3>4. QED
      BY <2>3, <3>3
  <2>5. CASE rv[s].seen # INVESTIGATING
    <3>1. tx' = tx
      BY <1>5, <2>5 DEF AcceptIncident
    <3>2. TxBar' = TxBar
      BY <2>2, <2>5, <3>1, StatesDiffer DEF TxBar, Reading
    <3>3. QED
      BY <2>3, <3>2
  <2>6. QED
    BY <2>4, <2>5
<1>6. ASSUME NEW s \in Sessions, SaveIncident(s) PROVE Goal
  <2>1. rv' = rv /\ tx[s].pc # "idle"
    BY <1>6 DEF SaveIncident, reviewVars, Load, FlushUpdate
  <2>2. rv[s].seen # INVESTIGATING
    BY <2>1, BarFacts
  <2>3. Table!Load(s) \/ Table!FlushUpdate(s)
    BY <1>0, <1>6, <2>1, <2>2, TableSteps DEF SaveIncident
  <2>4. QED
    BY <2>3, TableConstants DEF Table!StoreNext, Table!RequestStep
<1>7. ASSUME NEW s \in Sessions, CommitReview(s) \/ RollbackReview(s) PROVE Goal
  <2>1. tx' = [tx EXCEPT ![s] = IdleTx] /\ rv' = [rv EXCEPT ![s] = NoReview]
        /\ published' = published
    BY <1>7 DEF CommitReview, RollbackReview
  <2>2. rv'[s].seen # INVESTIGATING /\ \A t \in Sessions \ {s} : rv'[t] = rv[t]
    BY <1>0, <2>1, NoReviewFields, StatesDiffer
  <2>3. CASE rows' = rows
    BY <1>0, <2>1, <2>2, <2>3, EndOnTable, TableConstants DEF Table!StoreNext, Table!RequestStep
  <2>4. CASE Flushed(s) /\ CommitRow(s) /\ rv[s].pc # "idle"
    <3>1. Commit(s)
      BY <2>1, <2>4 DEF Commit, ReviewTx
    <3>2. rv[s].seen # INVESTIGATING
      BY <2>4, BarFacts DEF Flushed
    <3>3. Table!Commit(s)
      BY <1>0, <2>2, <3>1, <3>2, TableSteps
    <3>4. QED
      BY <3>3, TableConstants DEF Table!StoreNext, Table!RequestStep
  <2>5. rows' = rows \/ (Flushed(s) /\ CommitRow(s) /\ rv[s].pc # "idle")
    BY <1>7 DEF CommitReview, RollbackReview
  <2>6. QED
    BY <2>3, <2>4, <2>5
<1>8. ASSUME UNCHANGED vars PROVE Goal
  <2>1. rv' = rv /\ tx' = tx /\ rows' = rows /\ published' = published
    BY <1>8 DEF vars
  <2>2. TxBar' = TxBar
    BY <2>1, BarStays
  <2>3. QED
    BY <2>1, <2>2
<1>9. Goal
  <2> HIDE DEF Goal
  <2>1. ASSUME WorkStep PROVE Goal
    <3>1. ASSUME NEW w \in Workers, NEW o \in Outcomes, InvestigationEnds(w, o) PROVE Goal
      BY <1>0, <1>2, <3>1
    <3>2. ASSUME NEW s \in Sessions, ReviewStep(s) PROVE Goal
      BY <1>2, <1>5, <1>6, <3>2 DEF ReviewStep
    <3>3. QED
      BY <1>1, <1>3, <1>4, <2>1, <3>1, <3>2 DEF WorkStep
  <2>2. ASSUME NEW s \in Sessions, Notify(s) \/ CommitReview(s) \/ RollbackReview(s) PROVE Goal
    BY <1>2, <1>7, <2>2
  <2>3. QED
    BY <1>8, <2>1, <2>2 DEF Next
<1>10. QED
  BY <1>9 DEF Table!storeVars

(* Refinement, step by step: the reviewers (accept, reject, amend, pause   *)
(* and resume) and the recording worker do nothing to the incidents table  *)
(* that request sessions asking for those two states could not do, though  *)
(* accept makes its decision between its read and its save.                *)
THEOREM ReviewsAreRequests == Spec => [][Table!StoreNext]_(Table!storeVars)
<1>1. Init => ReviewInv /\ ReviewTx
  BY ReviewInitInv, ReviewTxInit
<1>2. ReviewInv /\ [Next]_vars => ReviewInv'
  BY ReviewsStay
<1>3. ReviewInv /\ ReviewTx /\ [Next]_vars => ReviewTx'
  BY ReviewTxNext
<1>4. ReviewInv /\ ReviewTx /\ [Next]_vars => [Table!StoreNext]_(Table!storeVars)
  BY ReviewStepOnTable
<1>5. QED
  BY <1>1, <1>2, <1>3, <1>4, PTL DEF Spec

(* Neither a review, however stale what it decided from, nor the worker    *)
(* ever removes a committed history entry of an incident.                  *)
THEOREM ReviewsKeepHistory == Spec => HistoryGrows
<1> DEFINE Kept == \A i \in Incidents : rows[i].history \subseteq rows'[i].history
<1>1. ReviewInv /\ [Next]_vars => [Kept]_storeVars
  <2> SUFFICES ASSUME ReviewInv, [Next]_vars PROVE Kept
    OBVIOUS
  <2>1. ASSUME NEW s \in Sessions, Flushed(s), CommitRow(s) PROVE Kept
    <3>1. tx[s].id \in Incidents /\ rows[tx[s].id].history \subseteq tx[s].row.history
      BY <2>1 DEF ReviewInv, StoreInv, StoreTypeOK, Tx, FlushedRow
    <3>2. \A i \in Incidents : rows'[i] = IF i = tx[s].id THEN tx[s].row ELSE rows[i]
      BY <2>1, <3>1 DEF CommitRow, ReviewInv, StoreInv, StoreTypeOK
    <3> QED
      BY <3>1, <3>2
  <2>2. ASSUME NEW s \in ApiSessions, StoreStep(s)
        PROVE  rows' = rows \/ (Flushed(s) /\ CommitRow(s))
    BY <2>2 DEF StoreStep, RequestStep, PublishOpened, PostIncident, IngestFound, IngestNotFound,
                IngestInsert, FlushInsert, PatchState, Load, FlushUpdate, Commit, Rollback, LoseOpened
  <2>3. ASSUME NEW s \in Sessions, CommitReview(s)
        PROVE  rows' = rows \/ (Flushed(s) /\ CommitRow(s))
    BY <2>3 DEF CommitReview
  <2>4. \/ rows' = rows
        \/ \E s \in ApiSessions : StoreStep(s)
        \/ \E s \in Sessions : CommitReview(s)
    BY DEF Next, WorkStep, ReviewStep, ReadIncident, StartInvestigation, InvestigationEnds, ReadReports,
           ReadProgress, SaveReport, AcceptIncident, SaveIncident, Load, FlushUpdate, InsertReport,
           LoadProgress, FlushProgress, Notify, RollbackReview, vars
  <2>5. rows' = rows \/ \E s \in Sessions : Flushed(s) /\ CommitRow(s)
    BY <2>2, <2>3, <2>4 DEF Sessions
  <2> QED
    BY <2>1, <2>5
<1> QED
  BY <1>1, ReviewInvariance, PTL DEF Spec, HistoryGrows

(* With reviewers and the worker on the same rows, too, an event is sent   *)
(* only for what exists and every state has the step that led to it.       *)
THEOREM ReviewsKeepTheTable == Spec => [](PublishedIsCommitted /\ StateIsRecorded)
<1>1. ReviewInv => PublishedIsCommitted /\ StateIsRecorded
  BY DEF ReviewInv, StoreInv, StateIsRecorded, Recorded
<1> QED
  BY <1>1, ReviewInvariance, PTL

=============================================================================
