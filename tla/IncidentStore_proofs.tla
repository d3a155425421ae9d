---------------------- MODULE IncidentStore_proofs -----------------------
(***************************************************************************)
(* Proofs about the incidents table, for any sets of incidents,            *)
(* fingerprints and sessions.                                              *)
(*                                                                         *)
(* The invariants are not inductive by themselves: what they say of the    *)
(* committed rows must also be known of the versions that open             *)
(* transactions have flushed, and of the entities held in memory.          *)
(* StoreInv adds that.  Each repository step is shown to preserve StoreInv *)
(* for every session, request or worker, so that the proofs about the      *)
(* worker can use the same lemmas.                                         *)
(***************************************************************************)
EXTENDS IncidentStore, TLAPS

(* Recorded(row): a row that is not open has a recorded step to its state. *)
Recorded(row) == row.state \in {ABSENT, OPEN} \/ \E h \in row.history : h[2] = row.state

(* No two transactions have written the same row: the row lock.            *)
RowLocks ==
  \A s, t \in Sessions : Flushed(s) /\ Flushed(t) /\ s # t => tx[s].id # tx[t].id

(* A flushed index entry conflicts with no committed entry of another row. *)
KeyVsRows ==
  \A s \in Sessions, f \in Fingerprints, j \in Incidents :
    Flushed(s) /\ Indexed(tx[s].row, f) /\ Indexed(rows[j], f) => j = tx[s].id

(* Nor do two flushed index entries conflict.                              *)
KeyVsFlushed ==
  \A s, t \in Sessions, f \in Fingerprints :
    Flushed(s) /\ Flushed(t) /\ Indexed(tx[s].row, f) /\ Indexed(tx[t].row, f) => s = t

(* What has been read still exists, and so does what is to be published.   *)
ReadExists ==
  \A s \in Sessions : tx[s].pc \in {"read", "load", "publish"} => Exists(tx[s].id)

(* An entity in memory is either still open or records the step it took.   *)
EntityRecorded ==
  \A s \in Sessions :
    tx[s].pc \in {"read", "load"} =>
      tx[s].state = OPEN \/ \E h \in tx[s].steps : h[2] = tx[s].state

(* A flushed version exists, is recorded, and keeps the row's history.     *)
FlushedRow ==
  \A s \in Sessions : Flushed(s) =>
    /\ tx[s].row.state # ABSENT
    /\ Recorded(tx[s].row)
    /\ rows[tx[s].id].history \subseteq tx[s].row.history

(* A row nobody has committed has no history.                              *)
AbsentIsEmpty == \A i \in Incidents : ~Exists(i) => rows[i].history = {}

StoreInv ==
  /\ StoreTypeOK
  /\ UniqueOpenFingerprint
  /\ PublishedIsCommitted
  /\ \A i \in Incidents : Recorded(rows[i])
  /\ RowLocks
  /\ KeyVsRows
  /\ KeyVsFlushed
  /\ ReadExists
  /\ EntityRecorded
  /\ FlushedRow
  /\ AbsentIsEmpty

USE DEF Sessions

---------------------------------------------------------------------------
(* The states the transition table leads to, and the one that stands for   *)
(* no row.                                                                 *)
LEMMA StatesAreDistinct ==
  /\ OPEN \in IncidentState /\ INVESTIGATING \in IncidentState
  /\ ABSENT \notin IncidentState
  /\ ALLOWED_TRANSITIONS \subseteq IncidentState \X (IncidentState \ {OPEN})
  /\ <<OPEN, INVESTIGATING>> \in ALLOWED_TRANSITIONS
BY DEF OPEN, INVESTIGATING, IDENTIFIED, REMEDIATING, RESOLVED, CLOSED, ABSENT,
       IncidentState, ALLOWED_TRANSITIONS

(* A missing row is a row.                                                 *)
LEMMA AbsentType == Absent \in Row
BY DEF Absent, Row

(* A session without a transaction has the type of one.                    *)
LEMMA IdleType == IdleTx \in Tx /\ IdleTx.pc = "idle" /\ IdleTx.state = OPEN
<1>1. (CHOOSE i \in Incidents : TRUE) \in Incidents
  BY NonemptyAssumption
<1>2. QED
  BY <1>1, AbsentType, StatesAreDistinct DEF IdleTx, Tx

(* The initial database satisfies the invariant.                           *)
LEMMA StoreInitInv == StoreInit => StoreInv
<1> SUFFICES ASSUME StoreInit PROVE StoreInv
  OBVIOUS
<1> USE AbsentType, IdleType, StatesAreDistinct DEF StoreInit
<1>1. StoreTypeOK
  BY DEF StoreTypeOK
<1>2. \A i \in Incidents : rows[i] = Absent
  OBVIOUS
<1>3. \A s \in Sessions : tx[s] = IdleTx
  OBVIOUS
<1>4. UniqueOpenFingerprint /\ PublishedIsCommitted /\ AbsentIsEmpty
      /\ \A i \in Incidents : Recorded(rows[i])
  BY <1>2 DEF UniqueOpenFingerprint, PublishedIsCommitted, AbsentIsEmpty, Recorded, Indexed,
              Absent, Exists, ABSENT, OPEN
<1>5. RowLocks /\ KeyVsRows /\ KeyVsFlushed /\ ReadExists /\ EntityRecorded /\ FlushedRow
  BY <1>3 DEF RowLocks, KeyVsRows, KeyVsFlushed, ReadExists, EntityRecorded, FlushedRow, Flushed
<1>6. QED
  BY <1>1, <1>4, <1>5 DEF StoreInv

---------------------------------------------------------------------------
(* The three kinds of repository step.                                     *)

(* A step that writes no row: session s goes to transaction r.             *)
LEMMA LocalStep ==
  ASSUME StoreInv, NEW s \in Sessions, NEW r \in Tx,
         r.pc # "flushed",
         r.pc \in {"read", "load", "publish"} => Exists(r.id),
         r.pc \in {"read", "load"} => r.state = OPEN \/ \E h \in r.steps : h[2] = r.state,
         tx' = [tx EXCEPT ![s] = r],
         rows' = rows,
         published' \subseteq {i \in Incidents : Exists(i)}
  PROVE  StoreInv'
<1> USE DEF StoreInv
<1>1. \A t \in Sessions : tx'[t] = IF t = s THEN r ELSE tx[t]
  BY DEF StoreTypeOK
<1>2. StoreTypeOK'
  BY DEF StoreTypeOK
<1>3. (UniqueOpenFingerprint /\ PublishedIsCommitted /\ AbsentIsEmpty
       /\ \A i \in Incidents : Recorded(rows[i]))'
  BY DEF UniqueOpenFingerprint, PublishedIsCommitted, AbsentIsEmpty, Recorded, Indexed, Exists
<1>4. (RowLocks /\ KeyVsRows /\ KeyVsFlushed)'
  BY <1>1 DEF RowLocks, KeyVsRows, KeyVsFlushed, Flushed, Indexed
<1>5. (ReadExists /\ EntityRecorded)'
  BY <1>1 DEF ReadExists, EntityRecorded, Exists
<1>6. FlushedRow'
  BY <1>1 DEF FlushedRow, Flushed, Recorded
<1>7. QED
  BY <1>2, <1>3, <1>4, <1>5, <1>6

(* A step that writes the version r.row of row r.id, uncommitted.          *)
LEMMA FlushStep ==
  ASSUME StoreInv, NEW s \in Sessions, NEW r \in Tx,
         r.pc = "flushed",
         ~RowLocked(s, r.id),
         \A f \in Fingerprints : Indexed(r.row, f) => ~KeyPending(s, r.id, f) /\ ~KeyTaken(r.id, f),
         r.row.state # ABSENT,
         Recorded(r.row),
         rows[r.id].history \subseteq r.row.history,
         tx' = [tx EXCEPT ![s] = r],
         UNCHANGED <<rows, published>>
  PROVE  StoreInv'
<1> USE DEF StoreInv
<1>1. \A t \in Sessions : tx'[t] = IF t = s THEN r ELSE tx[t]
  BY DEF StoreTypeOK
<1>2. r.id \in Incidents
  BY DEF Tx
<1>3. StoreTypeOK'
  BY DEF StoreTypeOK
<1>4. (UniqueOpenFingerprint /\ PublishedIsCommitted /\ AbsentIsEmpty
       /\ \A i \in Incidents : Recorded(rows[i]))'
  BY DEF UniqueOpenFingerprint, PublishedIsCommitted, AbsentIsEmpty, Recorded, Indexed, Exists
<1>5. RowLocks'
  BY <1>1 DEF RowLocks, Flushed, RowLocked
<1>6. KeyVsRows'
  BY <1>1, <1>2 DEF KeyVsRows, Flushed, KeyTaken, Indexed
<1>7. KeyVsFlushed'
  BY <1>1, <1>2 DEF KeyVsFlushed, Flushed, KeyPending, RowLocked, Indexed
<1>8. (ReadExists /\ EntityRecorded)'
  BY <1>1 DEF ReadExists, EntityRecorded, Exists
<1>9. FlushedRow'
  BY <1>1 DEF FlushedRow, Flushed, Recorded
<1>10. QED
  BY <1>3, <1>4, <1>5, <1>6, <1>7, <1>8, <1>9

(* A commit makes the flushed version the row; it never loses history.     *)
LEMMA CommitStep ==
  ASSUME StoreInv, NEW s \in Sessions, NEW r \in Tx,
         Flushed(s),
         CommitRow(s),
         r.pc \in {"idle", "publish"},
         r.pc = "publish" => r.id = tx[s].id,
         tx' = [tx EXCEPT ![s] = r],
         UNCHANGED published
  PROVE  StoreInv' /\ \A i \in Incidents : rows[i].history \subseteq rows'[i].history
<1> USE DEF StoreInv
<1> DEFINE k == tx[s].id
           new == tx[s].row
<1>1. \A t \in Sessions : tx'[t] = IF t = s THEN r ELSE tx[t]
  BY DEF StoreTypeOK
<1>2. k \in Incidents /\ new \in Row
  BY DEF StoreTypeOK, Tx
<1>3. \A i \in Incidents : rows'[i] = IF i = k THEN new ELSE rows[i]
  BY <1>2 DEF StoreTypeOK, CommitRow
<1>4. StoreTypeOK'
  BY <1>2 DEF StoreTypeOK, CommitRow
<1>5. new.state # ABSENT /\ Recorded(new) /\ rows[k].history \subseteq new.history
  BY DEF FlushedRow
<1>6. \A i \in Incidents : rows[i].history \subseteq rows'[i].history
  BY <1>3, <1>5
<1>7. \A i \in Incidents : Exists(i) => Exists(i)'
  BY <1>3, <1>5 DEF Exists
<1>8. UniqueOpenFingerprint'
  BY <1>2, <1>3 DEF UniqueOpenFingerprint, KeyVsRows, Indexed
<1>9. PublishedIsCommitted'
  BY <1>7 DEF PublishedIsCommitted, StoreTypeOK
<1>10. (\A i \in Incidents : Recorded(rows[i]))'
  BY <1>3, <1>5 DEF Recorded
<1>11. AbsentIsEmpty'
  BY <1>3, <1>5 DEF AbsentIsEmpty, Exists
<1>12. (RowLocks /\ KeyVsFlushed)'
  BY <1>1 DEF RowLocks, KeyVsFlushed, Flushed, Indexed
<1>13. KeyVsRows'
  BY <1>1, <1>2, <1>3 DEF KeyVsRows, KeyVsFlushed, Flushed, Indexed
<1>14. ReadExists'
  BY <1>1, <1>3, <1>5, <1>7 DEF ReadExists, StoreTypeOK, Tx, Exists
<1>15. EntityRecorded'
  BY <1>1 DEF EntityRecorded
<1>16. FlushedRow'
  BY <1>1, <1>3 DEF FlushedRow, RowLocks, Flushed, Recorded, StoreTypeOK, Tx
<1>17. QED
  BY <1>4, <1>6, <1>8, <1>9, <1>10, <1>11, <1>12, <1>13, <1>14, <1>15, <1>16

---------------------------------------------------------------------------
(* The repository operations, for any session.                             *)

(* get and transition_to change the entity in memory only.                 *)
LEMMA ReadForTransitionInv ==
  ASSUME StoreInv, NEW s \in Sessions, NEW i \in Incidents, NEW target \in IncidentState,
         ReadForTransition(s, i, target), UNCHANGED <<rows, published>>
  PROVE  StoreInv'
<1> DEFINE r == [IdleTx EXCEPT !.pc = "read", !.id = i, !.seen = rows[i].state,
                               !.state = target, !.steps = {<<rows[i].state, target>>}]
<1>1. rows[i].state \in IncidentState /\ Exists(i)
  BY DEF ReadForTransition, Exists, StoreInv, StoreTypeOK, Row
<1>2. {<<rows[i].state, target>>} \subseteq ALLOWED_TRANSITIONS
  BY DEF ReadForTransition, can_transition
<1>3. r \in Tx /\ r.pc = "read" /\ r.id = i /\ r.state = target
      /\ r.steps = {<<rows[i].state, target>>}
  BY <1>1, <1>2, IdleType, AbsentType, StatesAreDistinct DEF Tx, IdleTx
<1>4. tx' = [tx EXCEPT ![s] = r] /\ published' \subseteq {j \in Incidents : Exists(j)}
  BY DEF ReadForTransition, StoreInv, PublishedIsCommitted, StoreTypeOK
<1>5. <<rows[i].state, target>>[2] = target
  OBVIOUS
<1>6. QED
  BY <1>1, <1>3, <1>4, <1>5, LocalStep

(* The SELECT of save changes what the session has loaded.                 *)
LEMMA LoadInv ==
  ASSUME StoreInv, NEW s \in Sessions, Load(s)
  PROVE  StoreInv'
<1>1. PICK b \in {tx[s].seen, rows[tx[s].id].state} :
        tx' = [tx EXCEPT ![s] = [IdleTx EXCEPT !.pc = "load", !.id = tx[s].id, !.base = b,
                                  !.state = tx[s].state, !.steps = tx[s].steps]]
  BY DEF Load
<1> DEFINE r == [IdleTx EXCEPT !.pc = "load", !.id = tx[s].id, !.base = b,
                               !.state = tx[s].state, !.steps = tx[s].steps]
<1>2. tx[s] \in Tx /\ tx[s].pc = "read" /\ Exists(tx[s].id)
      /\ (tx[s].state = OPEN \/ \E h \in tx[s].steps : h[2] = tx[s].state)
  BY DEF Load, StoreInv, StoreTypeOK, ReadExists, EntityRecorded
<1>3. b \in IncidentState
  BY <1>2 DEF Exists, StoreInv, StoreTypeOK, Tx, Row
<1>4. r \in Tx /\ r.pc = "load" /\ r.id = tx[s].id /\ r.state = tx[s].state
      /\ r.steps = tx[s].steps
  BY <1>2, <1>3, IdleType, AbsentType, StatesAreDistinct DEF Tx, IdleTx
<1>5. tx' = [tx EXCEPT ![s] = r]
  BY <1>1
<1>6. rows' = rows /\ published' \subseteq {j \in Incidents : Exists(j)}
  BY DEF Load, StoreInv, PublishedIsCommitted, StoreTypeOK
<1>7. QED
  BY <1>2, <1>4, <1>5, <1>6, LocalStep

(* The version an UPDATE writes keeps the fingerprint and the history.     *)
LEMMA UpdatedRowFacts ==
  ASSUME StoreInv, NEW s \in Sessions, tx[s].pc = "load"
  PROVE  /\ UpdatedRow(s) \in Row
         /\ UpdatedRow(s).state # ABSENT
         /\ UpdatedRow(s).fp = rows[tx[s].id].fp
         /\ Recorded(UpdatedRow(s))
         /\ UpdatedRow(s).history = rows[tx[s].id].history \cup tx[s].steps
<1> DEFINE current == rows[tx[s].id]
<1>1. tx[s] \in Tx /\ current \in Row /\ current.state # ABSENT /\ Recorded(current)
  BY DEF StoreInv, StoreTypeOK, Tx, ReadExists, Exists
<1>2. tx[s].state = OPEN \/ \E h \in tx[s].steps : h[2] = tx[s].state
  BY DEF StoreInv, EntityRecorded
<1>3. tx[s].state \in IncidentState /\ tx[s].steps \subseteq ALLOWED_TRANSITIONS
  BY <1>1 DEF Tx
<1>4. UpdatedRow(s) = [state   |-> IF tx[s].state # tx[s].base THEN tx[s].state ELSE current.state,
                       fp      |-> current.fp,
                       history |-> current.history \cup tx[s].steps]
  BY DEF UpdatedRow
<1>5. UpdatedRow(s) \in Row
  BY <1>1, <1>3, <1>4 DEF Row
<1>6. UpdatedRow(s).state # ABSENT
  BY <1>1, <1>3, <1>4, StatesAreDistinct
<1>7. Recorded(UpdatedRow(s))
  BY <1>1, <1>2, <1>4 DEF Recorded
<1>8. QED
  BY <1>4, <1>5, <1>6, <1>7

(* An UPDATE waits until no other transaction holds the row or its key.    *)
LEMMA FlushUpdateInv ==
  ASSUME StoreInv, NEW s \in Sessions, FlushUpdate(s)
  PROVE  StoreInv'
<1> DEFINE i == tx[s].id
           new == UpdatedRow(s)
           r == [IdleTx EXCEPT !.pc = "flushed", !.id = i, !.row = new]
<1>1. tx[s].pc = "load" /\ i \in Incidents
  BY DEF FlushUpdate, StoreInv, StoreTypeOK, Tx
<1>2. /\ new \in Row
      /\ new.state # ABSENT
      /\ new.fp = rows[i].fp
      /\ Recorded(new)
      /\ new.history = rows[i].history \cup tx[s].steps
  BY <1>1, UpdatedRowFacts
<1>3. r \in Tx /\ r.pc = "flushed" /\ r.id = i /\ r.row = new
  BY <1>1, <1>2, IdleType, AbsentType, StatesAreDistinct DEF Tx, IdleTx
<1>4. ~RowLocked(s, i) /\ tx' = [tx EXCEPT ![s] = r] /\ UNCHANGED <<rows, published>>
  BY DEF FlushUpdate
<1>5. ASSUME NEW f \in Fingerprints, Indexed(new, f)
      PROVE  ~KeyPending(s, i, f) /\ ~KeyTaken(i, f)
  <2>1. f = rows[i].fp
    BY <1>2, <1>5 DEF Indexed
  <2>2. QED
    BY <1>5, <2>1 DEF FlushUpdate
<1>6. rows[i].history \subseteq new.history
  BY <1>2
<1>7. QED
  BY <1>2, <1>3, <1>4, <1>5, <1>6, FlushStep

(* An INSERT waits until no other transaction holds the key.               *)
LEMMA FlushInsertInv ==
  ASSUME StoreInv, NEW s \in Sessions, NEW i \in Incidents,
         NEW f \in Fingerprints \cup {NoFingerprint}, FlushInsert(s, i, f)
  PROVE  StoreInv'
<1> DEFINE new == [state |-> OPEN, fp |-> f, history |-> {}]
           r == [IdleTx EXCEPT !.pc = "flushed", !.id = i, !.row = new, !.created = TRUE]
<1>1. new \in Row /\ new.state # ABSENT /\ Recorded(new)
  BY StatesAreDistinct DEF Row, Recorded
<1>2. r \in Tx /\ r.pc = "flushed" /\ r.id = i /\ r.row = new
  BY <1>1, IdleType, StatesAreDistinct DEF Tx, IdleTx
<1>3. ~RowLocked(s, i) /\ rows[i].history \subseteq new.history
  BY DEF FlushInsert, Fresh, RowLocked, Flushed, StoreInv, AbsentIsEmpty
<1>4. \A g \in Fingerprints : Indexed(new, g) => ~KeyPending(s, i, g) /\ ~KeyTaken(i, g)
  BY DEF FlushInsert, Indexed
<1>5. tx' = [tx EXCEPT ![s] = r] /\ UNCHANGED <<rows, published>>
  BY DEF FlushInsert
<1>6. QED
  BY <1>1, <1>2, <1>3, <1>4, <1>5, FlushStep

(* The end of a session's transaction without a commit.                    *)
LEMMA ToIdleInv ==
  ASSUME StoreInv, NEW s \in Sessions, tx' = [tx EXCEPT ![s] = IdleTx], rows' = rows,
         published' \subseteq {j \in Incidents : Exists(j)}
  PROVE  StoreInv'
BY IdleType, LocalStep

---------------------------------------------------------------------------
(* Every step of a request session preserves the invariant, and no history *)
(* entry is ever lost.                                                     *)
LEMMA RequestInv ==
  ASSUME StoreInv, NEW s \in ApiSessions, RequestStep(s) \/ PublishOpened(s)
  PROVE  StoreInv' /\ \A i \in Incidents : rows[i].history \subseteq rows'[i].history
<1> DEFINE Grows == \A i \in Incidents : rows[i].history \subseteq rows'[i].history
<1>a. s \in Sessions /\ tx[s] \in Tx
  BY DEF StoreInv, StoreTypeOK
<1>b. published \subseteq {j \in Incidents : Exists(j)}
  BY DEF StoreInv, StoreTypeOK, PublishedIsCommitted
<1>c. rows' = rows => Grows
  OBVIOUS
<1>1. ASSUME NEW i \in Incidents, PostIncident(s, i) PROVE StoreInv' /\ Grows
  BY <1>1, <1>a, <1>c, FlushInsertInv DEF PostIncident, FlushInsert
<1>2. ASSUME NEW i \in Incidents, NEW f \in Fingerprints, IngestFound(s, i, f)
      PROVE  StoreInv' /\ Grows
  <2> DEFINE r == [IdleTx EXCEPT !.pc = "read", !.id = i]
  <2>1. r \in Tx /\ r.pc = "read" /\ r.id = i /\ r.state = OPEN
    BY IdleType, AbsentType, StatesAreDistinct DEF Tx, IdleTx
  <2>2. Exists(i)
    BY <1>2, StatesAreDistinct DEF IngestFound, Indexed, Exists
  <2>3. tx' = [tx EXCEPT ![s] = r] /\ rows' = rows /\ published' = published
    BY <1>2 DEF IngestFound
  <2>4. QED
    BY <1>a, <1>b, <1>c, <2>1, <2>2, <2>3, LocalStep
<1>3. ASSUME NEW f \in Fingerprints, IngestNotFound(s, f) PROVE StoreInv' /\ Grows
  <2> DEFINE r == [IdleTx EXCEPT !.pc = "insert", !.fp = f]
  <2>1. r \in Tx /\ r.pc = "insert"
    BY IdleType, AbsentType, StatesAreDistinct DEF Tx, IdleTx
  <2>2. tx' = [tx EXCEPT ![s] = r] /\ rows' = rows /\ published' = published
    BY <1>3 DEF IngestNotFound
  <2>3. QED
    BY <1>a, <1>b, <1>c, <2>1, <2>2, LocalStep
<1>4. ASSUME NEW i \in Incidents, IngestInsert(s, i) PROVE StoreInv' /\ Grows
  <2>1. tx[s].fp \in Fingerprints \cup {NoFingerprint}
    BY <1>a DEF Tx
  <2>2. QED
    BY <1>4, <1>a, <1>c, <2>1, FlushInsertInv DEF IngestInsert, FlushInsert
<1>5. ASSUME NEW i \in Incidents, NEW target \in Targets, PatchState(s, i, target)
      PROVE  StoreInv' /\ Grows
  BY <1>5, <1>a, <1>c, TargetsAssumption, ReadForTransitionInv DEF PatchState
<1>6. CASE Load(s)
  BY <1>6, <1>a, <1>c, LoadInv DEF Load
<1>7. CASE FlushUpdate(s)
  BY <1>7, <1>a, <1>c, FlushUpdateInv DEF FlushUpdate
<1>8. CASE Commit(s)
  <2> DEFINE p == [IdleTx EXCEPT !.pc = "publish", !.id = tx[s].id]
             r == IF tx[s].created THEN p ELSE IdleTx
  <2>1. tx[s].id \in Incidents
    BY <1>a DEF Tx
  <2>2. p \in Tx /\ p.pc = "publish" /\ p.id = tx[s].id
    BY <2>1, IdleType, AbsentType, StatesAreDistinct DEF Tx, IdleTx
  <2>3. r \in Tx /\ r.pc \in {"idle", "publish"} /\ (r.pc = "publish" => r.id = tx[s].id)
    BY <2>2, IdleType
  <2>4. tx' = [tx EXCEPT ![s] = r]
    BY <1>8 DEF Commit
  <2>5. QED
    BY <1>8, <1>a, <2>3, <2>4, CommitStep DEF Commit
<1>9. CASE Rollback(s)
  BY <1>9, <1>a, <1>b, <1>c, ToIdleInv DEF Rollback
<1>10. CASE LoseOpened(s)
  BY <1>10, <1>a, <1>b, <1>c, ToIdleInv DEF LoseOpened
<1>11. CASE PublishOpened(s)
  <2>1. tx[s].id \in Incidents /\ Exists(tx[s].id)
    BY <1>11, <1>a DEF Tx, StoreInv, ReadExists, PublishOpened
  <2>2. published' \subseteq {j \in Incidents : Exists(j)}
    BY <1>11, <1>b, <2>1 DEF PublishOpened
  <2>3. QED
    BY <1>11, <1>a, <1>c, <2>2, ToIdleInv DEF PublishOpened
<1>12. QED
  BY <1>1, <1>2, <1>3, <1>4, <1>5, <1>6, <1>7, <1>8, <1>9, <1>10, <1>11 DEF RequestStep

---------------------------------------------------------------------------
(* A step that leaves the store's variables alone.                         *)
LEMMA StoreStutter ==
  ASSUME StoreInv, UNCHANGED storeVars
  PROVE  StoreInv'
BY DEF StoreInv, storeVars, StoreTypeOK, UniqueOpenFingerprint, PublishedIsCommitted, Recorded,
       RowLocks, KeyVsRows, KeyVsFlushed, ReadExists, EntityRecorded, FlushedRow, AbsentIsEmpty,
       Flushed, Indexed, Exists

(* The inductive invariant holds in every behaviour of the request         *)
(* sessions of get_db.                                                     *)
THEOREM StoreInvariance == StoreSpec => []StoreInv
<1>1. StoreInit => StoreInv
  BY StoreInitInv
<1>2. StoreInv /\ [StoreNext]_storeVars => StoreInv'
  BY RequestInv, StoreStutter DEF StoreNext
<1>3. QED
  BY <1>1, <1>2, PTL DEF StoreSpec

(* Every variable keeps its type, for any number of sessions.              *)
THEOREM StoreTypeCorrect == StoreSpec => []StoreTypeOK
<1>1. StoreInv => StoreTypeOK
  BY DEF StoreInv
<1>2. QED
  BY <1>1, StoreInvariance, PTL

(* The check-then-insert of IngestIncidentSignal and the stale saves never *)
(* leave two open incidents with one fingerprint.                          *)
THEOREM FingerprintsStayUnique == StoreSpec => []UniqueOpenFingerprint
<1>1. StoreInv => UniqueOpenFingerprint
  BY DEF StoreInv
<1>2. QED
  BY <1>1, StoreInvariance, PTL

(* The buffered events of get_db reach the bus only after their commit.    *)
THEOREM EventsFollowCommits == StoreSpec => []PublishedIsCommitted
<1>1. StoreInv => PublishedIsCommitted
  BY DEF StoreInv
<1>2. QED
  BY <1>1, StoreInvariance, PTL

(* No interleaving of apply_to_orm saves leaves a state without the        *)
(* history entry that explains it.                                         *)
THEOREM StatesAreRecorded == StoreSpec => []StateIsRecorded
<1>1. StoreInv => StateIsRecorded
  BY DEF StoreInv, StateIsRecorded, Recorded
<1>2. QED
  BY <1>1, StoreInvariance, PTL

(* No save, however stale its entity, removes a committed history entry.   *)
THEOREM HistoryIsKept == StoreSpec => HistoryGrows
<1>1. StoreInv /\ [StoreNext]_storeVars
        => [\A i \in Incidents : rows[i].history \subseteq rows'[i].history]_storeVars
  BY RequestInv DEF StoreNext
<1>2. QED
  BY <1>1, StoreInvariance, PTL DEF StoreSpec, HistoryGrows

===========================================================================
