-------------------------- MODULE IncidentStore --------------------------
(***************************************************************************)
(* The incidents table and the database sessions that write it.            *)
(*                                                                         *)
(* A request handler reads an incident (get_by_id or                       *)
(* get_open_by_fingerprint), changes the entity in memory, and saves it:   *)
(* save selects the row again, copies every field of the entity onto it    *)
(* and flushes, and the UPDATE holds the row lock until the session ends.  *)
(* Sessions run at READ COMMITTED with no version column, so each of these *)
(* round trips can interleave with every other session's.  A session that  *)
(* created an incident publishes incident.opened.v1 after its commit.      *)
(***************************************************************************)
EXTENDS IncidentLifecycle

CONSTANTS
  Incidents,       \* the uuids incidents may get
  Fingerprints,    \* webhook fingerprints: service | scenario | hour
  NoFingerprint,   \* the fingerprint of a manually created incident
  Targets,         \* the states clients ask for in PATCH requests
  ApiSessions,     \* sessions of HTTP requests
  Workers          \* worker processes; each handles one message at a time

ASSUME NoFingerprintAssumption == NoFingerprint \notin Fingerprints
ASSUME SessionsAssumption == ApiSessions \cap Workers = {}
ASSUME TargetsAssumption == Targets \subseteq IncidentState
ASSUME NonemptyAssumption == Incidents # {}

Sessions == ApiSessions \cup Workers

VARIABLES
  rows,        \* the committed incidents table
  tx,          \* the transaction each session has open
  published    \* incidents whose incident.opened.v1 reached EventBridge

storeVars == <<rows, tx, published>>

---------------------------------------------------------------------------
(* Rows and transactions.                                                  *)

ABSENT == "absent"

(* history is the set of recorded steps <<from, to>>; their times are left *)
(* out.  A row that was never committed is Absent.                         *)
Row == [state   : IncidentState \cup {ABSENT},
        fp      : Fingerprints \cup {NoFingerprint},
        history : SUBSET ALLOWED_TRANSITIONS]

Absent == [state |-> ABSENT, fp |-> NoFingerprint, history |-> {}]

Exists(i) == rows[i].state # ABSENT

(* pc: idle    no transaction;                                             *)
(*     insert  no open incident was found, the INSERT is next;             *)
(*     read    an entity was read and changed in memory;                   *)
(*     load    save has selected the row again, the UPDATE is next;        *)
(*     flushed the INSERT or UPDATE is in the database, uncommitted;       *)
(*     publish committed, the buffered event is still to be sent.          *)
(* seen is the state the entity was read in, state the one it has now and  *)
(* steps its new history entries; base is the state save selected; row is  *)
(* the uncommitted version; created tells whether an event is buffered.    *)
(* A field goes back to its IdleTx value when the code no longer uses it.  *)
Tx == [pc      : {"idle", "insert", "read", "load", "flushed", "publish"},
       id      : Incidents,
       seen    : IncidentState,
       state   : IncidentState,
       steps   : SUBSET ALLOWED_TRANSITIONS,
       base    : IncidentState,
       fp      : Fingerprints \cup {NoFingerprint},
       row     : Row,
       created : BOOLEAN]

IdleTx == [pc      |-> "idle",
           id      |-> CHOOSE i \in Incidents : TRUE,
           seen    |-> OPEN,
           state   |-> OPEN,
           steps   |-> {},
           base    |-> OPEN,
           fp      |-> NoFingerprint,
           row     |-> Absent,
           created |-> FALSE]

Flushed(s) == tx[s].pc = "flushed"

(* uuid4 never repeats an id that a row or a pending insert has.           *)
Fresh(i) == ~Exists(i) /\ \A s \in Sessions : tx[s].pc \in {"flushed", "publish"} => tx[s].id # i

---------------------------------------------------------------------------
(* The partial unique index ux_incidents_open_fingerprint and the row      *)
(* locks of the database.                                                  *)

Indexed(row, f) == f # NoFingerprint /\ row.fp = f /\ row.state = OPEN

(* Mutant: no ux_incidents_open_fingerprint.                               *)
KeyTaken_NoIndex(i, f) == FALSE

(* A committed row other than i already has the key.                       *)
KeyTaken(i, f) == \E j \in Incidents \ {i} : Indexed(rows[j], f)

(* Another open transaction has written, on a row other than i, an old or  *)
(* a new version with the key: the writer must wait until it ends.         *)
KeyPending(s, i, f) ==
  \E t \in Sessions \ {s} :
    Flushed(t) /\ tx[t].id # i /\ (Indexed(tx[t].row, f) \/ Indexed(rows[tx[t].id], f))

(* Another open transaction holds the lock of row i.                       *)
RowLocked(s, i) == \E t \in Sessions \ {s} : Flushed(t) /\ tx[t].id = i

---------------------------------------------------------------------------
(* Repository steps, shared by the request handlers and the worker.        *)

(* get_by_id followed by transition_to on the entity it returned.          *)
ReadForTransition(s, i, target) ==
  /\ Exists(i)
  /\ can_transition(rows[i].state, target)
  /\ tx' = [tx EXCEPT ![s] = [IdleTx EXCEPT !.pc    = "read",
                                            !.id    = i,
                                            !.seen  = rows[i].state,
                                            !.state = target,
                                            !.steps = {<<rows[i].state, target>>}]]

(* _load inside save.  The session's identity map is weak: if the object   *)
(* of the first read is still alive its attributes are kept, otherwise the *)
(* committed row is read afresh.                                           *)
Load(s) ==
  /\ tx[s].pc = "read"
  /\ \E b \in {tx[s].seen, rows[tx[s].id].state} :
       tx' = [tx EXCEPT ![s] = [IdleTx EXCEPT !.pc    = "load",
                                              !.id    = tx[s].id,
                                              !.state = tx[s].state,
                                              !.steps = tx[s].steps,
                                              !.base  = b]]
  /\ UNCHANGED <<rows, published>>

(* Mutant: apply_to_orm forgets the new history entries.                   *)
UpdatedRow_NoHistory(s) ==
  LET current == rows[tx[s].id]
  IN  [state   |-> IF tx[s].state # tx[s].base THEN tx[s].state ELSE current.state,
       fp      |-> current.fp,
       history |-> current.history]

(* Mutant: apply_to_orm replaces the history by the entity's.              *)
UpdatedRow_Overwrite(s) ==
  LET current == rows[tx[s].id]
  IN  [state   |-> IF tx[s].state # tx[s].base THEN tx[s].state ELSE current.state,
       fp      |-> current.fp,
       history |-> tx[s].steps]

(* What the UPDATE leaves in the row: the state column is part of it only  *)
(* when apply_to_orm changed the value _load saw, the history rows are     *)
(* INSERTs, and the other columns carry no state the properties look at.   *)
UpdatedRow(s) ==
  LET current == rows[tx[s].id]
  IN  [state   |-> IF tx[s].state # tx[s].base THEN tx[s].state ELSE current.state,
       fp      |-> current.fp,
       history |-> current.history \cup tx[s].steps]

(* apply_to_orm and flush.  The UPDATE waits for the row lock, and for the *)
(* transactions that hold a conflicting index entry.                       *)
FlushUpdate(s) ==
  LET i == tx[s].id
      f == rows[i].fp
      new == UpdatedRow(s)
  IN  /\ tx[s].pc = "load"
      /\ ~RowLocked(s, i)
      /\ Indexed(new, f) => ~KeyPending(s, i, f) /\ ~KeyTaken(i, f)
      /\ tx' = [tx EXCEPT ![s] = [IdleTx EXCEPT !.pc = "flushed", !.id = i, !.row = new]]
      /\ UNCHANGED <<rows, published>>

(* Incident.create and the INSERT of repository.create.                    *)
FlushInsert(s, i, f) ==
  /\ Fresh(i)
  /\ f # NoFingerprint => ~KeyPending(s, i, f) /\ ~KeyTaken(i, f)
  /\ tx' = [tx EXCEPT ![s] = [IdleTx EXCEPT !.pc      = "flushed",
                                            !.id      = i,
                                            !.row     = [state |-> OPEN, fp |-> f, history |-> {}],
                                            !.created = TRUE]]
  /\ UNCHANGED <<rows, published>>

(* session.commit: the flushed version becomes the row.                    *)
CommitRow(s) == rows' = [rows EXCEPT ![tx[s].id] = tx[s].row]

---------------------------------------------------------------------------
(* The request handlers.                                                   *)

(* POST /incidents: CreateIncident with no fingerprint.                    *)
PostIncident(s, i) ==
  /\ tx[s].pc = "idle"
  /\ FlushInsert(s, i, NoFingerprint)

(* POST /webhooks/incidents: the lookup finds an open incident, which gets *)
(* a duplicate note: the entity's state does not change, but it is saved.  *)
IngestFound(s, i, f) ==
  /\ tx[s].pc = "idle"
  /\ Indexed(rows[i], f)
  /\ tx' = [tx EXCEPT ![s] = [IdleTx EXCEPT !.pc = "read", !.id = i]]
  /\ UNCHANGED <<rows, published>>

(* The lookup finds nothing: the handler goes on to create.                *)
IngestNotFound(s, f) ==
  /\ tx[s].pc = "idle"
  /\ \A i \in Incidents : ~Indexed(rows[i], f)
  /\ tx' = [tx EXCEPT ![s] = [IdleTx EXCEPT !.pc = "insert", !.fp = f]]
  /\ UNCHANGED <<rows, published>>

IngestInsert(s, i) ==
  /\ tx[s].pc = "insert"
  /\ FlushInsert(s, i, tx[s].fp)

(* PATCH /incidents/{id}/state: a transition the table refuses is a 409    *)
(* and changes nothing.                                                    *)
PatchState(s, i, target) ==
  /\ tx[s].pc = "idle"
  /\ ReadForTransition(s, i, target)
  /\ UNCHANGED <<rows, published>>

(* get_db after the handler returned: commit, then flush the event buffer. *)
Commit(s) ==
  /\ Flushed(s)
  /\ CommitRow(s)
  /\ tx' = IF tx[s].created THEN [tx EXCEPT ![s] = [IdleTx EXCEPT !.pc = "publish", !.id = tx[s].id]]
                            ELSE [tx EXCEPT ![s] = IdleTx]
  /\ UNCHANGED published

(* An exception in the handler, the unique index refusing the write        *)
(* (IntegrityError), or the death of the process: get_db rolls back.       *)
Rollback(s) ==
  /\ tx[s].pc \in {"insert", "read", "load", "flushed"}
  /\ tx' = [tx EXCEPT ![s] = IdleTx]
  /\ UNCHANGED <<rows, published>>

(* Mutant: the event is sent by the use case, not after the commit.        *)
PublishOpened_Unbuffered(s) ==
  /\ Flushed(s)
  /\ tx[s].created
  /\ published' = published \cup {tx[s].id}
  /\ UNCHANGED <<rows, tx>>

(* flush_pending_domain_events: the bus takes the event.                   *)
PublishOpened(s) ==
  /\ tx[s].pc = "publish"
  /\ published' = published \cup {tx[s].id}
  /\ tx' = [tx EXCEPT ![s] = IdleTx]
  /\ UNCHANGED rows

(* The bus refuses the event (logged, the request still succeeds), no      *)
(* publisher is configured, or the process dies first: the event is lost.  *)
LoseOpened(s) ==
  /\ tx[s].pc = "publish"
  /\ tx' = [tx EXCEPT ![s] = IdleTx]
  /\ UNCHANGED <<rows, published>>

---------------------------------------------------------------------------
StoreInit ==
  /\ rows = [i \in Incidents |-> Absent]
  /\ tx = [s \in Sessions |-> IdleTx]
  /\ published = {}

(* Every step of a request session except the delivery of its event.       *)
RequestStep(s) ==
  \/ \E i \in Incidents : PostIncident(s, i)
  \/ \E i \in Incidents, f \in Fingerprints : IngestFound(s, i, f)
  \/ \E f \in Fingerprints : IngestNotFound(s, f)
  \/ \E i \in Incidents : IngestInsert(s, i)
  \/ \E i \in Incidents, target \in Targets : PatchState(s, i, target)
  \/ Load(s)
  \/ FlushUpdate(s)
  \/ Commit(s)
  \/ Rollback(s)
  \/ LoseOpened(s)

StoreNext == \E s \in ApiSessions : RequestStep(s) \/ PublishOpened(s)

StoreSpec == StoreInit /\ [][StoreNext]_storeVars

---------------------------------------------------------------------------
(* Properties.                                                             *)

(* Every variable has the shape the code gives it.                         *)
StoreTypeOK ==
  /\ rows \in [Incidents -> Row]
  /\ tx \in [Sessions -> Tx]
  /\ published \subseteq Incidents

(* Two open incidents never share a fingerprint, whatever signals and      *)
(* saves interleave: the check-then-insert of IngestIncidentSignal.execute *)
(* and the stale saves are caught by ux_incidents_open_fingerprint.        *)
UniqueOpenFingerprint ==
  \A i, j \in Incidents, f \in Fingerprints :
    Indexed(rows[i], f) /\ Indexed(rows[j], f) => i = j

(* incident.opened.v1 is only ever sent for a committed incident: the      *)
(* RequestEventBuffer of get_db keeps it until after the commit, so a      *)
(* consumer that looks the incident up finds it.                           *)
PublishedIsCommitted == \A i \in published : Exists(i)

(* A committed incident that is not open has a recorded step into its      *)
(* state, although apply_to_orm writes the state column and the history    *)
(* rows of one save separately and other saves interleave with it.         *)
StateIsRecorded ==
  \A i \in Incidents :
    rows[i].state \in {ABSENT, OPEN} \/ \E h \in rows[i].history : h[2] = rows[i].state

(* A save never removes or rewrites a history entry another session        *)
(* committed, even when its entity was read before that entry existed.     *)
HistoryGrows ==
  [][\A i \in Incidents : rows[i].history \subseteq rows'[i].history]_storeVars

(* transitions.py: "``closed`` is terminal".  Sessions that read the row   *)
(* before it was closed and save it afterwards do not respect this.        *)
ClosedIsTerminal ==
  [][\A i \in Incidents : rows[i].state = CLOSED => rows'[i].state = CLOSED]_storeVars

===========================================================================
