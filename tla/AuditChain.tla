----------------------------- MODULE AuditChain ----------------------------
(***************************************************************************)
(* The audit log of tool decisions.  Every gateway of a process appends to *)
(* one log in memory: it takes the hash of the last entry, builds its own  *)
(* entry on it, and appends (AppendAudit over MemoryAuditRepository, no    *)
(* lock).  The specialists of a fan-out do so in threads.  After the graph *)
(* the handler drains the log and inserts the entries one by one in its    *)
(* transaction; an attempt that fails leaves in memory what it had not     *)
(* drained.                                                                *)
(*                                                                         *)
(* An entry's hash stands for the entry; prev is the hash it was built on. *)
(***************************************************************************)
EXTENDS Naturals, Sequences, FiniteSets

CONSTANTS
  Processes,     \* investigation workers
  Specialists,   \* the agents of a fan-out, one call each at a time
  Genesis,       \* GENESIS_HASH
  Nothing,       \* stands for a call that has not read the last hash
  MaxEntries     \* decisions made in all (bound)

ASSUME AuditAssumption ==
  MaxEntries \in Nat /\ Genesis \notin Nat /\ Nothing \notin Nat \cup {Genesis}

Ids == 1 .. MaxEntries
Hash == Ids \cup {Genesis}
Entry == [id : Ids, prev : Hash]

VARIABLES
  made,      \* how many entries were built so far
  pc,        \* what each process does
  base,      \* the hash each call in progress builds on
  log,       \* each process's entries in memory
  drained,   \* entries taken from memory and not yet inserted
  written,   \* entries inserted by the open transaction
  table      \* committed rows of audit_log

vars == <<made, pc, base, log, drained, written, table>>

Entries(seq) == {seq[i] : i \in DOMAIN seq}

---------------------------------------------------------------------------
latest_hash(p) == IF log[p] = <<>> THEN Genesis ELSE log[p][Len(log[p])].id

(* The handler starts the graph.                                           *)
StartGraph(p) ==
  /\ pc[p] = "idle"
  /\ pc' = [pc EXCEPT ![p] = "graph"]
  /\ UNCHANGED <<made, base, log, drained, written, table>>

(* record_decision: first the predecessor ...                              *)
ReadHash(p, s) ==
  /\ pc[p] = "graph" /\ base[p][s] = Nothing
  /\ base' = [base EXCEPT ![p][s] = latest_hash(p)]
  /\ UNCHANGED <<made, pc, log, drained, written, table>>

(* ... and, once the entry is redacted, built and hashed, the append.      *)
AppendEntry(p, s) ==
  /\ base[p][s] # Nothing
  /\ made < MaxEntries
  /\ made' = made + 1
  /\ log' = [log EXCEPT ![p] = Append(@, [id |-> made + 1, prev |-> base[p][s]])]
  /\ base' = [base EXCEPT ![p][s] = Nothing]
  /\ UNCHANGED <<pc, drained, written, table>>

Quiet(p) == \A s \in Specialists : base[p][s] = Nothing

(* Mutant: only the newest entry is taken.                                 *)
DrainLog_Newest(p) ==
  /\ pc[p] = "graph" /\ Quiet(p)
  /\ pc' = [pc EXCEPT ![p] = "persist"]
  /\ drained' = [drained EXCEPT ![p] = IF @ = log[p] THEN @ ELSE <<log[p][Len(log[p])]>>]
  /\ log' = [log EXCEPT ![p] = SubSeq(@, 1, Len(@) - 1)]
  /\ UNCHANGED <<made, base, written, table>>

(* Mutant: the entries are copied and stay in memory.                      *)
DrainLog_Copies(p) ==
  /\ pc[p] = "graph" /\ Quiet(p)
  /\ pc' = [pc EXCEPT ![p] = "persist"]
  /\ drained' = [drained EXCEPT ![p] = log[p]]
  /\ UNCHANGED <<made, base, log, written, table>>

(* The graph has returned: drain takes everything and clears the log.      *)
DrainLog(p) ==
  /\ pc[p] = "graph" /\ Quiet(p)
  /\ pc' = [pc EXCEPT ![p] = "persist"]
  /\ drained' = [drained EXCEPT ![p] = log[p]]
  /\ log' = [log EXCEPT ![p] = <<>>]
  /\ UNCHANGED <<made, base, written, table>>

(* persist: an INSERT and a flush for each.                                *)
PersistEntry(p) ==
  /\ pc[p] = "persist" /\ drained[p] # <<>>
  /\ written' = [written EXCEPT ![p] = @ \cup {Head(drained[p])}]
  /\ drained' = [drained EXCEPT ![p] = Tail(@)]
  /\ UNCHANGED <<made, pc, base, log, table>>

CommitAudit(p) ==
  /\ pc[p] = "persist" /\ drained[p] = <<>>
  /\ table' = table \cup written[p]
  /\ written' = [written EXCEPT ![p] = {}]
  /\ pc' = [pc EXCEPT ![p] = "idle"]
  /\ UNCHANGED <<made, base, log, drained>>

(* The attempt fails: in the graph, at an insert, at the commit.           *)
RollbackAudit(p) ==
  /\ pc[p] # "idle" /\ Quiet(p)
  /\ written' = [written EXCEPT ![p] = {}]
  /\ drained' = [drained EXCEPT ![p] = <<>>]
  /\ pc' = [pc EXCEPT ![p] = "idle"]
  /\ UNCHANGED <<made, base, log, table>>

CrashProcess(p) ==
  /\ pc' = [pc EXCEPT ![p] = "idle"]
  /\ base' = [base EXCEPT ![p] = [s \in Specialists |-> Nothing]]
  /\ log' = [log EXCEPT ![p] = <<>>]
  /\ drained' = [drained EXCEPT ![p] = <<>>]
  /\ written' = [written EXCEPT ![p] = {}]
  /\ UNCHANGED <<made, table>>

---------------------------------------------------------------------------
Init ==
  /\ made = 0
  /\ pc = [p \in Processes |-> "idle"]
  /\ base = [p \in Processes |-> [s \in Specialists |-> Nothing]]
  /\ log = [p \in Processes |-> <<>>]
  /\ drained = [p \in Processes |-> <<>>]
  /\ written = [p \in Processes |-> {}]
  /\ table = {}

ProcessStep(p) ==
  \/ StartGraph(p)
  \/ \E s \in Specialists : ReadHash(p, s) \/ AppendEntry(p, s)
  \/ DrainLog(p) \/ PersistEntry(p) \/ CommitAudit(p)
  \/ RollbackAudit(p) \/ CrashProcess(p)

Next == \E p \in Processes : ProcessStep(p)

Spec == Init /\ [][Next]_vars

---------------------------------------------------------------------------
(* Properties.                                                             *)

(* Logs hold entries, and nothing is drained or written outside a handler. *)
AuditTypeOK ==
  /\ made \in 0 .. MaxEntries
  /\ pc \in [Processes -> {"idle", "graph", "persist"}]
  /\ base \in [Processes -> [Specialists -> Hash \cup {Nothing}]]
  /\ log \in [Processes -> Seq(Entry)]
  /\ drained \in [Processes -> Seq(Entry)]
  /\ written \in [Processes -> SUBSET Entry]
  /\ \A p \in Processes : pc[p] # "persist" => drained[p] = <<>> /\ written[p] = {}
  /\ table \subseteq Entry

(* No committed row hangs in the air: the row its prev_hash names is       *)
(* committed too, over failed attempts, entries left in memory for a later *)
(* incident's transaction, crashes, and calls that race for a predecessor. *)
PredecessorIsStored ==
  \A row \in table : row.prev = Genesis \/ \E other \in table : other.id = row.prev

(* An entry that is committed is nowhere still to be inserted: a second    *)
(* insert would break the key and fail every later investigation.          *)
StoredOnce ==
  \A p \in Processes :
    {row.id : row \in table} \cap
      ({entry.id : entry \in Entries(log[p]) \cup Entries(drained[p])}
         \cup {row.id : row \in written[p]}) = {}

---------------------------------------------------------------------------
(* What the repository says and the code does not keep.                    *)

(* v0.6.md:13: "append-only `audit_log` with a hash chain": one first row. *)
OneChain == Cardinality({row \in table : row.prev = Genesis}) <= 1

(* test_append_audit.py:45: each entry names the one before it.            *)
LogIsChained ==
  \A p \in Processes :
    \A i \in 1 .. Len(log[p]) - 1 : log[p][i + 1].prev = log[p][i].id

(* v0.6.md:13: "Allow and deny are both recorded."  Short of a crash, a    *)
(* decision that was made is in the table, or still on its way there.      *)
DecisionsAreKept ==
  [][\A p \in Processes :
       RollbackAudit(p) =>
         Entries(log[p]) \cup Entries(drained[p]) \cup written[p]
           \subseteq Entries(log[p]') \cup Entries(drained[p]') \cup written[p]' \cup table']_vars
===========================================================================
