--------------------------- MODULE RcaGeneration ---------------------------
(***************************************************************************)
(* From tool results to a root cause analysis, item by item: what the      *)
(* specialists collect and record, which of it the model is shown, which   *)
(* answers are accepted, and what the handler stores.  InvestigationRunner *)
(* has the same attempts with sets in place of sequences; here the order   *)
(* and the number of items matter, because the pack is cut.                *)
(*                                                                         *)
(* One worker process; the recorder and the checkpointed threads are its   *)
(* memory and outlive an attempt.                                          *)
(***************************************************************************)
EXTENDS CommanderPlan, Sequences, SequencesExt

CONSTANTS
  Incidents,
  Scenario,         \* the scenario of each incident
  Results,          \* the hits each specialist's tools may return, by key
  OBS_MAX_ITEMS,
  MAX_PACK_ITEMS,
  Unknown,          \* an evidence id that is not in the pack
  MaxAttempts       \* deliveries of an incident's event (bound)

ASSUME PackAssumption ==
  /\ MAX_PACK_ITEMS \in Nat \ {0} /\ OBS_MAX_ITEMS \in Nat \ {0} /\ MaxAttempts \in Nat
  /\ Results \in [Collectors -> SUBSET Seq(Nat)]

VARIABLES
  attempts,    \* deliveries of each incident so far
  run,         \* the attempt in progress
  threads,     \* the checkpointed channels of each incident
  recorded,    \* CollectingEvidenceRecorder.recorded, in the order recorded
  unrecorded,  \* history: incidents for which record_collected raised
  leftover,    \* history: recorded has rows of an attempt that raised
  db           \* committed rows

vars == <<attempts, run, threads, recorded, unrecorded, leftover, db>>

---------------------------------------------------------------------------
(* An item of the evidence channel, and an evidence row: an item under the *)
(* id minted for it.  at is the attempt; 0 is an id derived from the       *)
(* item's place in the thread.                                             *)
Item == [k : Collectors, key : Nat]
Row(i, item, at) == [inc |-> i, k |-> item.k, key |-> item.key, at |-> at]

NoThread == [evidence |-> <<>>, failed |-> {}, status |-> "", cites |-> {}, late |-> FALSE]

NoRun == [pc |-> "idle", id |-> CHOOSE i \in Incidents : TRUE, hops |-> 0, todo |-> {},
          got |-> [k \in Collectors |-> <<>>], failed |-> {}, pack |-> <<>>, tries |-> 0]

Current == threads[run.id]
SetCurrent(t) == threads' = [threads EXCEPT ![run.id] = t]
Sources(items) == {item.k : item \in ToSet(items)}

Init ==
  /\ attempts = [i \in Incidents |-> 0]
  /\ run = NoRun
  /\ threads = [i \in Incidents |-> NoThread]
  /\ recorded = <<>>
  /\ unrecorded = {}
  /\ leftover = FALSE
  /\ db = [evidence |-> {}, reports |-> {}, done |-> {}]

---------------------------------------------------------------------------
(* Collection.                                                             *)

(* runner.start, invoke_investigation and intake.                          *)
Start(i) ==
  /\ run.pc = "idle" /\ i \notin db.done /\ attempts[i] < MaxAttempts
  /\ attempts' = [attempts EXCEPT ![i] = @ + 1]
  /\ run' = [NoRun EXCEPT !.pc = "commander", !.id = i]
  /\ threads' = [threads EXCEPT ![i].status = "running"]
  /\ UNCHANGED <<recorded, unrecorded, leftover, db>>

(* The commander, with what the thread knows, and escalate if it says so:  *)
(* that interrupts before it returns, and the status stays as it is.       *)
Commander ==
  LET next == next_action(Scenario[run.id], run.hops + 1, Sources(Current.evidence),
                          Current.late, Current.failed).next
  IN  /\ run.pc = "commander"
      /\ run' = [run EXCEPT !.hops = @ + 1,
                            !.pc = CASE next = SYNTHESIZE -> "synthesize"
                                     [] next = ESCALATE   -> "ended"
                                     [] OTHER             -> "specialists",
                            !.todo = CASE next = FANOUT          -> DB_REQUIRED
                                       [] next \in Collectors    -> {next}
                                       [] OTHER                  -> {}]
      /\ UNCHANGED <<attempts, threads, recorded, unrecorded, leftover, db>>

(* _dedupe_code_hits: deploys come from both code tools, and the first hit  *)
(* of each key is kept.                                                    *)
Deduped(hits) ==
  LET firsts == {n \in DOMAIN hits : \A m \in 1 .. n - 1 : hits[m] # hits[n]}
  IN  [j \in 1 .. Cardinality(firsts) |->
         hits[CHOOSE n \in firsts : Cardinality(firsts \cap 1 .. n) = j]]

First(n, seq) == SubSeq(seq, 1, IF n < Len(seq) THEN n ELSE Len(seq))

(* _obs_item, _knowledge_item and _code_item over what the tools returned. *)
Items(k, hits) ==
  LET kept == CASE k = OBSERVABILITY -> First(OBS_MAX_ITEMS, hits)
                [] k = CODE          -> Deduped(hits)
                [] OTHER             -> hits
  IN  [n \in DOMAIN kept |-> [k |-> k, key |-> kept[n]]]

(* A node returns.  The super-step ends with the last one, and the         *)
(* reducers add what all returned, in the order the nodes were sent.       *)
Returns(k, items, failed) ==
  LET got  == [run.got EXCEPT ![k] = items]
      todo == run.todo \ {k}
  IN  IF todo # {}
      THEN /\ run' = [run EXCEPT !.todo = todo, !.got = got, !.failed = failed]
           /\ UNCHANGED threads
      ELSE /\ run' = [run EXCEPT !.pc = "commander", !.todo = {}, !.got = NoRun.got, !.failed = {}]
           /\ SetCurrent([Current EXCEPT
                !.evidence = @ \o got[OBSERVABILITY] \o got[KNOWLEDGE] \o got[CODE],
                !.failed = @ \cup failed])

(* collect_*: the call was allowed and brought something.  record_collected *)
(* adds all rows or none; what it raises is swallowed.                     *)
Collect(k) ==
  /\ run.pc = "specialists" /\ k \in run.todo
  /\ \E hits \in Results[k] :
       LET items == Items(k, hits)
           rows  == [n \in DOMAIN items |-> Row(run.id, items[n], attempts[run.id])]
       IN  /\ items # <<>>
           /\ Returns(k, items, run.failed)
           /\ \/ recorded' = recorded \o rows /\ UNCHANGED unrecorded
              \/ unrecorded' = unrecorded \cup {run.id} /\ UNCHANGED recorded
  /\ UNCHANGED <<attempts, leftover, db>>

(* collect_*: denied, raised, or nothing came back.                        *)
CollectFails(k) ==
  /\ run.pc = "specialists" /\ k \in run.todo
  /\ Returns(k, <<>>, run.failed \cup {k})
  /\ UNCHANGED <<attempts, recorded, unrecorded, leftover, db>>

---------------------------------------------------------------------------
(* Generation.                                                             *)

pack_from_evidence_rows(rows) == First(MAX_PACK_ITEMS, rows)

(* Ids are derived from the item's index.                                  *)
pack_from_graph_evidence(i, items) ==
  [n \in DOMAIN First(MAX_PACK_ITEMS, items) |-> Row(i, [items[n] EXCEPT !.key = n], 0)]

(* Mutant: the cut is one item early.                                      *)
PackOf_OffByOne(i) ==
  LET cut(rows) == First(MAX_PACK_ITEMS - 1, rows)
  IN  IF recorded # <<>> THEN cut(recorded) ELSE cut(pack_from_graph_evidence(i, threads[i].evidence))

(* What the prompt holds: the recorder's rows, and the thread's items only *)
(* if it has none.                                                         *)
PackOf(i) ==
  IF recorded # <<>> THEN pack_from_evidence_rows(recorded)
                     ELSE pack_from_graph_evidence(i, threads[i].evidence)

(* _synthesize and assemble_rca_prompt.                                    *)
Synthesize ==
  /\ run.pc = "synthesize"
  /\ IF PackOf(run.id) = <<>>
     THEN /\ run' = [run EXCEPT !.pc = "ended"]
          /\ SetCurrent([Current EXCEPT !.status = "escalated"])
     ELSE /\ run' = [run EXCEPT !.pc = "ask", !.pack = PackOf(run.id), !.tries = 0]
          /\ UNCHANGED threads
  /\ UNCHANGED <<attempts, recorded, unrecorded, leftover, db>>

(* The answers of a model.  Citations matter one by one, so an answer has  *)
(* at most one good and one bad.                                           *)
Answers == [valid : BOOLEAN, cites : {{}, {Unknown}} \cup
                                     UNION {{{row}, {row, Unknown}} : row \in ToSet(run.pack)},
            confident : BOOLEAN]

(* Mutant: one known id is enough.                                         *)
parse_rca_output_AnyKnown(answer) ==
  answer.valid /\ answer.cites \cap ToSet(run.pack) # {}

(* The schema, and citations of the pack only.                             *)
parse_rca_output(answer) ==
  answer.valid /\ answer.cites # {} /\ answer.cites \subseteq ToSet(run.pack)

(* generate_rca: an accepted answer, or the first bad one.                 *)
Answered ==
  /\ run.pc = "ask"
  /\ \E answer \in Answers :
       IF parse_rca_output(answer)
       THEN /\ run' = [run EXCEPT !.pc = "ended"]
            /\ SetCurrent([Current EXCEPT !.cites = answer.cites,
                 !.status = IF answer.confident THEN "pending_review" ELSE "escalated"])
       ELSE /\ run.tries = 0
            /\ run' = [run EXCEPT !.tries = 1]
            /\ UNCHANGED threads
  /\ UNCHANGED <<attempts, recorded, unrecorded, leftover, db>>

(* generate_rca: the second bad answer; the rca channel holds the error.   *)
AnsweredTwice ==
  /\ run.pc = "ask" /\ run.tries = 1
  /\ \E answer \in Answers : ~parse_rca_output(answer)
  /\ run' = [run EXCEPT !.pc = "ended", !.tries = 2]
  /\ SetCurrent([Current EXCEPT !.cites = {}, !.status = "escalated"])
  /\ UNCHANGED <<attempts, recorded, unrecorded, leftover, db>>

(* The model client raises what generate_rca does not catch: the handler   *)
(* rolls back, and nothing was drained.                                    *)
ModelRaises ==
  /\ run.pc = "ask"
  /\ run' = NoRun
  /\ leftover' = TRUE
  /\ UNCHANGED <<attempts, threads, recorded, unrecorded, db>>

---------------------------------------------------------------------------
(* The handler.                                                            *)

(* Mutant: the recorder's rows are read and not cleared.                   *)
Drained_Kept == UNCHANGED <<recorded, leftover>>

(* drain_recorded_evidence.                                                *)
Drained == recorded' = <<>> /\ leftover' = FALSE

(* The rows and the captured report, drained, inserted and committed.      *)
Commit ==
  /\ run.pc = "ended"
  /\ db' = [evidence |-> db.evidence \cup ToSet(recorded),
            reports  |-> db.reports \cup (IF Current.cites = {} THEN {}
                                          ELSE {[inc |-> run.id, cites |-> Current.cites]}),
            done     |-> db.done \cup {run.id}]
  /\ Drained
  /\ run' = NoRun
  /\ UNCHANGED <<attempts, threads, unrecorded>>

(* A failure after the first drain.                                        *)
Rollback ==
  /\ run.pc = "ended"
  /\ Drained
  /\ run' = NoRun
  /\ UNCHANGED <<attempts, threads, unrecorded, db>>

(* The process dies and another takes its place.                           *)
Crash ==
  /\ run' = NoRun
  /\ threads' = [i \in Incidents |-> NoThread]
  /\ recorded' = <<>> /\ leftover' = FALSE /\ unrecorded' = {}
  /\ UNCHANGED <<attempts, db>>

(* MAX_DURATION passes since a thread's started_at.                        *)
TimePasses(i) ==
  /\ threads[i].status # "" /\ ~threads[i].late
  /\ threads' = [threads EXCEPT ![i].late = TRUE]
  /\ UNCHANGED <<attempts, run, recorded, unrecorded, leftover, db>>

Next ==
  \/ \E i \in Incidents : Start(i) \/ TimePasses(i)
  \/ Commander
  \/ \E k \in Collectors : Collect(k) \/ CollectFails(k)
  \/ Synthesize \/ Answered \/ AnsweredTwice \/ ModelRaises
  \/ Commit \/ Rollback \/ Crash

Spec == Init /\ [][Next]_vars

---------------------------------------------------------------------------
(* Properties.                                                             *)

Rows == [inc : Incidents, k : Collectors, key : Nat, at : 0 .. MaxAttempts]

(* Channels, rows and answers have the shape the code gives them.          *)
GenerationTypeOK ==
  /\ attempts \in [Incidents -> 0 .. MaxAttempts]
  /\ run.pc \in {"idle", "commander", "specialists", "synthesize", "ask", "ended"}
  /\ run.hops \in 0 .. MAX_HOPS + 1 /\ run.tries \in 0 .. 2
  /\ run.todo \subseteq Collectors /\ run.failed \subseteq Collectors
  /\ run.pack \in Seq(Rows) /\ recorded \in Seq(Rows)
  /\ \A i \in Incidents :
       /\ threads[i].evidence \in Seq(Item) /\ threads[i].cites \subseteq Rows \cup {Unknown}
       /\ threads[i].status \in {"", "running", "escalated", "pending_review"}
  /\ db.evidence \subseteq Rows /\ db.done \subseteq Incidents

(* An investigation waits for a review only with a report whose citations  *)
(* were all in the prompt: neither a second try nor a retried attempt      *)
(* passes an answer that was refused.                                      *)
GroundedOrEscalated ==
  run.pc = "ended" /\ Current.status = "pending_review" =>
    Current.cites # {} /\ Current.cites \subseteq ToSet(run.pack)

(* The model is shown this incident's evidence and no other's, after any   *)
(* number of failed, repeated and committed attempts, as long as no        *)
(* attempt before it raised inside the graph.                              *)
PackIsOwn ==
  run.pc = "ask" /\ ~leftover => \A row \in ToSet(run.pack) : row.inc = run.id

(* Whatever the commander counted as collected reaches the model, though   *)
(* the commander reads the thread and the pack reads the recorder: a       *)
(* source is missing only if the pack is full, its rows could not be       *)
(* recorded, or an attempt raised.                                         *)
SourcesAreShown ==
  run.pc = "ask" /\ ~leftover /\ run.id \notin unrecorded /\ Len(run.pack) < MAX_PACK_ITEMS =>
    Sources(Current.evidence) \subseteq Sources(run.pack)

---------------------------------------------------------------------------
(* What the repository says and the code does not keep.                    *)

(* incident-flow.md:133: the RCA agent is to "review all evidence"; even   *)
(* when every row was recorded and no attempt raised.                      *)
AllEvidenceReviewed ==
  run.pc = "ask" /\ ~leftover /\ run.id \notin unrecorded =>
    Sources(Current.evidence) \subseteq Sources(run.pack)

(* domain/evidence/entity.py:3: "Evidence is a child collection scoped by  *)
(* ``incident_id``"; a report cites its own incident's evidence.           *)
CitesOwnIncident ==
  \A report \in db.reports : \A row \in report.cites : row.inc = report.inc
===========================================================================
