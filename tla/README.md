# Aegis: TLA+ models, checks and proofs

Aegis receives incident signals, opens incidents, announces them on a bus, and lets a worker
investigate each one with a LangGraph workflow whose specialists call tools through a gateway. The
result is a root cause analysis (RCA) with cited evidence, which humans accept, reject or amend.
The package is `src/src/aegis`; paths below are relative to it.

This directory models the parts of Aegis where steps of several actors meet: request sessions over
one PostgreSQL database, an at-least-once queue, worker processes that fail and come back, process
memory that outlives a failed attempt, specialists that call tools from parallel threads, and batch
jobs that touch several stores. The pure algorithms those steps depend on (the commander's plan,
policy evaluation, chunking, rank fusion) are operators checked against reference definitions.

## 1. Inventory

| Part | State it keeps | Operations | Meets |
|---|---|---|---|
| Incident lifecycle (`domain/incidents`) | state and history of an incident | `transition_to`, `start_investigation`, `note_duplicate_signal` | everything that changes an incident |
| Incident store (`infrastructure/repositories`, `api/dependencies.py`) | `incidents`, `incident_state_history`; a session per request | `get_by_id`, `get_open_by_fingerprint`, `create`, `save`, commit, rollback | requests and workers, by row locks and a unique index |
| Ingest and events (`application/incidents`, `api/event_publish.py`) | the request's event buffer | create, ingest a signal, change a state, publish after commit | store, bus |
| Queue and worker (`worker`, `infrastructure/messaging`) | messages, receive counts, `processed_events` | receive, handle, commit, delete, time out, redrive | bus, store, runner |
| Investigation graph (`application/investigation/{plan,nodes,graph,run}.py`) | a checkpointed thread per incident | commander, specialists, synthesize, escalate | gateway, model, runner |
| Runner and recorders (`runner.py`, `record_*.py`, `consume_opened.py`) | buffers of evidence, audit, reports and progress | start, capture, four drains and persists | the worker's transaction |
| RCA review and control (`transition_rca.py`, `control.py`) | `rca_reports`, `investigation_progress` | accept, reject, amend, pause, resume | store, notifications |
| Notifications (`application/notifications`) | `notifications` with a dedupe key | `record_once`, notify | worker, reviews |
| Tool gateway (`application/gateway`, `tools`) | breakers, token buckets, the tool registry | `invoke`: classify, decide, pace, run under a timeout, stamp | policy, audit, graph |
| Policy (`application/policy`, `domain/policy`) | `policy_rules`, change records, a cache per process | evaluate, create, update, delete, publish, refresh | gateway, admin sessions, worker |
| Audit (`application/audit`) | a log per process, `audit_log` rows | take the last hash, append, drain, insert | gateway, worker |
| RAG (`application/rag`, `infrastructure/rag`) | the search index, a manifest | ingest, chunk, embed, retrieve, fuse | operator, knowledge specialist |
| Answers (`get_progress.py`, `build_post_incident.py`) | none; several tables read one by one | progress, post-incident report, manual evidence | worker, reviews |
| Simulator (`src/apps/simulator`, `simulator_client.py`) | active scenario, statuses, a ring buffer | activate, deactivate, tick, emit, list | observability specialist |
| MCP server, auth, redaction, settings | none | forwarding and checks | |

What is hard in it, and hard to test:

- A use case reads, decides in memory and saves in later round trips at READ COMMITTED, with no
  version column and no `SELECT ... FOR UPDATE`; `save` selects the row again and copies the entity
  onto it. Every pair of such requests can interleave.
- Commit and publish, commit and delete, drain and commit are pairs of steps with no transaction
  around them. A crash may fall in between.
- The queue repeats messages, and its visibility timeout (300 s) is shorter than an investigation
  may be (10 minutes), so two workers may hold the same event.
- The runner, the checkpointer and the recorders belong to the process, the rows to the
  transaction: after a rollback they disagree.
- A thread is resumed with the evidence and the failed steps of an earlier attempt.
- The branches of a fan-out run in threads over one audit log, one rate limiter and one breaker per
  dependency; a tool call that timed out goes on and reports later.
- Caches are replaced before the commit they anticipate (policy), and the manifest of the corpus is
  saved after everything it vouches for (ingest).

Correctness, part by part: open fingerprints are unique, events follow commits, the history
explains the state (store); an event takes effect at most once, is acknowledged only when durable
and is always settled (queue and worker); the commander never cycles, an attempt ends, stored
evidence is audited, what waits for a human is announced (graph and runner); versions are
sequential, nobody identifies an incident without a reviewed report, a rejection is not undone by a
stale save (review); only granted tools run, and a recorded decision names the rules that made it
(gateway, policy); no burst exceeds its budget (limits); a stored entry's predecessor is stored
(audit); what a run skips is completely indexed, and no text is lost in cutting (RAG); an answer
read from several tables holds together (answers); the model sees the incident's own evidence and
nothing is accepted that cites anything else (generation). `PROJECT.json` lists every hazard at its line.

## 2. Modules

| Module | Models | State | Composed of |
|---|---|---|---|
| `IncidentLifecycle` | states and transition table | none | |
| `IncidentStore` | the table and its sessions | `rows`, `tx`, `published` | `IncidentLifecycle` |
| `InvestigationDelivery` | bus, queue, workers, handler | `queue`, `wk`, `claims`, `runs` | `IncidentStore` |
| `OnceOnlyInvestigation` | the abstract promise of the worker | `handled`, `runs` | |
| `CommanderPlan` | `plan.next_action` as an operator | none | |
| `InvestigationRunner` | graph, checkpointer, buffers, persists | `scenario`, `attempts`, `run`, `threads`, `buffers`, `db` | `CommanderPlan` |
| `RcaReview` | accept, reject, amend, pause, resume | `rv`, `reports`, `progress`, `notes`, `claims` | `IncidentStore` |
| `RcaGeneration` | items, pack, model answers, report | `run`, `threads`, `recorded`, `db`, ... | `CommanderPlan` |
| `IncidentViews` | progress answer, post-incident report, manual evidence | `evidence`, `view` | `RcaReview` |
| `PolicyRules` | rules and `evaluate_policy` as operators | none | |
| `PolicyAdmin` | admin sessions, caches, the worker's refresh | the table, change records, sessions, caches | `PolicyRules` |
| `RateLimiter` | token buckets of two scopes | levels and refill times, a watched history | |
| `ToolGateway` | `InvokeTool`, `harden_tool`, breakers | calls, cache, breakers, background threads | `PolicyRules` |
| `AuditChain` | append, drain, insert, commit, crash | logs, calls, transactions, the table | |
| `RagIngest` | the ingest job | files, index, manifest, runs | |
| `Chunking` | `_split_by_size` and the hard split, turn by turn | section, buffer, windows | |
| `Retrieval` | `merge_hybrid_rankings`, `retrieve_knowledge` | the two answers and the hits | |
| `Simulator` | engine, buffer, emit, the client of Aegis | scenario, statuses, buffer, threads | |
| `Guardrails_proofs` | theorems | | `ToolGateway`, `RateLimiter`, `AuditChain` |
| `EvidenceSources_proofs` | theorems | | `Simulator`, `RagIngest`, `Chunking`, `Retrieval` |
| `RcaReview_proofs` | theorems | | `IncidentViews` (and so `RcaReview`), `IncidentStore_proofs` |
| other `*_proofs` | theorems | | the module they are named after |
| `MC_Guardrails` | gateway, limits and audit log in one instance | | `ToolGateway`, `RateLimiter`, `AuditChain` |
| `MC_EvidenceSources` | what specialists collect from, in one instance | | `RagIngest`, `Chunking`, `Retrieval`, `Simulator` |
| other `MC_*` | model values, symmetry and situations for TLC | | the module they are named after |

**IncidentStore.** `rows` is the committed table. `tx[s]` is the transaction of session `s`; its
`pc` follows the round trips of a handler: `read` (entity read and changed in memory), `load` (the
SELECT inside `save`), `flushed` (the UPDATE or INSERT, which holds the row lock and the index
entry), `publish` (committed, event still buffered). `Load` may see the row as it was first read or
as it is now: the identity map of SQLAlchemy is weak, so either can happen. `UpdatedRow` is
`apply_to_orm` followed by a flush that writes only the columns that differ from what was loaded.
Row locks and index waits are PostgreSQL's (external). An exception, a refused constraint and a
dying process are all `Rollback`.

**InvestigationDelivery.** Adds the queue (external, modelled from `sqs_consumer.py` and
`provision.py`): a message is visible, in flight, deleted or in the dead-letter queue, and a
receipt is the receive count it was issued at. A worker's `pc` follows `poll_once` and
`ConsumeOpenedIncident.execute`: claim, read, save, commit, delete. `record_once` waits for a
transaction that has inserted the same key. The graph's run is part of `CommitInvestigation`;
its inside is `InvestigationRunner`. The dead-letter queue is final: nothing in the repository
replays it.

**InvestigationRunner.** One process and its attempts. `threads` is the `InMemorySaver`, `buffers`
the recorder, the audit log and the runner's lists, `run` the attempt and its uncommitted rows,
`db` the committed ones. Evidence is named by incident, collector and attempt; the audit entry of a
tool call has the same name, which stands for the `audit_id` in the evidence's metadata. The
parallel branches of a fan-out finish in any order and their results reach the thread when the
super-step ends, as LangGraph's reducers do it. The attempts of an incident are serial: two workers
on one event are the subject of `InvestigationDelivery`, whose claim serialises them.

**RcaReview.** `rv[s]` is the use case a session is in, one step per round trip; its writes become
visible at the commit and hold their locks until then. The incident itself is saved through the
steps of `IncidentStore`. `Requests` says which operations reviewers ask for. The worker's
transaction appears with its outcome only.

A notification's row is written as part of the step that causes it. `notify_best_effort`
(`notify.py:86`) swallows every exception, so two failures look alike to it. One is the notifier's,
after the row is in: nothing is lost. The other is the insert's, other than for its dedupe key
(`record_once` handles `IntegrityError` only): the flush has then deactivated its savepoint, the
session refuses all further statements and the commit until it is rolled back, and the attempt ends
in `RollbackReview` or `AttemptFails` although nobody saw the exception. Both modules rely on this
behaviour of SQLAlchemy; a swallowed failure before the flush (building the row from fields that
were validated when the incident and the report were made) is taken not to happen. With a session
that survived it, `ReviewIsAnnounced` and `OutcomeIsNotified` would not hold.

**RcaGeneration.** The attempts of `InvestigationRunner` again, with sequences of items where that
module has sets, because here the number and the order of items matter: observability is cut at
`OBS_MAX_ITEMS`, code hits are deduplicated, and the prompt gets the first `MAX_PACK_ITEMS` rows of
the recorder, or of the thread when the recorder is empty. An answer of the model is any record with
a valid or invalid schema, at most one citation of the pack and one outside it. `unrecorded` and
`leftover` are history variables that name the two circumstances in which recorder and thread
disagree (a swallowed recording failure, an attempt that raised inside the graph). `escalate`
interrupts before it returns its `escalated` status, so the thread's status stays running.

**IncidentViews** extends `RcaReview`: readers take one table per step while worker and reviewers
commit.

**PolicyRules, PolicyAdmin.** A rule is a record of tool, class, scope and verdict. `PolicyAdmin`
follows an update's two reads, its write of only the changed columns, the row lock, the publication
of the session's view to the API's cache and the commit. The worker has a cache of its own, loaded
at start and at the beginning of every message. Row locks and the unique key are PostgreSQL's.

**RateLimiter, ToolGateway.** `RateLimiter` counts in parts of a token, so refill is exact integer
arithmetic. In `ToolGateway` a call passes through its decision, pacing, breaker, thread, timeout
and stamp as separate steps of concurrent agents; pacing may refuse any call, since which ones it
does is `RateLimiter`'s subject. A call names a service or none, and rules may be scoped to a service
as to an agent; `retrieve_knowledge` is registered if there is a `Retriever`. A timed-out thread stays
and may answer later. When the limiter's store raises (`StoreFails`, `rate_limit.py:128`) no token is
taken, and unless `FailClosed` the call passes all the same: the history notes it as `unmetered`, and
`BurstIsBounded` promises nothing over a time in which that happened.

**AuditChain.** An entry is its own hash. The three steps of `record_decision` interleave between
specialists; the handler drains, inserts, and commits or rolls back.

**RagIngest.** The index holds chunks by id; a content of a file is a number, cut into `Pieces`
chunks. Ordinary runs fail and crash at every step. The history variable `sound` holds until a
mishap that the manifest cannot see: a content that a file had before comes back, a run with
`--no-skip` fails, the index is lost, or a run starts while another one is going on. `SkipIsSafe`
is stated while `sound` holds, `ForcedRunHeals` always. The deletion by query leaves what another run
writes at that moment (`conflicts=proceed`); a run that is alone meets no conflict, and a failed
deletion may have removed any part. One thing is assumed of OpenSearch: between two runs the index
has refreshed itself (about a second), so that the first deletion of a run finds all of the last one's chunks.

**Chunking, Retrieval, Simulator.** The first follows every turn of the loops over lengths of
paragraphs and places of line breaks; the second compares fractions by cross-multiplication; the
third has one thread per request and the ring buffer's cut. A fetch of the client is up to three
requests (list, tick, list), and other threads may switch the scenario between them; the tick may be
lost or fail, a list may fail, and an answer that does not come in time ends the fetch while the
simulator still makes the tick. Emit is refused without a scenario (409) or without settings (503).
The length of a text is the number of its
characters, the place of a hit the number of hits before it: set cardinalities say what the code's
loops and its sort compute, and can be reasoned about without induction over sequences.

Data that no property tells apart is left out: texts, times, severities, confidence values (only
above or below the threshold), prompt contents, log lines, and the `investigation_steps` rows.

**MC_Guardrails, MC_EvidenceSources.** Parts that do not share a variable are checked in one run.
Each part takes its steps while the others are in their first state, so the run covers the sum of
their state spaces and not the product; since no property and no action mentions variables of two
parts, nothing is lost by it.

## 3. Runs

| Run | Configuration | Shows |
|---|---|---|
| `store` | 2 incidents, 1 fingerprint, 2 symmetric sessions, PATCH to investigating or closed | `UniqueOpenFingerprint`, `PublishedIsCommitted`, `StateIsRecorded`, `HistoryGrows` |
| `store_terminal` | the same | `ClosedIsTerminal` is violated (finding 1) |
| `delivery` | 1 incident, 2 workers, 3 receives, 1 poison message, a client that closes | `OneInvestigation`, `AckedIsDurable`, `ClaimedHasLeftOpen`, `RefinesOnceOnly`; `PublishedIsSettled` under fairness |
| `runner` | 2 incidents, 2 attempts each, the first of any of 5 scenarios | `EvidenceIsAudited`, `PendingReviewHasRca`, `OutcomeIsNotified`, `NoPingPong`; `AttemptEnds` under fairness |
| `review` | 1 incident, 2 symmetric reviewers, 1 worker, 2 versions; accept, reject, amend, pause, resume, PATCH to closed | `VersionsAreSequential`, `IdentifiedWasReviewed`, `ReviewIsAnnounced`, `RejectedIsNotPending` |
| `review_accept` | accept only | `AcceptedIsIdentified` is violated (finding 2) |
| `views` | 1 reader, 1 reviewer, 1 worker | `ReportIsWhole`, `ProgressIsNotBehind` |
| `rca_pack` | 2 incidents (one fan-out), 2 attempts, packs of 3 | `GroundedOrEscalated`, `PackIsOwn`, `SourcesAreShown` |
| `rca_own` | the same | `CitesOwnIncident` is violated (finding 3) |
| `policy` | three situations: 2 symmetric admins race for 2 rules; 2 admins and a worker on 1 rule; 1 admin builds tables of 3 rules over 2 tools and 3 scopes | `TrailTellsPresence`, `NoDestructiveAllow`, `WorkerIsFresh`, `MostSpecificWins` (points against a definition without points) |
| `guardrails` | gateway: 4 agents, 7 tools, 3 rule tables (one with a denial scoped to a service), calls for one service or none, break glass while all dependencies are healthy, and the code agent with two tools of one failing dependency; limiter: 1 caller, 2 incidents, capacities 2 and 3, a store that may fail open; audit: 2 workers, 2 specialists each, 4 decisions | `ExecutedWasGranted`, `StampDecides`, `BreakerTellsHealth`, `CircuitReopens`; `BurstIsBounded`, `RefusalsAreFree`; `PredecessorIsStored`, `StoredOnce` |
| `sources` | ingest: 2 files, 2 contents, 1 run at a time, all mishaps; chunker: up to 4 paragraphs of 5 lengths, any line breaks; fusion: 5 chunks of 2 types, and 2 chunks at the edges of 20 candidates; simulator: 2 services, 2 scenarios, one thread of each kind | `SkipIsSafe`, `ForcedRunHeals`; `ChunksAreFaithful`; `RanksAreFused`; `BiasFitsService` |

Type invariants are stated in the modules and proved (section 5); the runs list what says more.

**Bounds.** Sessions are reused for any number of requests, so two of them give every pair of
overlapping requests, each with any history before it; a conflict is between two writers of one
row or key, and the proofs of section 5 cover any number of them. Two incidents are needed where they share a fingerprint or a buffer, one where
rows of different incidents do not meet. Three receives (the code's `MAX_RECEIVE_COUNT`) let a
message be handled while an older receipt is still in use, and exhaust the count. `delivery` has one
copy of the message, because the liveness check needs the whole graph; any number of copies is
covered by the proofs. Two attempts let each incident fail and be retried. In `runner` the second
incident needs no collection of its own, so evidence that its transaction stores was left by the
first. `MaxVersion = 2` lets two reviewers amend the same original, and two PATCH requests write the
same version of a rule; at the bound `amend` is disabled. `MAX_HOPS` is the code's 4. A pack of
three stands for the code's eight and three observability items for twenty: what matters is that one
source alone can fill it. Three rules are enough for one winner, one tie and one loser. Capacities
of 2 and 3 make either bucket the one that refuses. A threshold and cooldown of 3 ticks let a
circuit open, expire and be hit by a late answer; breakers are per dependency, so one agent with two
tools of one dependency shows what a breaker does. Four audit entries let two specialists race, a
drain separate them, and another process do the same. Two contents of a file let an edit fall before
and after the read of a run, and the old content come back; two pieces let a bulk write be partial.
The chunk sizes are the code's constants divided by 25, each without a remainder, so the proportions are
exact; paragraph lengths reach over, at and under every limit, and the hard split
happens at both levels. With these proportions the floor `start + 1` of the hard split is never
reached: half a target is more than an overlap. One specialist fetches at a time; while it does,
only the service it asks for is ticked, an emit (which writes nothing) runs while nobody ticks or lists, and an answer,
which no other thread reads, is given at once. Twenty candidates is what the code asks each search for at its default
`top_k`; ranks are taken at the first two, a middle and the last two places.

**Deadlock.** `sources` turns the check off: a query is answered once and a section cut once.

**Review and PATCH.** In `review` clients may close the incident, beside accepts and rejections of its
first report; a PATCH is not explored beside pause, resume and amend, which write other tables.
Clients do not PATCH incidents to `identified`: the PATCH route does not look at reports, so
`IdentifiedWasReviewed` is a statement about accept.

**Fairness.** `delivery`: EventBridge delivers a published event at least once and the queue
runs its timeouts and redrive (external services); a supervisor restarts a dead worker; the polling
loop and the handler do not stop between two steps (`run_worker` is a loop without other waits);
PostgreSQL queues lock waiters first come first served, and a polling worker is served messages in
some order, so waiting for a lock and receiving are strongly fair; requests end. Failures and
crashes are never forced, with one exception: a poison event always fails. `runner`: the
handler is a single coroutine, weakly fair, with no step that waits for somebody else.
`guardrails`: a specialist's thread goes on from one step of a call to the next, time passes,
and a call that has not answered by its timeout is given up; an answer of the tool is never forced.

## 4. Findings

With a run of their own:

1. **A closed incident can reopen** (`mappers.py:59`, `store_terminal`). `transitions.py` says
   "``closed`` is terminal". Two PATCH requests that read the same state both succeed; the later
   save wins.
2. **An accepted report may leave the incident investigating** (`transition_rca.py:59`,
   `review_accept`). The state is read before the reports; the worker's commit may fall in between.
   `implementation-guide.md:3290` says "Accept → incident `identified`".
3. **A report may cite another incident's evidence** (`nodes.py:164`, `rca_own`). The recorder's
   buffer is not cleared by an attempt whose model call raised, and its rows come first in the next
   pack. `domain/evidence/entity.py:3` says that evidence is scoped by incident.

The modules also state, each under "What the repository says and the code does not keep", what TLC
refutes when the property is added to the configuration in brackets:

- `EvidenceOfLastStart` (`runner`): the cause of finding 3 seen from the table. Evidence of one
  incident is stored by another's transaction (`runner.py:91`).
- `CitationsResolve` (`runner`): after a failure between drain and commit the retry cites ids derived
  from the checkpoint, which name no stored row (`nodes.py:164`; `product-vision.md:118`).
- `RejectionIsRecorded` (`review`): a pause saves the reason it read before a rejection was committed
  and so erases it (`investigation_repository.py:50`).
- `RejectedIsNotPending` (`review` with `"investigating"` in `Targets`): an engineer takes the open
  incident under investigation by PATCH, so that it can be paused and resumed while the worker is
  still at work; the worker then commits a row that waits for review and is paused, and a resume that
  has read it overwrites the status of a rejection. Found by the proof: `RejectionsAreKept` needs that
  only the worker takes incidents under investigation.
- `AllEvidenceReviewed` (`rca_pack`): the first eight rows make the pack and observability may record
  twenty (`rca.py:132`; `incident-flow.md:133` says "review all evidence").
- `ShownRcaHasItsEvidence` (`views`): a progress answer may show an RCA without its evidence, when the
  worker commits between the two reads (`get_progress.py:86`).
- `ReportNamesRootCause` (`views`): a rejection after an acceptance leaves the incident identified,
  and its report without an accepted root cause (`build_post_incident.py:94`).
- `EditChangesPolicyVersion` (`policy` with `Patchable = {"reason"}` and two `Reasons`): two PATCH
  requests both count version 1 up to 2 (`domain/policy/entity.py:138`; `version.py:4`).
- `CacheIsSnapshot` (`policy`): the API's cache is replaced before the commit, and nothing puts it
  back when the commit fails (`manage_rules.py:115`).
- `OneChain`, `LogIsChained`, `DecisionsAreKept` (`guardrails`): every drain starts again at the
  genesis hash (`memory.py:32`), two specialists may take the same predecessor (`append_audit.py:30`),
  and a log drained before a rollback is lost (`consume_opened.py:133`).
- `SkipIsSafe` without `sound` (`sources`): a failed forced ingest deletes chunks while the manifest
  keeps their hash, and the next run skips the file (`ingest.py:73`).
- `NoOrphanChunks` (`sources` with two `Runs`): both delete before either writes, and the manifest
  then calls the file current.
- `WindowsAreContiguous` (`sources`): the overlap kept before a hard split is continued with the
  paragraph after it (`chunking.py:202`).
- `EmitIsAnswered` (`sources`): the active scenario is read twice and may be deactivated in between
  (`apps/simulator/main.py:264`). `StatusTellsScenario` (`sources` with two `Admins`): statuses and
  scenario may disagree after an activation and a deactivation at the same time. `EvidenceShowsScenario`
  (`sources`): the client asks for no window and keeps the oldest rows (`simulator_client.py:40`).

## 5. Proofs

All theorems are checked by TLAPS for every value of the constants, from the named assumptions of
the modules: a fingerprint that stands for none, request sessions distinct from workers, targets
that are states, at least one incident, positive bounds, and poison messages distinct from events.

**`IncidentStore_proofs`**: `StoreTypeCorrect`, `FingerprintsStayUnique`, `EventsFollowCommits`,
`StatesAreRecorded`, `HistoryIsKept`. The properties are not inductive: they speak of committed
rows, and a step commits what a transaction prepared earlier. `StoreInv` adds what is true of open
transactions: at most one has flushed a version of a row; a flushed version's index entry
conflicts with no committed row and no other flushed version; an entity in memory carries a step
into its state; a flushed version contains the committed history. Three lemmas carry the argument
(a step that writes nothing, a flush, a commit), and every action is one of the three.

**`InvestigationDelivery_proofs`**: `DeliveryTypeCorrect`, `AtMostOneInvestigation`,
`AckFollowsCommit`, `ClaimImpliesTransition`, and `WorkerImplementsOnceOnly`, the refinement of
`OnceOnlyInvestigation` with `handled <- claims`. `DeliveryInv` extends `StoreInv` with: a
transaction's uncommitted claim is exclusive and not yet committed; no run is on record without
its claim; a worker about to acknowledge has its claim committed.
A second refinement goes the other way in the stack: `WorkersAreSessions` shows that on the incident
table the workers implement `IncidentStore`, each as one more request session (`ApiSessions <- Sessions`,
`Workers <- {}`, and `investigating` among the targets). It needs `WorkerTx`, which says of a worker's
transaction what `IncidentStore` says of a request's at every round trip. So whatever is proved of
request sessions holds with any number of workers among them; `WorkersKeepHistory` and
`WorkersKeepTheTable` state it for the four properties of the run `store`.

**`InvestigationRunner_proofs`**: `RunnerTypeCorrect`, `StoredEvidenceIsAudited`,
`SpecialistsDoNotPingPong`, `ReviewsHaveReports`, `OutcomesAreNotified`. `RunnerInv` follows evidence
and audit entries through the process: buffered evidence has a buffered audit entry; between the two
drains the transaction's evidence is covered by the buffered entries and nothing new is recorded;
afterwards by the transaction's own. Type correctness of the hop counter needs that the graph's cycle
is only entered at or below the cap (`HopsLeft`). `CourseInv` says that the commander is entered a
second time only when every collector it needs has contributed or failed; two lemmas about
`next_action` (what it decides first, and that it then leaves the cycle) make that inductive.
`OutcomeInv` follows the report and the reason of an outcome from the thread through the buffers to
the transaction: each persist finds there what the next one announces.

**`RcaGeneration_proofs`**: `ReviewsAreGrounded`, `PacksAreOwn`, `CountedSourcesAreShown`. The
commander counts the sources of the thread, which outlives an attempt; the pack is cut from the
recorder, which is drained with it. `GenerationInv` says why the one covers the other: a thread is
fresh, or all it needs has contributed or failed, and then no specialist is asked again; a super-step
belongs to a fresh thread and every contribution of it is recorded, unless the incident is noted as
unrecorded; the recorder holds rows of the attempt in progress unless an attempt raised (`leftover`);
a thread that the commander enters is running (`StillRunning`).
The keys of the hits are never looked at there, so a sequence is typed by its own elements (`IsSeq`).
`GenerationTypeCorrect` does look at them: it needs that the first occurrences `_dedupe_code_hits` keeps
are found at every rank (`PlaceOfRank`), and that the commander is entered at or below the hop cap.

**`RcaReview_proofs`**: `ReviewTypeCorrect`, `VersionsStaySequential`, `ReviewsAreAnnounced`,
`ReviewsKeepFingerprints`, `AcceptIdentifiesReviewed`, `RejectionsAreKept`, and for `IncidentViews`
`ReportsAreWhole` and `ProgressShowsItsReports`. A session decides from what it has read and commits
much later. `ReviewInv` says of every session what it carries at each step of its use case, that the
unique key of a version is held by one session at a time, and that a stored version is its position;
`StoreInv` is carried along, because an accept is a writer of the incident table. `CourseInv` ties a
session's decision to the reports it has seen, `StateFrom` says which operation alone can bring an
incident into a state, `PassedInv` that nothing a pause or resume remembers is a status from before a
rejection. `ViewInv` says of each prefix of a view's reads what the whole view promises.
Four theorems have a hypothesis about clients: `AcceptIdentifiesReviewed`, `ReportsAreWhole` and
`ProgressShowsItsReports` hold if no client asks for `identified` by PATCH (which looks at no report),
`RejectionsAreKept` if none asks for `investigating` (section 4). The configurations of `review` and
`views` satisfy both; the endpoint itself refuses neither. `ViewTypeCorrect` needs no hypothesis.
`ReviewsAreRequests` shows that every step of this composition is a step of `IncidentStore`, under the
mapping `TxBar`: the session of an accept is a PATCH to `identified` from the moment it has read the
incident, although the code decides later, and the worker's is a PATCH to `investigating`. It is about
the steps only, since `RcaReview` starts with incidents that are open already. `ReviewsKeepHistory` and
`ReviewsKeepTheTable` carry the properties of the run `store` over (with `ReviewsKeepFingerprints`).

**`PolicyAdmin_proofs`**: `EvaluationIsPrecedence`, `PolicyTypeCorrect`, `TrailsTellPresence`,
`NoDestructiveIsAllowed`, `WorkersAreFresh`, `MostSpecificRuleWins`. The first is about the operators
alone: for every set of valid rules, finite or not, the points of `evaluate_policy` decide as the
definition without points does. The rest rests on `PolicyInv`: what a session has written is no row
exactly if it deletes, and from the moment it has listed the table it is a valid rule.

**`Guardrails_proofs`**: for the gateway `GatewayTypeCorrect` (with the seed among the rule tables), `RunningCallsWereGranted`, `StampsTellTheRules`,
`BreakersTellHealth`, for any agents, tools, rule tables, thresholds and cooldowns. A call was granted
two steps before it runs (`Screening`) and is stamped two steps later with rules that have not changed
(`ByCurrentRules`); `Counted` ties the breaker's two numbers to the history, so that an open circuit
has waited exactly as long as its dependency was quiet.
For the limiter `RateTypeCorrect`, `BurstsAreBounded`, `RefusalsCostNothing`, for any capacities,
window and number of callers, tools and incidents, and a store that fails open or closed. `RateInv` says
that every bucket is balanced: what it held when the watch began and what refilled since is at least its
level now and what was taken from it. For the audit log `AuditTypeCorrect`, `PredecessorsAreStored`, `EntriesAreStoredOnce`, for any
number of processes, specialists and entries. `AuditInv` says that the entries of a log, of a
transaction and of the table each are rooted (a predecessor is genesis or in the same set), that the
log is empty of drained entries while the handler inserts them, and that the three are disjoint. So a
drained set can be committed or lost as a whole without leaving a row whose predecessor is missing.

**`EvidenceSources_proofs`**: `SimulatorTypeCorrect`, `BiasesFitServices`, for any services, scenarios
and threads: `SimulatorInv` says of a tick in the making, whose scenario was read up to three steps
earlier, what the property says of a stored one. `IngestTypeCorrect`, `SkippingIsSafe`, for any files,
contents and runs: while there was no mishap one run is at work, and `IngestInv` says of each of its
files whether it is untouched, gone or rewritten, and that the manifest is never ahead of the index.
`ForcedRunsHeal` starts from any index and any manifest and so needs its own `HealInv`; its hypothesis
is that one process ingests at a time, as in the run (with two it is false: both delete before either
writes).

For the chunker `ChunkingTypeCorrect`, `NothingIsLostInCutting`, for any sections,
line breaks and sizes. `ChunkingInv` says of every character of the section that it
is still to be read (of a paragraph being cut apart, from `start` on), or in the window being filled, or
in a window that was emitted; and of the window being filled that the code's count of it is its length
and that it is within the bound. A recursive length would need
induction; the cardinality of the set of characters does not, and the longest tail that fits exists
because a bounded set of naturals has a maximum, which follows from `WFMin` and `NatLessThanWellFounded`.

For retrieval `FusionLosesNothing`, for any index and any rankings. `RetrievalInv` says that a hit of a
type already asked for is either kept or beaten by a full answer of that type. That cutting an order by
rank gives the first ones is one lemma about `Top` (every rank up to the number of hits is taken
exactly once), used for both cuts. The two hypotheses are real limits. `Allowlisted = Chunks`: the
allowlist is applied after the first cut, so a document taken off the list but left in the index (section
6) takes the place of one that would have been answered. `candidate_size(KnowledgeCap) <= 27`: with the
weights 0.7 and 0.3 and k = 60 two poor ranks beat one good one up to the 27th place only; the code's
`KNOWLEDGE_CAP` of 4 asks each search for 20.

Proved, then, are all safety properties of the passing runs: their invariants, their action properties
and the refinement. Only model-checked are the three liveness properties `PublishedIsSettled`,
`AttemptEnds` and `CircuitReopens`, which are out of the prover's reach.

## 6. Not modelled

- The webhook's HMAC check, JWT and permissions, redaction and the markers of untrusted content:
  functions of one request or text, with no state and nothing that interleaves.
- The MCP server: a stateless forwarder of calls to the gateway under one agent identity, which
  `ToolGateway` covers as one more agent. It records decisions in a log of its own process that
  nothing drains.
- What a notifier sends. `_dispatch` calls it inside the open transaction (`notify.py:67`): a
  rolled-back attempt has sent its message, and the attempt after it sends it again. The rows and
  their keys are modelled.
- Settings, wiring, migrations, Terraform, the front end and the demonstration services.
- Wording: prompts, notification texts, markdown of reports, log lines.

Observed on the way and outside what the modules state: the deploy items of the code specialist
carry the audit id of the search call that came before; chunks of a file that was taken off the
allowlist are never deleted, and still take places in the first cut of a retrieval (the hypothesis of
`FusionLosesNothing`).

## 7. Plan

The components that keep state are modelled, and every safety property of the runs is proved. What could
still be added:

1. One module in which reviewers and the full worker of `InvestigationDelivery` are at work together.
   Each composition implements `IncidentStore` on the incident table (section 5), so what is said of that
   table holds for both; a joint module would add the queue to the invariants of the reviews.
2. The parts of notifications that belong to a notifier: what it does with a message twice sent.
