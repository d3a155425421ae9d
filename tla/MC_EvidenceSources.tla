-------------------------- MODULE MC_EvidenceSources -----------------------
(***************************************************************************)
(* What the specialists collect from, in one instance: the knowledge index *)
(* (the ingest job, the chunker it calls, the retrieval) and the simulator *)
(* behind the observability client.  The four share no variable, so each   *)
(* is explored while the other three are at rest.                          *)
(***************************************************************************)
EXTENDS RagIngest, Chunking, Retrieval, Simulator

CONSTANTS payment, order, db_exhaustion, latency_spike, a1, t1, e1, g1
CONSTANTS f1, f2, r1

(* The chunker's constants (chunking.py:22-29), each a 25th of its value.   *)
MCTarget == [parent |-> 140, child |-> 32]
MCMaxChars == [parent |-> 200, child |-> 48]
MCOverlap == [parent |-> 16, child |-> 4]

(* Three runbook chunks and two of incident reports.                       *)
MCChunks == 1 .. 5
MCTypes == [c \in MCChunks |-> IF c \in {1, 3, 5} THEN "runbook" ELSE "incident_report"]

(* All answers that rank up to two chunks of each doc type ...             *)
Short2 ==
  {r \in [MCChunks -> 0 .. 2] :
     \A t \in {"runbook", "incident_report"} :
       LET mine == {c \in MCChunks : MCTypes[c] = t}
       IN  /\ \A c, d \in mine : r[c] = r[d] /\ r[c] # 0 => c = d
           /\ \A c \in mine : r[c] = 2 => \E d \in mine : r[d] = 1}

(* ... and two runbook chunks anywhere among the candidates of a search,   *)
(* the first and the last places included.                                 *)
Places == {0, 1, 2, 10, candidate_size(KnowledgeCap) - 1, candidate_size(KnowledgeCap)}
Wide ==
  {r \in [MCChunks -> Places] :
     r[2] = 0 /\ r[4] = 0 /\ r[5] = 0 /\ (r[1] # r[3] \/ r[1] = 0)}

MCRankings == Short2 \cup Wide

(* db_exhaustion fails payment and order, latency_spike payment only.      *)
MCServices == {payment, order}
MCScenarios == {db_exhaustion, latency_spike}
MCAffected ==
  [x \in MCScenarios |-> IF x = db_exhaustion THEN {payment, order} ELSE {payment}]

(* An emit reads the active scenario and writes nothing: it is explored    *)
(* while nobody makes or lists ticks.                                      *)
EmitsAlone ==
  (\E t \in Emitters : req[t] # Idle) => \A t \in Tickers \cup Readers : req[t] = Idle

(* While a specialist fetches, only the service it asks for is ticked.     *)
OneService ==
  \A t \in Tickers, g \in Readers :
    req[t] # Idle /\ req[g] # Idle => req[t].service = req[g].service

(* An answer is given at once: no other thread reads it.                   *)
AnswersGoOut == \A t \in Emitters \cup Readers : req[t].pc = "answered" => req'[t] = Idle

ChunkingAtRest ==
  /\ section = <<>> /\ breaks = {} /\ level = "child" /\ rest = <<>> /\ start = 0
  /\ buf = <<>> /\ buf_len = 0 /\ phase = "done" /\ parents = <<>> /\ children = <<>>

RetrievalAtRest ==
  /\ text = [c \in Chunks |-> 0] /\ vector = text
  /\ todo = {} /\ by_id = {} /\ result = <<>>

SimulatorAtRest == Init /\ active = Off

SourcesInit ==
  \/ IngestInit /\ ChunkingAtRest /\ RetrievalAtRest /\ Init
  \/ IngestInit /\ ChunkingInit /\ RetrievalAtRest /\ SimulatorAtRest
  \/ IngestInit /\ ChunkingAtRest /\ RetrievalInit /\ SimulatorAtRest

SourcesNext ==
  \/ /\ ChunkingAtRest /\ RetrievalAtRest /\ SimulatorAtRest /\ IngestNext
     /\ UNCHANGED <<chunkingVars, retrievalVars, vars>>
  \/ ~ChunkingAtRest /\ ChunkingNext /\ UNCHANGED <<ingestVars, retrievalVars, vars>>
  \/ ~RetrievalAtRest /\ RetrievalNext /\ UNCHANGED <<ingestVars, chunkingVars, vars>>
  \/ /\ IngestInit /\ ChunkingAtRest /\ RetrievalAtRest /\ Next /\ EmitsAlone' /\ OneService' /\ AnswersGoOut
     /\ UNCHANGED <<ingestVars, chunkingVars, retrievalVars>>

SourcesSpec ==
  SourcesInit /\ [][SourcesNext]_<<ingestVars, chunkingVars, retrievalVars, vars>>
===========================================================================
