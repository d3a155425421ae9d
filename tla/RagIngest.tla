----------------------------- MODULE RagIngest -----------------------------
(***************************************************************************)
(* Ingest of the knowledge corpus: for every selected file of the          *)
(* allowlist, hash it, skip it when the manifest knows the hash, otherwise *)
(* delete its chunks from the search index and cut it into new ones; then  *)
(* embed and write all new chunks in batches, and last save the manifest.  *)
(* Nothing holds these steps together: files are edited meanwhile, calls   *)
(* fail, the process dies, an operator starts a second run.                *)
(*                                                                         *)
(* The contents of a file are numbered; a content is cut into Pieces       *)
(* chunks, and no two contents share one (the id holds a digest of the     *)
(* text).  sound holds until a mishap the manifest does not see: a file    *)
(* gets a content back that it had before, a run with --no-skip fails, the *)
(* index is lost, or a run starts while another one is going on.           *)
(***************************************************************************)
EXTENDS Naturals, FiniteSets

CONSTANTS
  Files,          \* ALLOWED_RELATIVE_PATHS
  NoFile,         \* stands for no file
  Runs,           \* processes of aegis-ingest
  MaxContents,    \* contents of a file (bound)
  Pieces          \* chunks of a content

ASSUME IngestAssumption ==
  /\ NoFile \notin Files
  /\ MaxContents \in Nat \ {0} /\ Pieces \in Nat \ {0}

Contents == 1 .. MaxContents
Unknown == 0                                  \* no hash in the manifest
Hashes == [Files -> Contents \cup {Unknown}]

Chunk == [path : Files, content : Contents, piece : 1 .. Pieces]

VARIABLES
  files,      \* content of each file on disk
  stored,     \* chunks in the index
  seen,       \* chunks a search of the index finds
  manifest,   \* the saved hashes
  pc,         \* where each run is
  job,        \* its variables
  edited,     \* files edited since the last run began (history)
  sound       \* no mishap has happened so far (history)

ingestVars == <<files, stored, seen, manifest, pc, job, edited, sound>>

(* The files of --files, or all; none is an error before anything happens. *)
Selections == (SUBSET Files) \ {{}}

NoJob == [selected |-> {}, skip |-> TRUE, todo |-> {}, path |-> NoFile,
          hashes |-> [f \in Files |-> Unknown], digest |-> Unknown,
          children |-> {}]

chunk_document(f) == {c \in Chunk : c.path = f /\ c.content = files[f]}
Quiet == \A r \in Runs : pc[r] \in {"idle", "done"}
Alone(r) == \A q \in Runs \ {r} : pc[q] \in {"idle", "done"}
Of(f, chunks) == {c \in chunks : c.path = f}

---------------------------------------------------------------------------
(* The options are parsed, the paths are checked against the allowlist and *)
(* the disk, the index is there, and the manifest is read, unless --no-skip*)
(* was given.  Assumed: the index has refreshed itself since the last run  *)
(* ended.                                                                  *)
StartRun(r, selected, skip) ==
  /\ pc[r] \in {"idle", "done"}
  /\ Quiet => seen = stored
  /\ pc' = [pc EXCEPT ![r] = "next"]
  /\ job' = [job EXCEPT ![r] =
       [NoJob EXCEPT !.selected = selected, !.todo = selected, !.skip = skip,
                     !.hashes = IF skip THEN manifest ELSE @]]
  /\ edited' = IF Quiet THEN {} ELSE edited
  /\ sound' = (sound /\ Quiet)
  /\ UNCHANGED <<files, stored, seen, manifest>>

(* The next file is read and hashed: it is skipped when its hash is known. *)
ReadDigest(r, f) ==
  /\ pc[r] = "next" /\ f \in job[r].todo
  /\ IF job[r].skip /\ job[r].hashes[f] = files[f]
     THEN /\ pc' = pc
          /\ job' = [job EXCEPT ![r].todo = @ \ {f}, ![r].digest = files[f]]
     ELSE /\ pc' = [pc EXCEPT ![r] = "delete"]
          /\ job' = [job EXCEPT ![r].path = f, ![r].digest = files[f]]
  /\ UNCHANGED <<files, stored, seen, manifest, edited, sound>>

(* Mutant: the old chunks are left to be overwritten by id.                *)
DeleteChunks_Kept(r) ==
  /\ pc[r] = "delete"
  /\ pc' = [pc EXCEPT ![r] = "chunk"]
  /\ UNCHANGED <<files, stored, seen, manifest, job, edited, sound>>

(* delete_by_source_path: what a search finds of the file is deleted, but  *)
(* for the chunks another run writes at that moment (conflicts=proceed),   *)
(* and the index is refreshed.                                             *)
DeleteChunks(r) ==
  /\ pc[r] = "delete"
  /\ \E gone \in SUBSET Of(job[r].path, seen) :
       /\ Alone(r) => gone = Of(job[r].path, seen)
       /\ stored' = stored \ gone
  /\ seen' = stored'
  /\ pc' = [pc EXCEPT ![r] = "chunk"]
  /\ UNCHANGED <<files, manifest, job, edited, sound>>

(* The file is read a second time and cut into chunks.                     *)
ChunkFile(r) ==
  /\ pc[r] = "chunk"
  /\ pc' = [pc EXCEPT ![r] = "next"]
  /\ job' = [job EXCEPT
       ![r].children = @ \cup chunk_document(job[r].path),
       ![r].hashes[job[r].path] = job[r].digest,
       ![r].todo = @ \ {job[r].path},
       ![r].path = NoFile]
  /\ UNCHANGED <<files, stored, seen, manifest, edited, sound>>

(* Mutant: the manifest is saved when the files are read.                  *)
EmbedChunks_Saves(r) ==
  /\ pc[r] = "next" /\ job[r].todo = {}
  /\ pc' = [pc EXCEPT ![r] = IF job[r].children = {} THEN "save" ELSE "upsert"]
  /\ manifest' = IF job[r].skip THEN job[r].hashes ELSE manifest
  /\ UNCHANGED <<files, stored, seen, job, edited, sound>>

(* All chunks are embedded, thirty-two at a time, before one is written.   *)
EmbedChunks(r) ==
  /\ pc[r] = "next" /\ job[r].todo = {}
  /\ pc' = [pc EXCEPT ![r] = IF job[r].children = {} THEN "save" ELSE "upsert"]
  /\ UNCHANGED <<files, stored, seen, manifest, job, edited, sound>>

(* bulk_upsert writes a batch, without a refresh ...                       *)
UpsertBatch(r, batch) ==
  /\ pc[r] = "upsert"
  /\ batch # {} /\ batch \subseteq job[r].children
  /\ stored' = stored \cup batch
  /\ job' = [job EXCEPT ![r].children = @ \ batch]
  /\ UNCHANGED <<files, seen, manifest, pc, edited, sound>>

(* ... and refreshes the index after the last one.                         *)
RefreshIndex(r) ==
  /\ pc[r] = "upsert" /\ job[r].children = {}
  /\ seen' = stored
  /\ pc' = [pc EXCEPT ![r] = "save"]
  /\ UNCHANGED <<files, stored, manifest, job, edited, sound>>

(* The manifest is replaced as a whole by what was loaded, updated.        *)
SaveManifest(r) ==
  /\ pc[r] = "save"
  /\ manifest' = IF job[r].skip THEN job[r].hashes ELSE manifest
  /\ pc' = [pc EXCEPT ![r] = "done"]
  /\ UNCHANGED <<files, stored, seen, job, edited, sound>>

(* What is left of a run that raised or died: nothing but what it wrote.   *)
Ends(r) ==
  /\ pc' = [pc EXCEPT ![r] = "idle"]
  /\ job' = [job EXCEPT ![r] = NoJob]
  /\ sound' = (sound /\ job[r].skip)

EmbedFails(r) ==
  /\ pc[r] = "next" /\ job[r].todo = {} /\ job[r].children # {}
  /\ Ends(r)
  /\ UNCHANGED <<files, stored, seen, manifest, edited>>

(* The items of a bulk request fail one by one: some of a batch may be     *)
(* written when the run raises.                                            *)
BulkFails(r, written) ==
  /\ pc[r] = "upsert" /\ written \subseteq job[r].children
  /\ stored' = stored \cup written
  /\ Ends(r)
  /\ UNCHANGED <<files, seen, manifest, edited>>

(* Another request to the index fails, a deletion perhaps half-way, or its *)
(* answer is lost.                                                         *)
RequestFails(r) ==
  /\ pc[r] = "delete" \/ (pc[r] = "upsert" /\ job[r].children = {})
  /\ \E gone \in SUBSET (IF pc[r] = "delete" THEN Of(job[r].path, seen) ELSE {}) :
       stored' = stored \ gone
  /\ seen' \in {seen, stored'}
  /\ Ends(r)
  /\ UNCHANGED <<files, manifest, edited>>

KillRun(r) ==
  /\ pc[r] \notin {"idle", "done"}
  /\ Ends(r)
  /\ UNCHANGED <<files, stored, seen, manifest, edited>>

---------------------------------------------------------------------------
(* Around the runs.                                                        *)

EditFile(f, content) ==
  /\ content # files[f]
  /\ sound' = (sound /\ content = files[f] + 1)
  /\ files' = [files EXCEPT ![f] = content]
  /\ edited' = edited \cup {f}
  /\ UNCHANGED <<stored, seen, manifest, pc, job>>

(* The index refreshes itself, about every second.                         *)
IndexInterval ==
  /\ seen # stored
  /\ seen' = stored
  /\ UNCHANGED <<files, stored, manifest, pc, job, edited, sound>>

(* The index is gone, or has a mapping that ensure_hybrid_index replaces;  *)
(* the next run creates it empty.                                          *)
LoseIndex ==
  /\ Quiet
  /\ sound' = FALSE
  /\ pc' = [r \in Runs |-> "idle"]
  /\ job' = [r \in Runs |-> NoJob]
  /\ stored' = {} /\ seen' = {}
  /\ UNCHANGED <<files, manifest, edited>>

---------------------------------------------------------------------------
IngestInit ==
  /\ files = [f \in Files |-> 1]
  /\ stored = {} /\ seen = {}
  /\ manifest = [f \in Files |-> Unknown]
  /\ pc = [r \in Runs |-> "idle"]
  /\ job = [r \in Runs |-> NoJob]
  /\ edited = {}
  /\ sound = TRUE

RunStep(r) ==
  \/ \E selected \in Selections, skip \in BOOLEAN : StartRun(r, selected, skip)
  \/ \E f \in Files : ReadDigest(r, f)
  \/ DeleteChunks(r) \/ ChunkFile(r) \/ EmbedChunks(r)
  \/ \E batch \in SUBSET job[r].children : UpsertBatch(r, batch)
  \/ RefreshIndex(r) \/ SaveManifest(r)
  \/ \E written \in SUBSET job[r].children : BulkFails(r, written)
  \/ EmbedFails(r) \/ RequestFails(r) \/ KillRun(r)

IngestNext ==
  \/ \E r \in Runs : RunStep(r)
  \/ \E f \in Files, content \in Contents : EditFile(f, content)
  \/ IndexInterval \/ LoseIndex

IngestSpec == IngestInit /\ [][IngestNext]_ingestVars

---------------------------------------------------------------------------
(* Properties.                                                             *)

(* A run keeps to its selection: it is at work on a file it has still to   *)
(* do, and holds chunks only of files it has done.                         *)
IngestTypeOK ==
  /\ files \in [Files -> Contents]
  /\ stored \subseteq Chunk /\ seen \subseteq Chunk
  /\ manifest \in Hashes
  /\ pc \in [Runs -> {"idle", "next", "delete", "chunk", "upsert", "save", "done"}]
  /\ \A r \in Runs :
       /\ job[r].todo \subseteq job[r].selected /\ job[r].selected \subseteq Files
       /\ job[r].hashes \in Hashes /\ job[r].digest \in Contents \cup {Unknown}
       /\ IF pc[r] \in {"delete", "chunk"} THEN job[r].path \in job[r].todo
                                           ELSE job[r].path = NoFile
       /\ {c.path : c \in job[r].children} \subseteq job[r].selected \ job[r].todo

(* A run with --no-skip that ends has made its files current whatever went *)
(* wrong before it, mishaps included: it is the operator's way out.  One   *)
(* run at a time: nothing keeps a second from writing the same files.      *)
ForcedRunHeals ==
  \A r \in Runs : pc[r] = "done" /\ ~job[r].skip =>
    \A f \in job[r].selected \ edited : Of(f, stored) = chunk_document(f)

(* A file the next run would skip is completely and only in the index,     *)
(* whatever failed before and whatever was edited between the two reads,   *)
(* as long as there was no mishap.                                         *)
SkipIsSafe ==
  \A f \in Files :
    sound /\ manifest[f] = files[f] /\ Quiet => Of(f, stored) = chunk_document(f)

---------------------------------------------------------------------------
(* What the repository says and the code does not keep, when runs overlap. *)

(* ingest.py:51: "existing chunks with that ``source_path`` are deleted    *)
(* first so heading/text edits cannot leave orphan ``chunk_id``s": a file  *)
(* whose hash the manifest holds has no chunk of another content.          *)
NoOrphanChunks ==
  Quiet => \A c \in stored : manifest[c.path] = files[c.path] => c.content = files[c.path]
===========================================================================
