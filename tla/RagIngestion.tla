----------------------------- MODULE RagIngestion -----------------------------
(***************************************************************************)
(* The RAG corpus of one tenant and workspace: uploads and deletions       *)
(* (routes/rag.py, services/rag_ingestion.py) and the workers that ingest  *)
(* the uploaded documents (worker.py).                                     *)
(*                                                                         *)
(* An ingestion job has no lease.  Claiming it is a committed transaction; *)
(* parsing, chunking, embedding and activation are a second one.           *)
(***************************************************************************)
EXTENDS Naturals

CONSTANTS
    Worker,    \* worker processes
    Doc,       \* upload requests, and the documents they create
    Hash,      \* SHA-256 of the uploaded files
    HashOf,    \* the file of every upload
    NoDoc,     \* what an idle worker ingests
    MaxFaults  \* bound: lost workers and database errors

ASSUME RagAssumption ==
    /\ HashOf \in [Doc -> Hash]
    /\ NoDoc \notin Doc
    /\ MaxFaults \in Nat

VARIABLES
    doc,     \* the upload request, then the row of rag_source_documents
    job,     \* rag_ingestion_jobs.status
    chunked, \* are the document's chunks and embeddings stored?
    active,  \* rag_document_versions.is_active
    ingests, \* the document a worker ingests
    faults   \* faults so far

vars == <<doc, job, chunked, active, ingests, faults>>

Init ==
    /\ doc = [d \in Doc |-> "none"]
    /\ job = [d \in Doc |-> "none"]
    /\ chunked = [d \in Doc |-> FALSE]
    /\ active = [d \in Doc |-> FALSE]
    /\ ingests = [w \in Worker |-> NoDoc]
    /\ faults = 0

-----------------------------------------------------------------------------
Stored(h) == \E e \in Doc : HashOf[e] = h /\ doc[e] = "live"

\* create_ingestion_job finds no duplicate (else it answers 409)...
CheckUpload(d) ==
    /\ doc[d] = "none"
    /\ ~Stored(HashOf[d])
    /\ doc' = [doc EXCEPT ![d] = "checked"]
    /\ UNCHANGED <<job, chunked, active, ingests, faults>>

\* Mutant: the upload is stored without a job to ingest it.
StoreUnqueued(d) ==
    /\ doc[d] = "checked"
    /\ doc' = [doc EXCEPT ![d] = "live"]
    /\ UNCHANGED <<job, chunked, active, ingests, faults>>

\* ...and commits the document, its version and its job.
StoreUpload(d) ==
    /\ doc[d] = "checked"
    /\ doc' = [doc EXCEPT ![d] = "live"]
    /\ job' = [job EXCEPT ![d] = "pending"]
    /\ UNCHANGED <<chunked, active, ingests, faults>>

\* delete_rag_document.  A job that ends between its query and its commit leaves
\* what one that ends after it does, so it is one step.  The job goes on, and
\* the document can be deleted again.
DeleteDocument(d) ==
    /\ doc[d] \in {"live", "deleted"}
    /\ doc' = [doc EXCEPT ![d] = "deleted"]
    /\ active' = [active EXCEPT ![d] = FALSE]
    /\ UNCHANGED <<job, chunked, ingests, faults>>

-----------------------------------------------------------------------------
\* Mutants: a job that runs already is claimed; one whose document was deleted
\* is not.
Unfinished(d) == job[d] \in {"pending", "running"}
StillWanted(d) == job[d] = "pending" /\ doc[d] = "live"

Claimable(d) == job[d] = "pending"

\* claim_next_rag_ingestion.
ClaimJob(w, d) ==
    /\ ingests[w] = NoDoc
    /\ Claimable(d)
    /\ job' = [job EXCEPT ![d] = "running"]
    /\ ingests' = [ingests EXCEPT ![w] = d]
    /\ UNCHANGED <<doc, chunked, active, faults>>

\* Mutant: the version is activated with no chunks.
NoChunks(d) == UNCHANGED chunked

StoreChunks(d) == chunked' = [chunked EXCEPT ![d] = TRUE]

\* ingest_document, whole: whether the document was deleted does not matter.
IngestDocument(w) ==
    /\ ingests[w] # NoDoc
    /\ StoreChunks(ingests[w])
    /\ active' = [active EXCEPT ![ingests[w]] = TRUE]
    /\ job' = [job EXCEPT ![ingests[w]] = "completed"]
    /\ ingests' = [ingests EXCEPT ![w] = NoDoc]
    /\ UNCHANGED <<doc, faults>>

\* Parsing or the embedding provider fails: mark_job_failed.
MarkJobFailed(w) ==
    /\ ingests[w] # NoDoc
    /\ job' = [job EXCEPT ![ingests[w]] = "failed"]
    /\ ingests' = [ingests EXCEPT ![w] = NoDoc]
    /\ UNCHANGED <<doc, chunked, active, faults>>

\* The worker dies; or a flush fails, and mark_job_failed with it, for the
\* session has to be rolled back first.  The job stays running.
LoseJob(w) ==
    /\ ingests[w] # NoDoc
    /\ faults < MaxFaults
    /\ faults' = faults + 1
    /\ ingests' = [ingests EXCEPT ![w] = NoDoc]
    /\ UNCHANGED <<doc, job, chunked, active>>

Next ==
    \/ \E d \in Doc :
        CheckUpload(d) \/ StoreUpload(d) \/ DeleteDocument(d)
    \/ \E w \in Worker :
        \/ \E d \in Doc : ClaimJob(w, d)
        \/ IngestDocument(w) \/ MarkJobFailed(w) \/ LoseJob(w)

Spec == Init /\ [][Next]_vars

\* run_worker_loop polls for ever, and an ingestion ends.
FairSpec ==
    /\ Spec
    /\ \A w \in Worker :
        /\ WF_vars(\E d \in Doc : ClaimJob(w, d))
        /\ WF_vars(IngestDocument(w) \/ MarkJobFailed(w))

-----------------------------------------------------------------------------
(***************************************************************************)
(* Properties.                                                             *)
(***************************************************************************)

\* Every variable has the type its column or attribute has.
TypeOK ==
    /\ doc \in [Doc -> {"none", "checked", "live", "deleted"}]
    /\ job \in [Doc -> {"none", "pending", "running", "completed", "failed"}]
    /\ chunked \in [Doc -> BOOLEAN]
    /\ active \in [Doc -> BOOLEAN]
    /\ ingests \in [Worker -> Doc \cup {NoDoc}]
    /\ \A d \in Doc : job[d] = "none" <=> doc[d] \in {"none", "checked"}
    /\ faults \in 0 .. MaxFaults

\* What HarveyRagRetriever.text_search may return.
Retrievable(d) == doc[d] = "live" /\ active[d]

\* Retrieval sees a document with all its chunks and embeddings or not at all,
\* whatever is uploaded, ingested, deleted or lost meanwhile.
CorpusComplete == \A d \in Doc : Retrievable(d) => chunked[d] /\ job[d] = "completed"

\* A job is ingested by one worker at a time, and never again once its chunks
\* are stored: the unique constraint on chunks cannot fail, although a job has
\* neither a lease nor an owner.
OneIngestion ==
    \A w \in Worker : ingests[w] # NoDoc =>
        /\ job[ingests[w]] = "running" /\ ~chunked[ingests[w]]
        /\ \A v \in Worker : ingests[v] = ingests[w] => v = w

\* A job that was accepted ends, whatever becomes of its document, unless the
\* worker that ingests it is lost: nothing else keeps it from ending.
JobsEndOrLost ==
    \A d \in Doc : (job[d] \in {"pending", "running"})
        ~> \/ job[d] \in {"completed", "failed"}
           \/ job[d] = "running" /\ \A w \in Worker : ingests[w] # d
=============================================================================
