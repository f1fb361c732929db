-------------------------- MODULE RagIngestionProofs --------------------------
(***************************************************************************)
(* Proofs about the ingestion of RAG documents, for every set of uploads,  *)
(* files and workers.                                                      *)
(***************************************************************************)
EXTENDS RagIngestion, FiniteSetTheorems, TLAPS

\* A job that is over, or waits, is ingested by nobody; a version is activated
\* together with the end of its job; chunks are stored together with both.
IngestInv ==
    /\ TypeOK
    /\ OneIngestion
    /\ \A d \in Doc : active[d] => job[d] = "completed"
    /\ \A d \in Doc : chunked[d] <=> job[d] = "completed"

LEMMA IngestInit == Init => IngestInv
  BY RagAssumption DEF Init, IngestInv, TypeOK, OneIngestion

LEMMA IngestUpload ==
  ASSUME IngestInv, NEW d \in Doc, CheckUpload(d) \/ StoreUpload(d) \/ DeleteDocument(d)
  PROVE  IngestInv'
<1> USE RagAssumption DEF IngestInv, TypeOK, OneIngestion
<1>1. CASE CheckUpload(d)
  BY <1>1 DEF CheckUpload
<1>2. CASE StoreUpload(d)
  BY <1>2 DEF StoreUpload
<1>3. CASE DeleteDocument(d)
  BY <1>3 DEF DeleteDocument
<1>4. QED
  BY <1>1, <1>2, <1>3

LEMMA IngestClaim ==
  ASSUME IngestInv, NEW w \in Worker, NEW d \in Doc, ClaimJob(w, d)
  PROVE  IngestInv'
<1>1. \A v \in Worker : ingests[v] # d
  BY RagAssumption DEF IngestInv, OneIngestion, ClaimJob, Claimable
<1>2. QED
  BY <1>1, RagAssumption DEF IngestInv, TypeOK, OneIngestion, ClaimJob, Claimable

LEMMA IngestEnd ==
  ASSUME IngestInv, NEW w \in Worker, IngestDocument(w) \/ MarkJobFailed(w) \/ LoseJob(w)
  PROVE  IngestInv'
<1> DEFINE d == ingests[w]
<1>1. d \in Doc /\ d # NoDoc /\ job[d] = "running"
  BY DEF IngestInv, TypeOK, OneIngestion, IngestDocument, MarkJobFailed, LoseJob
<1>2. \A v \in Worker : v # w => ingests[v] # d
  BY <1>1 DEF IngestInv, OneIngestion
<1>3. CASE IngestDocument(w)
  BY <1>1, <1>2, <1>3 DEF IngestInv, TypeOK, OneIngestion, IngestDocument, StoreChunks
<1>4. CASE MarkJobFailed(w)
  BY <1>1, <1>2, <1>4 DEF IngestInv, TypeOK, OneIngestion, MarkJobFailed
<1>5. CASE LoseJob(w)
  BY <1>1, <1>2, <1>5, RagAssumption DEF IngestInv, TypeOK, OneIngestion, LoseJob
<1>6. QED
  BY <1>3, <1>4, <1>5

LEMMA IngestNext == IngestInv /\ [Next]_vars => IngestInv'
<1> SUFFICES ASSUME IngestInv, [Next]_vars PROVE IngestInv'
  OBVIOUS
<1>1. CASE UNCHANGED vars
  BY <1>1 DEF vars, IngestInv, TypeOK, OneIngestion
<1>2. QED
  BY <1>1, IngestUpload, IngestClaim, IngestEnd DEF Next

THEOREM IngestInvariant == Spec => []IngestInv
  BY IngestInit, IngestNext, PTL DEF Spec

\* Retrieval never sees a document whose embeddings are missing, however its
\* upload, ingestion and deletion interleave and whatever workers are lost.
THEOREM RetrievalComplete == Spec => []CorpusComplete
<1>1. IngestInv => CorpusComplete
  BY DEF IngestInv, CorpusComplete, Retrievable
<1>2. QED
  BY <1>1, IngestInvariant, PTL

\* No two workers ingest the same document, and none ingests it again.
THEOREM IngestedOnce == Spec => []OneIngestion
<1>1. IngestInv => OneIngestion
  BY DEF IngestInv
<1>2. QED
  BY <1>1, IngestInvariant, PTL

\* Documents, jobs and workers keep their types, whatever uploads, deletions and
\* lost workers interleave.
THEOREM TypeCorrect == Spec => []TypeOK
<1>1. IngestInv => TypeOK
  BY DEF IngestInv
<1>2. QED
  BY <1>1, IngestInvariant, PTL
-----------------------------------------------------------------------------
\* The jobs that will never end: they run, and no worker ingests them.
Stuck == {d \in Doc : job[d] = "running" /\ \A w \in Worker : ingests[w] # d}

\* Each of them cost a fault of its own: it takes a worker that died, or a
\* database error, to lose a job, and no fault loses two.
StuckByFaults == Cardinality(Stuck) <= faults

\* The same with the finiteness that counting needs.
StuckInv == IsFiniteSet(Stuck) /\ StuckByFaults

LEMMA StuckInit == Init => StuckInv
<1> SUFFICES ASSUME Init PROVE StuckInv
  OBVIOUS
<1>1. Stuck = {}
  BY DEF Init, Stuck
<1>2. QED
  BY <1>1, FS_EmptySet DEF Init, StuckInv, StuckByFaults

\* No other step makes a job that runs one that nobody ingests.
LEMMA StuckShrinks ==
  ASSUME IngestInv, StuckInv, Stuck' \subseteq Stuck, faults' = faults
  PROVE  StuckInv'
<1>1. IsFiniteSet(Stuck') /\ Cardinality(Stuck') <= Cardinality(Stuck)
  BY FS_Subset DEF StuckInv
<1>2. Cardinality(Stuck) \in Nat /\ Cardinality(Stuck') \in Nat
  BY <1>1, FS_CardinalityType DEF StuckInv
<1>3. faults \in Nat
  BY RagAssumption DEF IngestInv, TypeOK
<1>4. QED
  BY <1>1, <1>2, <1>3 DEF StuckInv, StuckByFaults

LEMMA StuckLose ==
  ASSUME IngestInv, StuckInv, NEW w \in Worker, LoseJob(w)
  PROVE  StuckInv'
<1> DEFINE d == ingests[w]
<1>1. Stuck' \subseteq Stuck \cup {d}
  BY DEF IngestInv, TypeOK, LoseJob, Stuck
<1>2. IsFiniteSet(Stuck \cup {d})
      /\ Cardinality(Stuck \cup {d}) <= Cardinality(Stuck) + 1
  <2>1. IsFiniteSet(Stuck) /\ Cardinality(Stuck) \in Nat
    BY FS_CardinalityType DEF StuckInv
  <2>2. QED
    BY <2>1, FS_AddElement
<1>3. IsFiniteSet(Stuck') /\ Cardinality(Stuck') <= Cardinality(Stuck \cup {d})
  BY <1>1, <1>2, FS_Subset
<1>4. Cardinality(Stuck) \in Nat /\ Cardinality(Stuck') \in Nat
      /\ Cardinality(Stuck \cup {d}) \in Nat
  BY <1>2, <1>3, FS_CardinalityType DEF StuckInv
<1>5. faults \in Nat /\ faults' = faults + 1
  BY RagAssumption DEF IngestInv, TypeOK, LoseJob
<1>6. QED
  BY <1>2, <1>3, <1>4, <1>5 DEF StuckInv, StuckByFaults

LEMMA StuckNext == IngestInv /\ StuckInv /\ [Next]_vars => StuckInv'
<1> SUFFICES ASSUME IngestInv, StuckInv, [Next]_vars PROVE StuckInv'
  OBVIOUS
<1>1. CASE UNCHANGED vars
  <2>1. Stuck' = Stuck /\ faults' = faults
    BY <1>1 DEF vars, Stuck
  <2>2. QED
    BY <2>1, StuckShrinks
<1>2. ASSUME NEW d \in Doc, CheckUpload(d) \/ StoreUpload(d) \/ DeleteDocument(d)
      PROVE  StuckInv'
  <2>1. Stuck' \subseteq Stuck /\ faults' = faults
    BY <1>2 DEF IngestInv, TypeOK, CheckUpload, StoreUpload, DeleteDocument, Stuck
  <2>2. QED
    BY <2>1, StuckShrinks
<1>3. ASSUME NEW w \in Worker, NEW d \in Doc, ClaimJob(w, d)
      PROVE  StuckInv'
  <2>1. Stuck' \subseteq Stuck /\ faults' = faults
    BY <1>3, RagAssumption DEF IngestInv, TypeOK, ClaimJob, Claimable, Stuck
  <2>2. QED
    BY <2>1, StuckShrinks
<1>4. ASSUME NEW w \in Worker, IngestDocument(w) \/ MarkJobFailed(w)
      PROVE  StuckInv'
  <2>1. Stuck' \subseteq Stuck /\ faults' = faults
    BY <1>4 DEF IngestInv, TypeOK, IngestDocument, MarkJobFailed, Stuck
  <2>2. QED
    BY <2>1, StuckShrinks
<1>5. QED
  BY <1>1, <1>2, <1>3, <1>4, StuckLose DEF Next

\* The jobs that never end are never more than the faults: an accepted document
\* is lost by a worker that died or an error of the database, never by another
\* upload, a deletion, or a job that failed.
THEOREM LostByFaults == Spec => []StuckByFaults
<1>1. StuckInv => StuckByFaults
  BY DEF StuckInv
<1>2. QED
  BY <1>1, IngestInvariant, StuckInit, StuckNext, PTL DEF Spec
=============================================================================
