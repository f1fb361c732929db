--------------------------- MODULE StageQueueProofs ---------------------------
(***************************************************************************)
(* Proofs about the stage queue, for every set of stages, workers and      *)
(* clients and every order.                                                *)
(***************************************************************************)
EXTENDS StageQueue, WellFoundedInduction, TLAPS

(***************************************************************************)
(* Type correctness.                                                       *)
(***************************************************************************)
LEMMA TypeInit == Init => TypeOK
<1> SUFFICES ASSUME Init PROVE TypeOK
  OBVIOUS
<1>1. \A w \in Worker : pc[w] = "idle" <=> held[w] = NoStage
  BY DEF Init
<1>2. seenRows \in [Client -> [reset : SUBSET Stage, counted : SUBSET Stage, leased : SUBSET Stage]]
  BY DEF Init, NothingSeen
<1>3. QED
  BY <1>1, <1>2 DEF Init, TypeOK, RunStatus, StageState

LEMMA TypeClaim ==
  ASSUME TypeOK, NEW w \in Worker, NEW s \in Stage, Claim(w, s)
  PROVE  TypeOK'
<1>1. s \in WorkerStage /\ s # NoStage
  BY ConstantsAssumption DEF Claim, Claimable, WorkerStage
<1>2. retries' \in [Stage -> Nat] /\ seenCount' \in [Worker -> Nat]
  BY DEF TypeOK, Claim
<1>3. QED
  BY <1>1, <1>2 DEF TypeOK, Claim, RunStatus, StageState, clientVars

LEMMA TypeWorkerStep ==
  ASSUME TypeOK, NEW w \in Worker, WorkerStep(w)
  PROVE  TypeOK'
<1> USE DEF TypeOK
<1>1. CASE Begin(w)
  BY <1>1 DEF Begin, runVars, stageVars, clientVars
<1>2. CASE CancelStage(w)
  BY <1>2 DEF CancelStage, Release, RunStatus, StageState, runVars, clientVars
<1>3. CASE Finish(w)
  BY <1>3 DEF Finish, runVars, stageVars, clientVars
<1>4. CASE AdvanceStage(w)
  BY <1>4 DEF AdvanceStage, Release, WriteRun, RunStatus, StageState, clientVars
<1>c. seenCount[w] + 1 \in Nat
  OBVIOUS
<1>5. CASE RetryStage(w)
  BY <1>5, <1>c DEF RetryStage, Release, RunStatus, StageState, runVars, clientVars
<1>6. CASE MarkStageFailed(w)
  BY <1>6, <1>c DEF MarkStageFailed, Release, WriteRun, RunStatus, StageState, clientVars
<1>7. CASE MarkRunBlocked(w)
  BY <1>7 DEF MarkRunBlocked, Release, WriteRun, RunStatus, stageVars, clientVars
<1>8. QED
  BY <1>1, <1>2, <1>3, <1>4, <1>5, <1>6, <1>7 DEF WorkerStep

LEMMA TypeEnvironment ==
  ASSUME TypeOK
  PROVE  /\ \A w \in Worker : Crash(w) => TypeOK'
         /\ \A s \in Stage : ExpireLease(s) => TypeOK'
<1>1. ASSUME NEW w \in Worker, Crash(w) PROVE TypeOK'
  BY <1>1 DEF TypeOK, Crash, Release, RunStatus, runVars, stageVars, clientVars
<1>2. ASSUME NEW s \in Stage, ExpireLease(s) PROVE TypeOK'
  BY <1>2 DEF TypeOK, ExpireLease, runVars, workerVars, clientVars
<1>3. QED
  BY <1>1, <1>2

LEMMA TypeClientStep ==
  ASSUME TypeOK, NEW c \in Client, ClientStep(c)
  PROVE  TypeOK'
<1> USE DEF TypeOK
<1>1. ASSUME NEW op \in Ops, Ask(c, op) PROVE TypeOK'
  BY <1>1, ConstantsAssumption DEF Ask, runVars, stageVars, workerVars
<1>2. CASE CancelRun(c)
  BY <1>2 DEF CancelRun, Unstarted, Answer, Leave, NothingSeen, RunStatus, StageState, workerVars
<1>3. CASE ReadStages(c)
  BY <1>3 DEF ReadStages, runVars, stageVars, workerVars
<1>4. CASE RetryRun(c)
  BY <1>4 DEF RetryRun, Answer, Leave, NothingSeen, RunStatus, StageState, workerVars
<1>5. CASE StartReview(c)
  BY <1>5 DEF StartReview, Answer, Leave, NothingSeen, RunStatus, stageVars, workerVars
<1>s. CASE SaveContent(c)
  BY <1>s DEF SaveContent, Leave, Others, NothingSeen, stageVars, workerVars
<1>6. CASE RejectRun(c)
  BY <1>6 DEF RejectRun, AnswerDecision, Leave, Others, NothingSeen, RunStatus, Review, stageVars, workerVars
<1>7. CASE FinalizeRun(c)
  BY <1>7 DEF FinalizeRun, FinalVerdict, AnswerDecision, Leave, Others, NothingSeen, RunStatus, StageState, Review, workerVars
<1>8. CASE FailRequest(c)
  BY <1>8 DEF FailRequest, Answer, Leave, NothingSeen, runVars, stageVars, workerVars
<1>9. QED
  BY <1>1, <1>2, <1>3, <1>4, <1>5, <1>s, <1>6, <1>7, <1>8 DEF ClientStep

LEMMA TypeStep == TypeOK /\ [Next]_vars => TypeOK'
<1> SUFFICES ASSUME TypeOK, [Next]_vars PROVE TypeOK'
  OBVIOUS
<1>1. CASE Next
  BY <1>1, TypeClaim, TypeWorkerStep, TypeEnvironment, TypeClientStep DEF Next
<1>2. CASE UNCHANGED vars
  BY <1>2 DEF TypeOK, vars, runVars, stageVars, workerVars, clientVars
<1>3. QED
  BY <1>1, <1>2

\* Every variable keeps its type: in particular workers hold a stage exactly
\* while they are at work, and never the stage "finalized".
THEOREM TypeCorrect == Spec => []TypeOK
  BY TypeInit, TypeStep, PTL DEF Spec

(***************************************************************************)
(* Outputs appear in order, and the review waits for all of them.          *)
(*                                                                         *)
(* InputsReady and HumanGate are not inductive: a worker whose lease ran   *)
(* out still writes the stage it holds, and a request still writes what it *)
(* checked earlier.  QueueInv says what both of them carry with them.      *)
(***************************************************************************)
AllOutputs == \A s \in WorkerStage : output[s]

\* A stage is completed only with its output; nothing takes an output away.
CompletedHasOutput == \A s \in WorkerStage : status[s] = "completed" => output[s]

\* The inputs of a stage are there for whoever executes it.
HoldersReady ==
    \A w \in Worker, p \in WorkerStage :
        held[w] # NoStage /\ p \in Before(held[w]) => output[p]

\* Whoever reviews the run found it ready for review.
ReviewersReady ==
    \A c \in Client : req[c] \in Review \cup {"start_review"} => AllOutputs

QueueInv ==
    /\ TypeOK
    /\ CompletedHasOutput
    /\ HoldersReady
    /\ InputsReady
    /\ HumanGate
    /\ ReviewersReady

QueueParts == CompletedHasOutput /\ HoldersReady /\ InputsReady /\ HumanGate /\ ReviewersReady

\* Steps that change no output, start no stage and open no review.
LEMMA QuietStep ==
  ASSUME QueueInv,
         output' = output,
         \A s \in WorkerStage : status'[s] = status[s] \/ status'[s] \in {"pending", "cancelled"},
         \A w \in Worker : held'[w] \in {held[w], NoStage},
         run' = run \/ run' \notin {"awaiting_human_review", "under_review", "finalized", "rejected"},
         \A c \in Client : req'[c] = req[c] \/ req'[c] \notin Review \cup {"start_review"}
  PROVE  QueueParts'
  BY DEF QueueInv, QueueParts, CompletedHasOutput, HoldersReady, InputsReady, HumanGate,
         ReviewersReady, AllOutputs, Before, WorkerStage

LEMMA QueueInit == Init => QueueInv
<1>1. Init => TypeOK
  BY TypeInit
<1>2. Init => QueueParts
  BY DEF Init, QueueParts, CompletedHasOutput, HoldersReady, InputsReady, HumanGate,
         ReviewersReady, WorkerStage, Review
<1>3. QED
  BY <1>1, <1>2 DEF QueueInv, QueueParts

LEMMA QueueClaim ==
  ASSUME QueueInv, NEW w \in Worker, NEW s \in Stage, Claim(w, s)
  PROVE  QueueParts'
<1>1. \A p \in WorkerStage : p \in Before(s) => output[p]
  BY DEF QueueInv, CompletedHasOutput, Claim, Claimable, PredecessorsDone
<1>2. s \in WorkerStage
  BY DEF Claim, Claimable
<1>3. status \in [Stage -> StageState] /\ held \in [Worker -> WorkerStage \cup {NoStage}]
  BY DEF QueueInv, TypeOK
<1>4. CompletedHasOutput' /\ HumanGate' /\ ReviewersReady'
  BY <1>3 DEF QueueInv, CompletedHasOutput, HumanGate, ReviewersReady, AllOutputs, Claim,
              clientVars, WorkerStage
<1>5. HoldersReady'
  BY <1>1, <1>3 DEF QueueInv, HoldersReady, Claim, Before, WorkerStage
<1>6. InputsReady'
  BY <1>1, <1>3 DEF QueueInv, InputsReady, Claim, Before, WorkerStage
<1>7. QED
  BY <1>4, <1>5, <1>6 DEF QueueParts

LEMMA QueueAdvance ==
  ASSUME QueueInv, NEW w \in Worker, AdvanceStage(w)
  PROVE  QueueParts'
<1> DEFINE s == held[w]
<1>1. s \in WorkerStage /\ s # NoStage
  BY DEF QueueInv, TypeOK, AdvanceStage
<1>2. /\ status \in [Stage -> StageState]
      /\ output \in [Stage -> BOOLEAN]
      /\ held \in [Worker -> WorkerStage \cup {NoStage}]
  BY DEF QueueInv, TypeOK
<1>3. \A p \in WorkerStage : p \in Before(s) => output[p]
  BY <1>1 DEF QueueInv, HoldersReady
<1>4. /\ \A p \in WorkerStage : output'[p] = (output[p] \/ p = s)
      /\ \A p \in WorkerStage : p # s => status'[p] = status[p]
      /\ \A v \in Worker : held'[v] \in {held[v], NoStage}
      /\ req' = req
  BY <1>1, <1>2 DEF AdvanceStage, Release, clientVars, WorkerStage
<1>5. CompletedHasOutput' /\ ReviewersReady'
  BY <1>4 DEF QueueInv, CompletedHasOutput, ReviewersReady, AllOutputs, WorkerStage
<1>6. HoldersReady'
  BY <1>4 DEF QueueInv, HoldersReady, Before, WorkerStage
<1>7. InputsReady'
  BY <1>1, <1>3, <1>4 DEF QueueInv, InputsReady, Before, WorkerStage
<1>8. HumanGate'
  <2>1. CASE s = AwaitReview
    <3>1. \A p \in WorkerStage : p = s \/ p \in Before(s)
      BY <2>1, ConstantsAssumption DEF Before, WorkerStage
    <3>2. QED
      BY <1>3, <1>4, <3>1 DEF HumanGate, WorkerStage
  <2>2. CASE s # AwaitReview
    <3>1. run' = run
      BY <2>2 DEF AdvanceStage
    <3>2. QED
      BY <1>4, <3>1 DEF QueueInv, HumanGate, WorkerStage
  <2>3. QED
    BY <2>1, <2>2
<1>9. QED
  BY <1>5, <1>6, <1>7, <1>8 DEF QueueParts

\* retry_stage and mark_stage_failed write the status of a stage whose worker
\* found its inputs.
LEMMA QueueRaise ==
  ASSUME QueueInv, NEW w \in Worker, RetryStage(w) \/ MarkStageFailed(w)
  PROVE  QueueParts'
<1>1. held[w] \in WorkerStage /\ held[w] # NoStage
  BY DEF QueueInv, TypeOK, RetryStage, MarkStageFailed
<1>2. /\ status \in [Stage -> StageState]
      /\ held \in [Worker -> WorkerStage \cup {NoStage}]
  BY DEF QueueInv, TypeOK
<1>3. /\ output' = output
      /\ req' = req
      /\ \A v \in Worker : held'[v] \in {held[v], NoStage}
      /\ \A p \in WorkerStage : p # held[w] => status'[p] = status[p]
      /\ status'[held[w]] \in {"retrying", "failed"}
      /\ run' = run \/ run' = "failed"
  BY <1>1, <1>2 DEF RetryStage, MarkStageFailed, Release, WriteRun, runVars, clientVars, WorkerStage
<1>4. \A p \in WorkerStage : p \in Before(held[w]) => output[p]
  BY <1>1 DEF QueueInv, HoldersReady
<1>5. CompletedHasOutput' /\ HumanGate' /\ ReviewersReady'
  BY <1>3 DEF QueueInv, CompletedHasOutput, HumanGate, ReviewersReady, AllOutputs, WorkerStage
<1>6. HoldersReady' /\ InputsReady'
  BY <1>1, <1>3, <1>4 DEF QueueInv, HoldersReady, InputsReady, Before, WorkerStage
<1>7. QED
  BY <1>5, <1>6 DEF QueueParts

LEMMA QueueWorkerStep ==
  ASSUME QueueInv, NEW w \in Worker, WorkerStep(w) \/ Crash(w)
  PROVE  QueueParts'
<1>1. /\ status \in [Stage -> StageState]
      /\ held \in [Worker -> WorkerStage \cup {NoStage}]
  BY DEF QueueInv, TypeOK
<1>2. CASE Begin(w) \/ Finish(w)
  BY <1>2, QuietStep DEF Begin, Finish, runVars, stageVars, clientVars
<1>3. CASE CancelStage(w)
  <2>1. \A p \in WorkerStage : status'[p] = status[p] \/ status'[p] = "cancelled"
    BY <1>1, <1>3 DEF CancelStage, WorkerStage
  <2>2. \A v \in Worker : held'[v] \in {held[v], NoStage}
    BY <1>1, <1>3 DEF CancelStage, Release
  <2>3. QED
    BY <1>3, <2>1, <2>2, QuietStep DEF CancelStage, runVars, clientVars
<1>4. CASE MarkRunBlocked(w)
  BY <1>1, <1>4, QuietStep DEF MarkRunBlocked, WriteRun, Release, stageVars, clientVars
<1>5. CASE Crash(w)
  BY <1>1, <1>5, QuietStep DEF Crash, Release, runVars, stageVars, clientVars
<1>6. QED
  BY <1>2, <1>3, <1>4, <1>5, QueueAdvance, QueueRaise DEF WorkerStep

LEMMA QueueExpire ==
  ASSUME QueueInv, NEW s \in Stage, ExpireLease(s)
  PROVE  QueueParts'
  BY QuietStep DEF ExpireLease, runVars, workerVars, clientVars

LEMMA QueueClientStep ==
  ASSUME QueueInv, NEW c \in Client, ClientStep(c)
  PROVE  QueueParts'
<1>1. /\ status \in [Stage -> StageState]
      /\ req \in [Client -> Request \cup {"none", "retry_write"}]
  BY DEF QueueInv, TypeOK
<1>2. ASSUME NEW op \in Ops, Ask(c, op) PROVE QueueParts'
  <2>1. op \in Review \cup {"start_review"} => AllOutputs
    BY <1>2 DEF Ask, Allowed, QueueInv, HumanGate, AllOutputs, Review
  <2>2. /\ output' = output /\ status' = status /\ held' = held /\ run' = run
        /\ req' = [req EXCEPT ![c] = op]
    BY <1>2 DEF Ask, runVars, stageVars, workerVars
  <2>3. ReviewersReady'
    BY <1>1, <2>1, <2>2 DEF QueueInv, ReviewersReady, AllOutputs, WorkerStage
  <2>4. QED
    BY <2>2, <2>3 DEF QueueInv, QueueParts, CompletedHasOutput, HoldersReady, InputsReady,
                      HumanGate, Before, WorkerStage
<1>3. CASE CancelRun(c)
  <2>1. \A p \in WorkerStage : status'[p] = status[p] \/ status'[p] = "cancelled"
    BY <1>1, <1>3 DEF CancelRun, Unstarted, WorkerStage
  <2>2. \A d \in Client : req'[d] = req[d] \/ req'[d] = "none"
    BY <1>1, <1>3 DEF CancelRun, Answer, Leave
  <2>3. QED
    BY <1>3, <2>1, <2>2, QuietStep DEF CancelRun, workerVars, Review
<1>4. CASE ReadStages(c)
  <2>1. \A d \in Client : req'[d] = req[d] \/ req'[d] = "retry_write"
    BY <1>1, <1>4 DEF ReadStages
  <2>2. QED
    BY <1>4, <2>1, QuietStep DEF ReadStages, runVars, stageVars, workerVars, Review
<1>5. CASE RetryRun(c)
  <2>1. \A p \in WorkerStage : status'[p] = status[p] \/ status'[p] = "pending"
    BY <1>1, <1>5 DEF RetryRun, WorkerStage
  <2>2. \A d \in Client : req'[d] = req[d] \/ req'[d] = "none"
    BY <1>1, <1>5 DEF RetryRun, Answer, Leave
  <2>3. QED
    BY <1>5, <2>1, <2>2, QuietStep DEF RetryRun, workerVars, Review
<1>6. CASE StartReview(c) \/ RejectRun(c) \/ FinalizeRun(c)
  <2>1. AllOutputs
    BY <1>6 DEF StartReview, RejectRun, FinalizeRun, QueueInv, ReviewersReady, Review
  <2>2. /\ output' = output
        /\ held' = held
        /\ \A p \in WorkerStage : status'[p] = status[p]
    BY <1>1, <1>6 DEF StartReview, RejectRun, FinalizeRun, stageVars, workerVars, WorkerStage
  <2>3. QED
    BY <2>1, <2>2 DEF QueueParts, CompletedHasOutput, HoldersReady, InputsReady, HumanGate,
                      ReviewersReady, AllOutputs, Before, WorkerStage
<1>7. CASE FailRequest(c) \/ SaveContent(c)
  <2>1. \A d \in Client : req'[d] = req[d] \/ req'[d] = "none"
    BY <1>1, <1>7 DEF FailRequest, SaveContent, Answer, Leave
  <2>2. QED
    BY <1>7, <2>1, QuietStep DEF FailRequest, SaveContent, runVars, stageVars, workerVars, Review
<1>8. QED
  BY <1>2, <1>3, <1>4, <1>5, <1>6, <1>7 DEF ClientStep

LEMMA QueueNext == QueueInv /\ [Next]_vars => QueueInv'
<1> SUFFICES ASSUME QueueInv, [Next]_vars PROVE QueueInv'
  OBVIOUS
<1>1. TypeOK'
  BY TypeStep DEF QueueInv
<1>2. CASE Next
  <2>1. QueueParts'
    BY <1>2, QueueClaim, QueueWorkerStep, QueueExpire, QueueClientStep DEF Next
  <2>2. QED
    BY <1>1, <2>1 DEF QueueInv, QueueParts
<1>3. CASE UNCHANGED vars
  <2>1. QueueParts'
    BY <1>3, QuietStep DEF vars, runVars, stageVars, workerVars, clientVars
  <2>2. QED
    BY <1>1, <2>1 DEF QueueInv, QueueParts
<1>4. QED
  BY <1>2, <1>3

THEOREM QueueInvariant == Spec => []QueueInv
  BY QueueInit, QueueNext, PTL DEF Spec

\* Whoever executes a stage, under whatever lease, finds the outputs of all the
\* stages before it (the predecessor test of claim_next_stage is enough).
THEOREM InputsAlwaysReady == Spec => []InputsReady
<1>1. QueueInv => InputsReady
  BY DEF QueueInv
<1>2. QED
  BY <1>1, QueueInvariant, PTL

\* No reviewer sees, and none decides, a run with a missing stage output.
THEOREM ReviewWaits == Spec => []HumanGate
<1>1. QueueInv => HumanGate
  BY DEF QueueInv
<1>2. QED
  BY <1>1, QueueInvariant, PTL

(***************************************************************************)
(* The queue implements ReviewPipeline.                                    *)
(***************************************************************************)
Produced == {s \in WorkerStage : output[s]}

LEMMA PipelineAdvance ==
  ASSUME QueueInv, NEW w \in Worker, AdvanceStage(w)
  PROVE  Pipeline!Next
<1>1. PICK s \in WorkerStage : s = held[w] /\ s # NoStage
  BY DEF QueueInv, TypeOK, AdvanceStage
<1>2. \A p \in WorkerStage : p \in Before(s) => output[p]
  BY <1>1 DEF QueueInv, HoldersReady
<1>3. Produced' = Produced \cup {s} /\ reviews' = reviews
  BY <1>1 DEF Produced, AdvanceStage, QueueInv, TypeOK, WorkerStage
<1>4. Pipeline!Produce(s)
  BY <1>1, <1>2, <1>3 DEF Pipeline!Produce, Pipeline!Ready, Produced, Before, WorkerStage
<1>5. QED
  BY <1>4 DEF Pipeline!Next

LEMMA PipelineDecide ==
  ASSUME QueueInv, NEW c \in Client, RejectRun(c) \/ FinalizeRun(c)
  PROVE  Pipeline!Next
<1>1. PICK d \in Review : req[c] = d /\ reviews' = reviews \cup {d}
  BY DEF RejectRun, FinalizeRun, Review
<1>2. AllOutputs
  BY <1>1 DEF QueueInv, ReviewersReady
<1>3. output' = output
  BY DEF RejectRun, FinalizeRun, stageVars
<1>4. Pipeline!Decide(d)
  BY <1>1, <1>2, <1>3 DEF Pipeline!Decide, AllOutputs, WorkerStage
<1>5. QED
  BY <1>4 DEF Pipeline!Next

LEMMA PipelineStep == QueueInv /\ [Next]_vars => [Pipeline!Next]_(Pipeline!vars)
<1> SUFFICES ASSUME QueueInv, [Next]_vars PROVE [Pipeline!Next]_(Pipeline!vars)
  OBVIOUS
<1>1. output' = output /\ reviews' = reviews => UNCHANGED Pipeline!vars
  BY DEF Pipeline!vars, WorkerStage
<1>2. ASSUME NEW w \in Worker, NEW s \in Stage, Claim(w, s)
      PROVE  output' = output /\ reviews' = reviews
  BY <1>2 DEF Claim
<1>3. ASSUME NEW w \in Worker, WorkerStep(w) \/ Crash(w), ~AdvanceStage(w)
      PROVE  output' = output /\ reviews' = reviews
  BY <1>3 DEF WorkerStep, Begin, CancelStage, Finish, RetryStage, MarkStageFailed,
              MarkRunBlocked, Crash, runVars, stageVars
<1>4. ASSUME NEW s \in Stage, ExpireLease(s)
      PROVE  output' = output /\ reviews' = reviews
  BY <1>4 DEF ExpireLease, runVars
<1>5. ASSUME NEW c \in Client, ClientStep(c), ~RejectRun(c), ~FinalizeRun(c)
      PROVE  output' = output /\ reviews' = reviews
  BY <1>5 DEF ClientStep, Ask, CancelRun, ReadStages, RetryRun, StartReview, SaveContent, FailRequest,
              runVars, stageVars
<1>6. UNCHANGED vars => output' = output /\ reviews' = reviews
  BY DEF vars, runVars, stageVars
<1>7. QED
  BY <1>1, <1>2, <1>3, <1>4, <1>5, <1>6, PipelineAdvance, PipelineDecide DEF Next

\* Every behaviour of the queue, with its short leases, crashes and racing
\* requests, is one of the pipeline: ordered outputs, and a gated decision.
THEOREM QueueImplementsPipeline == Spec => ImplementsPipeline
<1>1. Init => Pipeline!Init
  BY DEF Init, Pipeline!Init, WorkerStage
<1>2. QED
  BY <1>1, PipelineStep, QueueInvariant, PTL DEF Spec, ImplementsPipeline, Pipeline!Spec

(***************************************************************************)
(* The lease protocol, stage by stage: as long as a stage is not disputed, *)
(* whoever holds it holds it alone, it runs under a live lease, and it is  *)
(* completed exactly when it has its output.                               *)
(***************************************************************************)
Undisputed(s) == s \notin disputed \cup {NoStage}

LeasedToHolder ==
    \A w \in Worker : Undisputed(held[w]) =>
        status[held[w]] = "running" /\ lease[held[w]] = "live"

OutputsSettled ==
    \A s \in WorkerStage \ disputed : output[s] => status[s] = "completed"

\* retry_run clears leases of stages it resets only.
RowsRead == \A c \in Client : seenRows[c].leased \subseteq seenRows[c].reset

LeaseParts == LeasedToHolder /\ Exclusive /\ OutputsSettled /\ RowsRead
LeaseInv == TypeOK /\ LeaseParts

Kept == \A s \in Stage : status[s] = "completed" /\ s \notin disputed' => status'[s] = "completed"

LEMMA LeaseClaim ==
  ASSUME LeaseInv, NEW w \in Worker, NEW s \in Stage, Claim(w, s)
  PROVE  LeaseParts' /\ Kept
<1>1. /\ held \in [Worker -> WorkerStage \cup {NoStage}] /\ s # NoStage
      /\ status \in [Stage -> StageState]
      /\ lease \in [Stage -> {"none", "live", "expired"}]
      /\ WorkerStage \subseteq Stage
  BY ConstantsAssumption DEF LeaseInv, TypeOK, WorkerStage
<1>2. \A v \in Worker : held[v] = s => s \in disputed
  BY <1>1 DEF Claim, Claimable, Available, LeaseInv, LeaseParts, LeasedToHolder, Undisputed
<1>3. /\ held' = [held EXCEPT ![w] = s]
      /\ status' = [status EXCEPT ![s] = "running"]
      /\ lease' = [lease EXCEPT ![s] = "live"]
      /\ output' = output /\ disputed' = disputed
      /\ status[s] # "completed"
  BY DEF Claim, Claimable, Available
<1>4. LeasedToHolder'
  BY <1>1, <1>2, <1>3 DEF LeaseInv, LeaseParts, LeasedToHolder, Undisputed
<1>5. Exclusive'
  BY <1>1, <1>2, <1>3 DEF LeaseInv, LeaseParts, Exclusive
<1>6. OutputsSettled' /\ RowsRead' /\ Kept
  BY <1>1, <1>3 DEF Claim, clientVars, LeaseInv, LeaseParts, OutputsSettled, RowsRead, Kept
<1>7. QED
  BY <1>4, <1>5, <1>6 DEF LeaseParts

\* A worker's step touches the stage it holds, which nobody else holds unless it
\* is disputed.
LEMMA LeaseWorkerStep ==
  ASSUME LeaseInv, NEW w \in Worker, WorkerStep(w) \/ Crash(w)
  PROVE  LeaseParts' /\ Kept
<1>1. /\ held \in [Worker -> WorkerStage \cup {NoStage}]
      /\ status \in [Stage -> StageState]
      /\ lease \in [Stage -> {"none", "live", "expired"}]
      /\ output \in [Stage -> BOOLEAN]
      /\ \A v \in Worker : pc[v] = "idle" <=> held[v] = NoStage
      /\ WorkerStage \subseteq Stage /\ NoStage \notin WorkerStage
  BY ConstantsAssumption DEF LeaseInv, TypeOK, WorkerStage
<1>2. held[w] \in WorkerStage /\ disputed' = disputed /\ seenRows' = seenRows
  BY <1>1 DEF WorkerStep, Begin, CancelStage, Finish, AdvanceStage, RetryStage, MarkStageFailed,
              MarkRunBlocked, Crash, clientVars
<1>r. RowsRead'
  BY <1>2 DEF LeaseInv, LeaseParts, RowsRead
<1>3. CASE Begin(w) \/ Finish(w)
  BY <1>2, <1>r, <1>3 DEF Begin, Finish, stageVars, LeaseInv, LeaseParts, LeasedToHolder,
                          Undisputed, Exclusive, OutputsSettled, Kept
<1>4. CASE ~(Begin(w) \/ Finish(w))
  <2>1. /\ held' = [held EXCEPT ![w] = NoStage]
        /\ \A s \in Stage : s # held[w] =>
              status'[s] = status[s] /\ lease'[s] = lease[s] /\ output'[s] = output[s]
        /\ output'[held[w]] = output[held[w]] \/ status'[held[w]] = "completed"
    BY <1>1, <1>2, <1>4
       DEF WorkerStep, CancelStage, AdvanceStage, RetryStage, MarkStageFailed, MarkRunBlocked,
           Crash, Release, stageVars
  <2>2. \A v \in Worker : held'[v] # NoStage => held'[v] = held[v] /\ v # w
    BY <1>1, <1>2, <2>1
  <2>3. \A v \in Worker : Undisputed(held[v]) /\ v # w => held[v] # held[w]
    BY <1>2 DEF LeaseInv, LeaseParts, Exclusive, Undisputed
  <2>4. LeasedToHolder'
    BY <1>1, <1>2, <2>1, <2>2, <2>3 DEF LeaseInv, LeaseParts, LeasedToHolder, Undisputed
  <2>5. Exclusive'
    BY <1>2, <2>2 DEF LeaseInv, LeaseParts, Exclusive
  <2>6. OutputsSettled' /\ Kept
    <3>1. held[w] \notin disputed => status[held[w]] = "running"
      BY <1>1, <1>2 DEF LeaseInv, LeaseParts, LeasedToHolder, Undisputed
    <3>2. held[w] \notin disputed => ~output[held[w]]
      BY <1>2, <3>1 DEF LeaseInv, LeaseParts, OutputsSettled
    <3>3. held[w] \notin disputed => (output'[held[w]] => status'[held[w]] = "completed")
      BY <1>1, <1>2, <2>1, <3>2
    <3>4. QED
      BY <1>1, <1>2, <2>1, <3>1, <3>3 DEF LeaseInv, LeaseParts, OutputsSettled, Kept
  <2>7. QED
    BY <1>r, <2>4, <2>5, <2>6 DEF LeaseParts
<1>5. QED
  BY <1>3, <1>4

LEMMA LeaseExpire ==
  ASSUME LeaseInv, NEW s \in Stage, ExpireLease(s)
  PROVE  LeaseParts' /\ Kept
<1>1. /\ lease \in [Stage -> {"none", "live", "expired"}]
      /\ held \in [Worker -> WorkerStage \cup {NoStage}]
      /\ WorkerStage \subseteq Stage
  BY DEF LeaseInv, TypeOK, WorkerStage
<1>2. /\ lease' = [lease EXCEPT ![s] = "expired"] /\ disputed \subseteq disputed'
      /\ status' = status /\ output' = output /\ held' = held /\ seenRows' = seenRows
      /\ (\E w \in Worker : held[w] = s) => s \in disputed'
  BY DEF ExpireLease, workerVars, clientVars
<1>3. QED
  BY <1>1, <1>2 DEF LeaseInv, LeaseParts, LeasedToHolder, Undisputed, Exclusive, OutputsSettled,
                    RowsRead, Kept

LEMMA LeaseClientStep ==
  ASSUME LeaseInv, NEW c \in Client, ClientStep(c)
  PROVE  LeaseParts' /\ Kept
<1>1. /\ status \in [Stage -> StageState]
      /\ lease \in [Stage -> {"none", "live", "expired"}]
      /\ held \in [Worker -> WorkerStage \cup {NoStage}]
      /\ seenRows \in [Client -> [reset : SUBSET Stage, counted : SUBSET Stage,
                                 leased : SUBSET Stage]]
      /\ WorkerStage \subseteq Stage
  BY DEF LeaseInv, TypeOK, WorkerStage
<1>2. held' = held /\ output' = output /\ disputed \subseteq disputed'
  BY DEF ClientStep, Ask, CancelRun, ReadStages, RetryRun, StartReview, SaveContent, RejectRun,
         FinalizeRun, FailRequest, workerVars, stageVars
<1>r. RowsRead'
  <2>1. RowsRead
    BY DEF LeaseInv, LeaseParts
  <2>2. CASE ReadStages(c)
    BY <1>1, <2>1, <2>2 DEF ReadStages, RowsRead
  <2>3. CASE ~ReadStages(c)
    <3>1. seenRows' \in {seenRows, [seenRows EXCEPT ![c] = NothingSeen]}
      BY <2>3 DEF ClientStep, Ask, CancelRun, RetryRun, StartReview, SaveContent, RejectRun,
                  FinalizeRun, FailRequest, Answer, AnswerDecision, Leave, AnswerDecision, Leave
    <3>2. QED
      BY <1>1, <2>1, <3>1 DEF RowsRead, NothingSeen
  <2>4. QED
    BY <2>2, <2>3
<1>3. CASE RetryRun(c)
  <2>1. \A s \in Stage :
           \/ s \in disputed'
           \/ status'[s] = status[s] /\ lease'[s] = lease[s]
           \/ status[s] # "completed" /\ \A w \in Worker : held[w] # s
    <3>1. seenRows[c].leased \subseteq seenRows[c].reset
      BY DEF LeaseInv, LeaseParts, RowsRead
    <3>2. QED
      BY <1>1, <1>3, <3>1 DEF RetryRun
  <2>2. QED
    BY <1>1, <1>2, <1>r, <2>1 DEF LeaseInv, LeaseParts, LeasedToHolder, Undisputed, Exclusive,
                                  OutputsSettled, Kept
<1>4. CASE ~RetryRun(c)
  <2>1. disputed' = disputed
    BY <1>4 DEF ClientStep, Ask, CancelRun, ReadStages, StartReview, SaveContent, RejectRun,
                FinalizeRun, FailRequest
  <2>2. \A s \in Stage : \/ status'[s] = status[s] /\ lease'[s] = lease[s]
                         \/ status[s] \in {"pending", "retrying"}
                         \/ s = Finalized /\ status'[s] = "completed"
    BY <1>1, <1>4 DEF ClientStep, Ask, CancelRun, Unstarted, ReadStages, StartReview, SaveContent,
                      RejectRun, FinalizeRun, FailRequest, stageVars
  <2>3. QED
    BY <1>1, <1>2, <1>r, <2>1, <2>2 DEF LeaseInv, LeaseParts, LeasedToHolder, Undisputed,
                                        Exclusive, OutputsSettled, Kept, WorkerStage
<1>5. QED
  BY <1>3, <1>4

LEMMA LeaseNext == LeaseInv /\ [Next]_vars => LeaseInv' /\ Kept
<1> SUFFICES ASSUME LeaseInv, [Next]_vars PROVE LeaseInv' /\ Kept
  OBVIOUS
<1>1. TypeOK'
  BY TypeStep DEF LeaseInv
<1>2. CASE Next
  <2>1. LeaseParts' /\ Kept
    BY <1>2, LeaseClaim, LeaseWorkerStep, LeaseExpire, LeaseClientStep DEF Next
  <2>2. QED
    BY <1>1, <2>1 DEF LeaseInv
<1>3. CASE UNCHANGED vars
  BY <1>1, <1>3 DEF vars, stageVars, workerVars, clientVars, LeaseInv, LeaseParts, LeasedToHolder,
                    Undisputed, Exclusive, OutputsSettled, RowsRead, Kept
<1>4. QED
  BY <1>2, <1>3

LEMMA LeaseInit == Init => LeaseInv
  BY TypeInit, ConstantsAssumption DEF Init, LeaseInv, LeaseParts, LeasedToHolder, Undisputed,
     Exclusive, OutputsSettled, RowsRead, NothingSeen, WorkerStage

\* Two workers execute one stage only if its lease ran out under one of them or a
\* retry took it from one: nothing else in claim_next_stage, in the workers'
\* commits and in the requests of the API makes it so.
THEOREM HoldersExclude == Spec => []Exclusive
<1>1. LeaseInv => Exclusive
  BY DEF LeaseInv, LeaseParts
<1>2. QED
  BY <1>1, LeaseInit, LeaseNext, PTL DEF Spec

\* A stage that was never disputed is not run, reset, cancelled or failed again
\* once it is completed.
THEOREM CompletedIsKept == Spec => CompletedStays
<1>1. LeaseInv /\ [Next]_vars =>
        LeaseInv' /\ [\A s \in Stage : status[s] = "completed" /\ s \notin disputed'
                                         => status'[s] = "completed"]_vars
  BY LeaseNext DEF Kept
<1>2. QED
  BY <1>1, LeaseInit, PTL DEF Spec, CompletedStays

(***************************************************************************)
(* A decision is final but for the requests it overtook and for workers at *)
(* disputed stages.  The run has all its outputs by then, so the stages    *)
(* that are not disputed are completed and nobody executes them; and the   *)
(* only requests that pass their checks afterwards write the payload they  *)
(* loaded, which holds the decision.                                       *)
(***************************************************************************)
Decided == run \in {"finalized", "rejected"}

\* What a request may have loaded since the decision.
Fresh(c) == seenVerdict[c] = verdict \/ (seenVerdict[c] = "none" /\ verdict = "content")

OnlyContent ==
    Decided => \A c \in Client \ late :
        /\ req[c] \in {"none", "save_content"}
        /\ req[c] = "save_content" => Fresh(c)

FinalInv == QueueInv /\ LeaseInv /\ OnlyContent

SameDecision ==
    /\ run' = run
    /\ verdict' = verdict \/ (verdict = "none" /\ verdict' = "content")

\* Only a worker at a disputed stage still works on a run that was decided.
LEMMA DecidedHolders ==
  ASSUME FinalInv, Decided
  PROVE  \A w \in Worker : held[w] # NoStage => held[w] \in disputed
<1>1. \A s \in WorkerStage \ disputed : status[s] = "completed"
  BY DEF FinalInv, QueueInv, HumanGate, LeaseInv, LeaseParts, OutputsSettled, Decided
<1>2. \A w \in Worker : held[w] # NoStage => held[w] \in WorkerStage
  BY DEF FinalInv, LeaseInv, TypeOK
<1>3. QED
  BY <1>1, <1>2 DEF FinalInv, LeaseInv, LeaseParts, LeasedToHolder, Undisputed

LEMMA DecidedStep ==
  ASSUME FinalInv, Decided, [Next]_vars
  PROVE  \/ \E c \in late : req[c] # "none" /\ req'[c] = "none"
         \/ \E w \in Worker : held[w] \in disputed /\ held'[w] = NoStage
         \/ SameDecision
<1>0. /\ held \in [Worker -> WorkerStage \cup {NoStage}]
      /\ \A w \in Worker : pc[w] = "idle" <=> held[w] = NoStage
      /\ req \in [Client -> Request \cup {"none", "retry_write"}]
  BY DEF FinalInv, LeaseInv, TypeOK
<1>1. ASSUME NEW w \in Worker, WorkerStep(w) \/ Crash(w)
      PROVE  (held[w] \in disputed /\ held'[w] = NoStage) \/ SameDecision
  <2>1. held[w] \in disputed
    BY <1>0, <1>1, DecidedHolders
       DEF WorkerStep, Begin, CancelStage, Finish, AdvanceStage, RetryStage, MarkStageFailed,
           MarkRunBlocked, Crash
  <2>2. CASE Begin(w) \/ Finish(w)
    BY <2>2 DEF Begin, Finish, runVars, SameDecision
  <2>3. CASE ~(Begin(w) \/ Finish(w))
    <3>1. held' = [held EXCEPT ![w] = NoStage]
      BY <1>1, <2>3 DEF WorkerStep, CancelStage, AdvanceStage, RetryStage, MarkStageFailed,
                        MarkRunBlocked, Crash, Release
    <3>2. QED
      BY <1>0, <2>1, <3>1
  <2>4. QED
    BY <2>2, <2>3
<1>2. ASSUME NEW w \in Worker, NEW s \in Stage PROVE ~Claim(w, s)
  BY DEF Decided, Claim, Claimable, Active
<1>3. ASSUME NEW c \in Client, ClientStep(c)
      PROVE  (c \in late /\ req[c] # "none" /\ req'[c] = "none") \/ SameDecision
  <2>1. CASE \E op \in Ops : Ask(c, op)
    BY <2>1 DEF Ask, runVars, SameDecision
  <2>2. CASE ReadStages(c) \/ FailRequest(c)
    BY <2>2 DEF ReadStages, FailRequest, runVars, SameDecision
  <2>3. CASE \/ CancelRun(c) \/ RetryRun(c) \/ StartReview(c) \/ SaveContent(c)
             \/ RejectRun(c) \/ FinalizeRun(c)
    <3>1. req[c] # "none" /\ req' = [req EXCEPT ![c] = "none"]
      BY <2>3 DEF CancelRun, RetryRun, StartReview, SaveContent, RejectRun, FinalizeRun, Answer, AnswerDecision, Leave,
                  AnswerDecision, Leave
    <3>2. CASE c \in late
      BY <1>0, <3>1, <3>2
    <3>3. CASE c \notin late
      <4>1. req[c] \in {"none", "save_content"} /\ (req[c] = "save_content" => Fresh(c))
        BY <3>3 DEF FinalInv, OnlyContent
      <4>2. SaveContent(c) /\ Fresh(c)
        BY <2>3, <4>1 DEF CancelRun, RetryRun, StartReview, SaveContent, RejectRun, FinalizeRun
      <4>3. QED
        BY <4>2 DEF SaveContent, Fresh, SameDecision
    <3>4. QED
      BY <3>2, <3>3
  <2>4. QED
    BY <1>3, <2>1, <2>2, <2>3 DEF ClientStep
<1>4. ASSUME NEW s \in Stage, ExpireLease(s) PROVE SameDecision
  BY <1>4 DEF ExpireLease, runVars, SameDecision
<1>5. CASE UNCHANGED vars
  BY <1>5 DEF vars, runVars, SameDecision
<1>6. QED
  BY <1>1, <1>2, <1>3, <1>4, <1>5 DEF Next

\* Who decides makes the requests that are under way late; who writes afterwards
\* and is not late writes what it loaded.
LEMMA OnlyContentClient ==
  ASSUME FinalInv, NEW c \in Client, ClientStep(c)
  PROVE  OnlyContent'
<1>0. /\ req \in [Client -> Request \cup {"none", "retry_write"}]
      /\ seenVerdict \in [Client -> {"none", "content", "approved", "edited"}]
      /\ verdict \in {"none", "content", "approved", "edited"}
      /\ OnlyContent
  BY DEF FinalInv, LeaseInv, TypeOK
<1>1. ASSUME NEW op \in Ops, Ask(c, op) PROVE OnlyContent'
  <2>1. Decided => op = "save_content"
    BY <1>1, ConstantsAssumption DEF Decided, Ask, Allowed, Active, Request, Review
  <2>2. QED
    BY <1>0, <1>1, <2>1 DEF Ask, runVars, OnlyContent, Decided, Fresh
<1>2. CASE ReadStages(c) \/ FailRequest(c)
  <2>1. /\ run' = run /\ verdict' = verdict
        /\ late' \in {late, late \ {c}}
        /\ c \notin late' => c \notin late \/ req'[c] = "none"
        /\ \A d \in Client : d # c => req'[d] = req[d] /\ seenVerdict'[d] = seenVerdict[d]
        /\ req'[c] = "none" \/ (req[c] = "retry" /\ late' = late)
    BY <1>0, <1>2 DEF ReadStages, FailRequest, Answer, AnswerDecision, Leave, Leave, runVars
  <2>2. QED
    BY <1>0, <2>1 DEF OnlyContent, Decided, Fresh
<1>3. CASE CancelRun(c) \/ RetryRun(c) \/ StartReview(c)
  BY <1>3 DEF CancelRun, RetryRun, StartReview, OnlyContent, Decided
<1>4. CASE RejectRun(c) \/ FinalizeRun(c)
  <2>1. late' = Others(c) /\ req' = [req EXCEPT ![c] = "none"]
    BY <1>4 DEF RejectRun, FinalizeRun, AnswerDecision, Leave
  <2>2. \A d \in Client \ late' : req'[d] = "none"
    BY <1>0, <2>1 DEF Others
  <2>3. QED
    BY <2>2 DEF OnlyContent
<1>5. CASE SaveContent(c)
  <2>1. /\ run' = run /\ req' = [req EXCEPT ![c] = "none"]
        /\ seenVerdict' = [seenVerdict EXCEPT ![c] = "none"]
        /\ verdict' = IF seenVerdict[c] = "none" THEN "content" ELSE seenVerdict[c]
        /\ late' = IF c \in late THEN Others(c) ELSE late
    BY <1>5 DEF SaveContent, Leave
  <2>2. CASE c \in late
    <3>1. \A d \in Client \ late' : req'[d] = "none"
      BY <1>0, <2>1, <2>2 DEF Others
    <3>2. QED
      BY <3>1 DEF OnlyContent
  <2>3. CASE c \notin late /\ Decided
    <3>1. Fresh(c)
      BY <1>0, <1>5, <2>3 DEF OnlyContent, SaveContent
    <3>2. verdict' = verdict \/ (verdict = "none" /\ verdict' = "content")
      BY <2>1, <3>1 DEF Fresh
    <3>3. \A d \in Client \ late : d # c =>
             /\ req[d] \in {"none", "save_content"}
             /\ req[d] = "save_content" => Fresh(d)
      BY <1>0, <2>3 DEF OnlyContent
    <3>4. \A d \in Client \ late : d # c /\ Fresh(d) => Fresh(d)'
      BY <1>0, <2>1, <3>2 DEF Fresh
    <3>5. QED
      BY <1>0, <2>1, <2>3, <3>3, <3>4 DEF OnlyContent
  <2>4. CASE ~Decided
    BY <2>1, <2>4 DEF OnlyContent, Decided
  <2>5. QED
    BY <2>2, <2>3, <2>4
<1>6. QED
  BY <1>1, <1>2, <1>3, <1>4, <1>5 DEF ClientStep

LEMMA OnlyContentNext == FinalInv /\ [Next]_vars => OnlyContent'
<1> SUFFICES ASSUME FinalInv, [Next]_vars PROVE OnlyContent'
  OBVIOUS
<1>1. CASE \E c \in Client : ClientStep(c)
  BY <1>1, OnlyContentClient
<1>2. CASE ~\E c \in Client : ClientStep(c)
  <2>1. verdict' = verdict /\ req' = req /\ late' = late /\ seenVerdict' = seenVerdict
    BY <1>2 DEF Next, Claim, WorkerStep, Begin, CancelStage, Finish, AdvanceStage, RetryStage,
                MarkStageFailed, MarkRunBlocked, Crash, ExpireLease, vars, runVars, clientVars
  <2>2. Decided' => Decided
    BY <1>2 DEF Next, Decided, Claim, WorkerStep, Begin, CancelStage, Finish, AdvanceStage,
                RetryStage, MarkStageFailed, MarkRunBlocked, WriteRun, Crash, ExpireLease, vars,
                runVars
  <2>3. QED
    BY <2>1, <2>2 DEF FinalInv, OnlyContent, Fresh
<1>3. QED
  BY <1>1, <1>2

LEMMA FinalNext == FinalInv /\ [Next]_vars => FinalInv'
  BY QueueNext, LeaseNext, OnlyContentNext DEF FinalInv

LEMMA FinalInit == Init => FinalInv
<1>1. Init => OnlyContent
  BY DEF Init, OnlyContent, Decided
<1>2. QED
  BY <1>1, QueueInit, LeaseInit DEF FinalInv

\* A decision is neither undone nor replaced, but by a request it overtook or by
\* a worker that still executes a disputed stage, whoever crashes or asks.
THEOREM DecisionsAreFinal == Spec => DecisionFinal
<1>1. FinalInv /\ [Next]_vars =>
        [(run \in {"finalized", "rejected"}) =>
            \/ \E c \in late : req[c] # "none" /\ req'[c] = "none"
            \/ \E w \in Worker : held[w] \in disputed /\ held'[w] = NoStage
            \/ /\ run' = run
               /\ verdict' = verdict \/ (verdict = "none" /\ verdict' = "content")]_vars
  BY DecidedStep DEF Decided, SameDecision
<1>2. QED
  BY <1>1, FinalInit, FinalNext, PTL DEF Spec, DecisionFinal

(***************************************************************************)
(* Decisions.  A request may put back the payload it loaded, so that one   *)
(* has to come from a review or from a request that adds content, too.     *)
(***************************************************************************)
Given == {"none"} \cup reviews \cup (IF annotated THEN {"approved", "content"} ELSE {})

DecisionInv ==
    /\ DecisionRecorded
    /\ verdict \in Given
    /\ \A c \in Client : seenVerdict[c] \in Given

\* Nothing is ever taken back, and nothing else is written.
LEMMA DecisionKept ==
  ASSUME DecisionInv, Given \subseteq Given', verdict' = verdict, reviews' = reviews,
         annotated' = annotated,
         \A d \in Client : seenVerdict'[d] \in {seenVerdict[d], verdict, "none"},
         run' = run \/ run' \notin {"finalized", "rejected"}
  PROVE  DecisionInv'
<1>1. \A d \in Client : seenVerdict'[d] \in Given'
  BY DEF DecisionInv, Given
<1>2. DecisionRecorded'
  BY DEF DecisionInv, DecisionRecorded
<1>3. QED
  BY <1>1, <1>2 DEF DecisionInv

LEMMA DecisionWrite ==
  ASSUME TypeOK, DecisionInv, NEW c \in Client, SaveContent(c) \/ FinalizeRun(c) \/ RejectRun(c)
  PROVE  DecisionInv'
<1>1. /\ seenVerdict \in [Client -> {"none", "content", "approved", "edited"}]
      /\ verdict \in Given /\ seenVerdict[c] \in Given
      /\ \A d \in Client : seenVerdict[d] \in Given
  BY DEF TypeOK, DecisionInv
<1>2. /\ seenVerdict' = [seenVerdict EXCEPT ![c] = "none"]
      /\ Given \subseteq Given' /\ "none" \in Given'
  BY DEF SaveContent, FinalizeRun, RejectRun, AnswerDecision, Leave, Given
<1>3. \A d \in Client : seenVerdict'[d] \in Given'
  BY <1>1, <1>2
<1>4. CASE SaveContent(c)
  <2>1. /\ verdict' = IF seenVerdict[c] = "none" THEN "content" ELSE seenVerdict[c]
        /\ run' = run /\ reviews' = reviews /\ annotated' = TRUE
    BY <1>4 DEF SaveContent
  <2>2. "content" \in Given' /\ verdict' \in Given'
    BY <1>1, <1>2, <2>1 DEF Given
  <2>3. DecisionRecorded'
    BY <1>1, <2>1, <2>2 DEF DecisionInv, DecisionRecorded, Given
  <2>4. QED
    BY <1>3, <2>2, <2>3 DEF DecisionInv
<1>5. CASE FinalizeRun(c)
  <2>1. /\ verdict' = FinalVerdict(c) /\ reviews' = reviews \cup {req[c]}
        /\ run' = "finalized" /\ req[c] \in {"approved", "edited"} /\ annotated' = annotated
    BY <1>5 DEF FinalizeRun, AnswerDecision
  <2>2. CASE seenVerdict[c] = "none"
    BY <1>3, <2>1, <2>2 DEF FinalVerdict, DecisionInv, DecisionRecorded, Given
  <2>3. CASE seenVerdict[c] = "content"
    <3>1. annotated \/ "content" \in reviews
      BY <1>1, <2>3 DEF Given
    <3>2. reviews \subseteq Review
      BY DEF TypeOK
    <3>3. annotated = TRUE
      BY <3>1, <3>2 DEF Review, TypeOK
    <3>4. verdict' = "approved"
      BY <2>1, <2>3 DEF FinalVerdict
    <3>5. QED
      BY <1>3, <2>1, <3>3, <3>4 DEF DecisionInv, DecisionRecorded, Given
  <2>4. CASE seenVerdict[c] \in {"approved", "edited"}
    <3>1. verdict' = seenVerdict[c] /\ verdict' \in Given'
      BY <1>1, <1>2, <2>1, <2>4 DEF FinalVerdict
    <3>2. DecisionRecorded'
      BY <2>1, <2>4, <3>1 DEF DecisionRecorded, Given
    <3>3. QED
      BY <1>3, <3>1, <3>2 DEF DecisionInv
  <2>5. QED
    BY <1>1, <2>2, <2>3, <2>4
<1>6. CASE RejectRun(c)
  <2>1. /\ verdict' = verdict /\ reviews' = reviews \cup {"rejected"} /\ run' = "rejected"
        /\ annotated' = annotated
    BY <1>6 DEF RejectRun, AnswerDecision
  <2>2. DecisionRecorded'
    BY <2>1 DEF DecisionInv, DecisionRecorded
  <2>3. QED
    BY <1>1, <1>2, <1>3, <2>1, <2>2 DEF DecisionInv
<1>7. QED
  BY <1>4, <1>5, <1>6

LEMMA DecisionNext == TypeOK /\ DecisionInv /\ [Next]_vars => DecisionInv'
<1> SUFFICES ASSUME TypeOK, DecisionInv, [Next]_vars PROVE DecisionInv'
  OBVIOUS
<1>1. CASE \E c \in Client : SaveContent(c) \/ FinalizeRun(c) \/ RejectRun(c)
  BY <1>1, DecisionWrite
<1>2. CASE \E c \in Client : ClientStep(c) /\ ~(SaveContent(c) \/ FinalizeRun(c) \/ RejectRun(c))
  <2>1. PICK c \in Client : ClientStep(c) /\ ~(SaveContent(c) \/ FinalizeRun(c) \/ RejectRun(c))
    BY <1>2
  <2>2. seenVerdict \in [Client -> {"none", "content", "approved", "edited"}]
    BY DEF TypeOK
  <2>3. /\ verdict' = verdict /\ reviews' = reviews /\ annotated' = annotated
        /\ run' \in {run, "cancelled", "processing", "under_review"}
        /\ \A d \in Client : seenVerdict'[d] \in {seenVerdict[d], verdict, "none"}
    BY <2>1, <2>2 DEF ClientStep, Ask, CancelRun, ReadStages, RetryRun, StartReview, FailRequest,
                      Answer, Leave, runVars
  <2>4. Given \subseteq Given'
    BY <2>3 DEF Given
  <2>5. QED
    BY <2>3, <2>4, DecisionKept
<1>3. CASE ~\E c \in Client : ClientStep(c)
  <2>1. /\ verdict' = verdict /\ reviews' = reviews /\ annotated' = annotated
        /\ seenVerdict' = seenVerdict
    BY <1>3 DEF Next, Claim, WorkerStep, Begin, CancelStage, Finish, AdvanceStage, RetryStage,
                MarkStageFailed, MarkRunBlocked, Crash, ExpireLease, vars, runVars, clientVars
  <2>2. run' = run \/ run' \notin {"finalized", "rejected"}
    BY <1>3 DEF Next, Claim, WorkerStep, Begin, CancelStage, Finish, AdvanceStage,
                RetryStage, MarkStageFailed, MarkRunBlocked, WriteRun, Crash, ExpireLease, vars,
                runVars
  <2>3. Given \subseteq Given'
    BY <2>1 DEF Given
  <2>4. QED
    BY <2>1, <2>2, <2>3, DecisionKept
<1>4. QED
  BY <1>1, <1>2, <1>3

\* A verdict is one a reviewer gave, or the approval that is filled in for a
\* payload with content only, and a run is never closed as finalized or rejected
\* without a review that closes it so, however requests overlap.
THEOREM DecisionsRecorded == Spec => []DecisionRecorded
<1>1. Init => DecisionInv
  BY DEF Init, DecisionInv, DecisionRecorded, Given
<1>2. DecisionInv => DecisionRecorded
  BY DEF DecisionInv
<1>3. QED
  BY <1>1, <1>2, DecisionNext, TypeCorrect, PTL DEF Spec

(***************************************************************************)
(* The safety half of Progress: a run that is still in the queue never     *)
(* lacks a stage that some worker may take, at once or when a lease runs   *)
(* out.  What is left for fairness is that the worker takes it.            *)
(*                                                                         *)
(* A retry sets the run back to processing while stages, and workers that  *)
(* began earlier, may still be in a state from before, and can leave the   *)
(* run in the queue with nothing to take (a cancelled stage, a failed one  *)
(* that the retry did not see).  So the theorem is about the queue before  *)
(* anybody retries, and needs no other assumption.                         *)
(***************************************************************************)
NeverStranded ==
    run \in Active => \E s \in WorkerStage :
        /\ PredecessorsDone(s)
        /\ Available(s) \/ (status[s] = "running" /\ lease[s] = "live")

\* A stage waits without a lease, and runs under one.
Leased ==
    \A s \in Stage : /\ status[s] \in {"pending", "retrying"} => lease[s] = "none"
                     /\ status[s] = "running" => lease[s] # "none"

\* No stage of a run in the queue is given up, and the last one is not done.
Workable ==
    run \in Active =>
        /\ \A s \in WorkerStage : status[s] \in {"pending", "retrying", "running", "completed"}
        /\ status[AwaitReview] # "completed"

\* A set of stages has an earliest one.
LEMMA EarliestStage ==
  ASSUME NEW T, T \subseteq Stage, T # {}
  PROVE  \E s \in T : \A p \in T : ~(Order[p] < Order[s])
<1> DEFINE Orders == {Order[s] : s \in T}
           Less == OpToRel(<, Nat)
<1>1. Orders \subseteq Nat /\ Orders # {}
  BY ConstantsAssumption
<1>2. IsWellFoundedOn(Less, Nat)
  BY NatLessThanWellFounded
<1>3. PICK x \in Orders : \A y \in Orders : ~(<<y, x>> \in Less)
  <2> HIDE DEF Orders, Less
  <2> QED
    BY <1>1, <1>2, WFMin
<1>4. \A m, n \in Nat : m < n => <<m, n>> \in Less
  BY DEF OpToRel
<1>5. QED
  BY <1>1, <1>3, <1>4

LEMMA EarliestIsNext == TypeOK /\ Leased /\ Workable => NeverStranded
<1> SUFFICES ASSUME TypeOK, Leased, Workable, run \in Active
             PROVE  \E s \in WorkerStage :
                       /\ PredecessorsDone(s)
                       /\ Available(s) \/ (status[s] = "running" /\ lease[s] = "live")
  BY DEF NeverStranded
<1> DEFINE Open == {s \in WorkerStage : status[s] # "completed"}
<1>1. AwaitReview \in Open /\ Open \subseteq Stage
  BY ConstantsAssumption DEF Workable, WorkerStage
<1>2. PICK s \in Open : \A p \in Open : ~(Order[p] < Order[s])
  BY <1>1, EarliestStage
<1>3. PredecessorsDone(s)
  <2> SUFFICES ASSUME NEW p \in Stage, Order[p] < Order[s] PROVE status[p] = "completed"
    BY DEF PredecessorsDone, Before
  <2>1. Order[s] <= Order[AwaitReview]
    BY ConstantsAssumption DEF WorkerStage
  <2>2. p # Finalized
    BY <2>1, ConstantsAssumption DEF WorkerStage
  <2>3. QED
    BY <1>2, <2>2 DEF WorkerStage
<1>4. Available(s) \/ (status[s] = "running" /\ lease[s] = "live")
  BY DEF Workable, Leased, Available, TypeOK, WorkerStage
<1>5. QED
  BY <1>3, <1>4

(***************************************************************************)
(* Without retries: once a run has left the queue it stays out of it, so   *)
(* whoever works on a run that is in it began when it was.                 *)
(***************************************************************************)
Unretried == "retry" \notin Ops

UnretriedInv ==
    /\ TypeOK
    /\ Leased
    /\ Workable
    /\ run \in Active => \A w \in Worker : seenRun[w] \in Active
    /\ \A c \in Client : req[c] \notin {"retry", "retry_write"}

LEMMA UnretriedNext ==
  ASSUME Unretried, UnretriedInv, [Next]_vars
  PROVE  UnretriedInv'
<1> DEFINE BeganActive == run \in Active => \A w \in Worker : seenRun[w] \in Active
           NoReset == \A c \in Client : req[c] \notin {"retry", "retry_write"}
<1>0. /\ status \in [Stage -> StageState]
      /\ lease \in [Stage -> {"none", "live", "expired"}]
      /\ held \in [Worker -> WorkerStage \cup {NoStage}]
      /\ seenRun \in [Worker -> RunStatus]
      /\ req \in [Client -> Request \cup {"none", "retry_write"}]
      /\ \A w \in Worker : pc[w] = "idle" <=> held[w] = NoStage
      /\ WorkerStage \subseteq Stage /\ AwaitReview \in WorkerStage
      /\ Leased /\ Workable /\ BeganActive /\ NoReset
  BY ConstantsAssumption DEF UnretriedInv, TypeOK, WorkerStage
<1>1. TypeOK'
  BY TypeStep DEF UnretriedInv
<1>2. SUFFICES (Leased /\ Workable /\ BeganActive /\ NoReset)'
  BY <1>1 DEF UnretriedInv
<1> USE <1>0
<1>3. ASSUME NEW w \in Worker, NEW s \in Stage, Claim(w, s)
      PROVE  (Leased /\ Workable /\ BeganActive /\ NoReset)'
  <2>1. /\ status' = [status EXCEPT ![s] = "running"] /\ lease' = [lease EXCEPT ![s] = "live"]
        /\ run \in Active /\ seenRun' = seenRun /\ req' = req
    BY <1>3 DEF Claim, Claimable, clientVars
  <2>2. QED
    BY <2>1 DEF Leased, Workable
<1>4. ASSUME NEW w \in Worker, WorkerStep(w) \/ Crash(w)
      PROVE  (Leased /\ Workable /\ BeganActive /\ NoReset)'
  <2>0. held[w] \in WorkerStage /\ req' = req
    BY <1>4 DEF WorkerStep, Begin, CancelStage, Finish, AdvanceStage, RetryStage,
                MarkStageFailed, MarkRunBlocked, Crash, clientVars
  <2>1. CASE Begin(w) \/ Finish(w) \/ Crash(w)
    BY <2>0, <2>1 DEF Begin, Finish, Crash, Release, runVars, stageVars, Leased, Workable, Active
  <2>2. CASE CancelStage(w)
    BY <2>0, <2>2 DEF CancelStage, Release, runVars, Leased, Workable, Active
  <2>3. CASE AdvanceStage(w)
    <3>1. /\ status' = [status EXCEPT ![held[w]] = "completed"] /\ lease' = lease
          /\ seenRun' = [seenRun EXCEPT ![w] = "created"]
          /\ run' \in {run, "awaiting_human_review"}
          /\ held[w] = AwaitReview /\ run \in Active => run' = "awaiting_human_review"
      BY <2>0, <2>3 DEF AdvanceStage, Release, WriteRun, Active
    <3>2. QED
      BY <2>0, <3>1 DEF Leased, Workable, Active
  <2>4. CASE RetryStage(w)
    BY <2>0, <2>4 DEF RetryStage, Release, runVars, Leased, Workable, Active
  <2>5. CASE MarkStageFailed(w)
    <3>1. /\ status' = [status EXCEPT ![held[w]] = "failed"] /\ lease' = lease
          /\ run' \notin Active
      BY <2>0, <2>5 DEF MarkStageFailed, WriteRun, Active
    <3>2. QED
      BY <2>0, <3>1 DEF Leased, Workable
  <2>6. CASE MarkRunBlocked(w)
    <3>1. status' = status /\ lease' = lease /\ run' \notin Active
      BY <2>0, <2>6 DEF MarkRunBlocked, WriteRun, stageVars, Active
    <3>2. QED
      BY <2>0, <3>1 DEF Leased, Workable
  <2>7. QED
    BY <1>4, <2>1, <2>2, <2>3, <2>4, <2>5, <2>6 DEF WorkerStep
<1>5. ASSUME NEW s \in Stage, ExpireLease(s)
      PROVE  (Leased /\ Workable /\ BeganActive /\ NoReset)'
  BY <1>5 DEF ExpireLease, runVars, workerVars, clientVars, Leased, Workable
<1>6. ASSUME NEW c \in Client, ClientStep(c)
      PROVE  (Leased /\ Workable /\ BeganActive /\ NoReset)'
  <2>1. ~ReadStages(c) /\ ~RetryRun(c)
    BY DEF ReadStages, RetryRun
  <2>2. seenRun' = seenRun
    BY <1>6 DEF ClientStep, Ask, CancelRun, ReadStages, RetryRun, StartReview, SaveContent, RejectRun,
                FinalizeRun, FailRequest, workerVars
  <2>3. NoReset'
    <3>1. CASE \E op \in Ops : Ask(c, op)
      BY <3>1, ConstantsAssumption DEF Ask, Unretried, Request, Review
    <3>2. CASE ~\E op \in Ops : Ask(c, op)
      <4>1. req' = [req EXCEPT ![c] = "none"]
        BY <1>6, <2>1, <3>2 DEF ClientStep, CancelRun, StartReview, SaveContent, RejectRun, FinalizeRun,
                                FailRequest, Answer, AnswerDecision, Leave
      <4>2. QED
        BY <4>1
    <3>3. QED
      BY <3>1, <3>2
  <2>4. \/ run' \notin Active
        \/ run' = run /\ status' = status
    BY <1>6, <2>1 DEF ClientStep, Ask, CancelRun, StartReview, SaveContent, RejectRun, FinalizeRun,
                      FailRequest, runVars, stageVars, Active
  <2>5. \A s \in Stage : \/ status'[s] = status[s] /\ lease'[s] = lease[s]
                         \/ status'[s] \in {"cancelled", "completed"}
    BY <1>6, <2>1 DEF ClientStep, Ask, CancelRun, StartReview, SaveContent, RejectRun, FinalizeRun,
                      FailRequest, stageVars
  <2>6. QED
    BY <2>2, <2>3, <2>4, <2>5 DEF Leased, Workable
<1>7. CASE UNCHANGED vars
  BY <1>7 DEF vars, runVars, stageVars, workerVars, clientVars, Leased, Workable
<1>8. QED
  BY <1>3, <1>4, <1>5, <1>6, <1>7 DEF Next

LEMMA UnretriedInit == Init => UnretriedInv
<1>1. Init => Leased /\ Workable
  BY ConstantsAssumption DEF Init, Leased, Workable, WorkerStage
<1>2. QED
  BY <1>1, TypeInit DEF Init, UnretriedInv, Active

\* Whatever leases run out, workers die and requests overlap: unless somebody
\* retries, a run in the queue always has a stage that claim_next_stage takes, or
\* will when its lease runs out.
THEOREM UnretriedNeverStranded ==
  ASSUME Unretried
  PROVE  Spec => []NeverStranded
<1>1. UnretriedInv => NeverStranded
  BY EarliestIsNext DEF UnretriedInv
<1>2. UnretriedInv /\ [Next]_vars => UnretriedInv'
  BY UnretriedNext
<1>3. QED
  BY <1>1, <1>2, UnretriedInit, PTL DEF Spec
=============================================================================
