------------------------------ MODULE StageQueue ------------------------------
(***************************************************************************)
(* The durable stage queue of one contract-review run: the rows of the     *)
(* tables runs and stage_executions, the worker processes that claim and   *)
(* execute stages (worker.py, orchestration/state_machine.py), and the API *)
(* requests that cancel, retry and review the run (routes/contracts.py,    *)
(* services/run_service.py).                                               *)
(*                                                                         *)
(* A step is a committed transaction, or a read whose result a later step  *)
(* uses.  A worker executes a stage in ONE transaction that lasts as long  *)
(* as the language-model calls, and the API handlers read, then write      *)
(* without a lock, so both are split at the points where they read.        *)
(***************************************************************************)
EXTENDS Naturals, FiniteSets

CONSTANTS
    Worker,          \* worker processes
    Client,          \* API requests that can be in flight together
    Stage,           \* the run's rows in stage_executions
    NoStage,         \* what an idle worker holds
    Order,           \* stage_order of every stage
    AwaitReview,     \* the stage "awaiting_human_review"
    Finalized,       \* the stage "finalized", which no worker executes
    Fallible,        \* the stages whose body can raise into retry_stage
    Blocking,        \* the stages whose body can call mark_run_blocked
    MaxRetries,      \* stage_executions.max_retries
    Ops,             \* the requests users make
    LeaseCoversWork, \* TRUE: no stage outlasts its lease
    MaxCalls,        \* bound: API requests
    MaxFaults        \* bound: worker crashes, and leases lost while working

Review == {"approved", "edited", "rejected"}
Request == {"cancel", "retry", "start_review", "save_content"} \cup Review

ASSUME ConstantsAssumption ==
    /\ NoStage \notin Stage
    /\ Order \in [Stage -> Nat]
    /\ AwaitReview \in Stage
    /\ Finalized \in Stage \ {AwaitReview}
    /\ \A s \in Stage \ {AwaitReview, Finalized} : Order[s] < Order[AwaitReview]
    /\ Order[AwaitReview] < Order[Finalized]
    /\ MaxRetries \in Nat
    /\ MaxCalls \in Nat
    /\ MaxFaults \in Nat
    /\ Ops \subseteq Request
    /\ LeaseCoversWork \in BOOLEAN

VARIABLES
    run,       \* runs.status
    status,    \* stage_executions.status
    lease,     \* stage_executions.lease_expires_at, against the clock
    retries,   \* stage_executions.retry_count
    output,    \* is stage_executions.structured_output set?
    reviews,   \* the actions of the run-level rows of human_reviews
    verdict,   \* runs.verdict_payload: "none" when it is null, its human_action,
               \* or "content" when it holds something else and no human_action
    pc,        \* where a worker is in its loop
    held,      \* the stage a worker executes
    seenRun,   \* runs.status as cached in a worker's session
    seenCount, \* retry_count as cached in a worker's session
    req,       \* the request a client has in flight, past its status check
    seenRows,  \* what a retry request read of the stages
    seenVerdict, \* the verdict_payload of the run a request loaded
    calls,     \* requests made so far
    faults,    \* crashes and lost leases so far
    disputed,  \* history: stages taken from under a worker, or reset when completed
    late,      \* history: requests that loaded the run before its latest decision,
               \* or before such a request wrote over that decision
    annotated  \* history: did a request put content into verdict_payload?

runVars    == <<run, reviews, verdict>>
stageVars  == <<status, lease, retries, output>>
workerVars == <<pc, held, seenRun, seenCount>>
clientVars == <<req, seenRows, seenVerdict, calls, late, annotated>>
vars == <<runVars, stageVars, workerVars, clientVars, faults, disputed>>

RunStatus == {"created", "processing", "awaiting_human_review", "under_review",
              "finalized", "rejected", "failed", "blocked", "cancelled"}
StageState == {"pending", "running", "retrying", "completed", "failed", "cancelled"}
Active == {"created", "processing"}

\* The stages workers execute: claim_next_stage leaves "finalized" alone.
WorkerStage == Stage \ {Finalized}

Before(s) == {p \in Stage : Order[p] < Order[s]}

NothingSeen == [reset |-> {}, counted |-> {}, leased |-> {}]

-----------------------------------------------------------------------------
\* create_run inserts the run and one pending row per stage.
Init ==
    /\ run = "created"
    /\ reviews = {}
    /\ verdict = "none"
    /\ status = [s \in Stage |-> "pending"]
    /\ lease = [s \in Stage |-> "none"]
    /\ retries = [s \in Stage |-> 0]
    /\ output = [s \in Stage |-> FALSE]
    /\ pc = [w \in Worker |-> "idle"]
    /\ held = [w \in Worker |-> NoStage]
    /\ seenRun = [w \in Worker |-> "created"]
    /\ seenCount = [w \in Worker |-> 0]
    /\ req = [c \in Client |-> "none"]
    /\ seenRows = [c \in Client |-> NothingSeen]
    /\ seenVerdict = [c \in Client |-> "none"]
    /\ calls = 0
    /\ faults = 0
    /\ disputed = {}
    /\ late = {}
    /\ annotated = FALSE

-----------------------------------------------------------------------------
(***************************************************************************)
(* Workers.  The claim locks the run row and the stage row and commits, so *)
(* it is one step.  SKIP LOCKED lets it pass over a row another            *)
(* transaction is writing, hence any claimable stage may be the one taken. *)
(***************************************************************************)
\* Mutants: the lease of a running stage is not looked at; an abandoned stage
\* is not taken over.
LeaseIgnored(s) ==
    \/ status[s] \in {"pending", "retrying"} /\ lease[s] \in {"none", "expired"}
    \/ status[s] = "running"

NotReclaimed(s) ==
    status[s] \in {"pending", "retrying"} /\ lease[s] \in {"none", "expired"}

Available(s) ==
    \/ status[s] \in {"pending", "retrying"} /\ lease[s] \in {"none", "expired"}
    \/ status[s] = "running" /\ lease[s] = "expired"

\* Mutants: a predecessor that was started, or that has ended, will do.
PredecessorsStarted(s) == \A p \in Before(s) : status[p] \notin {"pending", "retrying"}
PredecessorsEnded(s) == \A p \in Before(s) : status[p] \in {"completed", "failed"}

PredecessorsDone(s) == \A p \in Before(s) : status[p] = "completed"

Claimable(s) ==
    /\ s \in WorkerStage
    /\ run \in Active
    /\ Available(s)
    /\ PredecessorsDone(s)

\* claim_next_stage.  Taking over a running stage counts as a retry, with no
\* regard to MaxRetries.
Claim(w, s) ==
    /\ pc[w] = "idle"
    /\ Claimable(s)
    /\ retries' = [retries EXCEPT ![s] = IF status[s] = "running" THEN @ + 1 ELSE @]
    /\ status' = [status EXCEPT ![s] = "running"]
    /\ lease' = [lease EXCEPT ![s] = "live"]
    /\ run' = "processing"
    /\ pc' = [pc EXCEPT ![w] = "claimed"]
    /\ held' = [held EXCEPT ![w] = s]
    /\ seenCount' = [seenCount EXCEPT ![w] = retries'[s]]
    /\ UNCHANGED <<output, reviews, verdict, seenRun, clientVars, faults, disputed>>

\* Mutant: the worker forgets to let go of its stage.
KeepHeld(w) ==
    /\ pc' = [pc EXCEPT ![w] = "idle"]
    /\ seenRun' = [seenRun EXCEPT ![w] = "created"]
    /\ seenCount' = [seenCount EXCEPT ![w] = 0]
    /\ UNCHANGED held

Release(w) ==
    /\ pc' = [pc EXCEPT ![w] = "idle"]
    /\ held' = [held EXCEPT ![w] = NoStage]
    /\ seenRun' = [seenRun EXCEPT ![w] = "created"]
    /\ seenCount' = [seenCount EXCEPT ![w] = 0]

\* execute_stage loads stage.run into its session, where it stays until the
\* next commit, and checks the run's status in the database.
Begin(w) ==
    /\ pc[w] = "claimed"
    /\ run # "cancelled"
    /\ pc' = [pc EXCEPT ![w] = "body"]
    /\ seenRun' = [seenRun EXCEPT ![w] = run]
    /\ UNCHANGED <<runVars, stageVars, held, seenCount, clientVars, faults, disputed>>

\* execute_stage, _abort_if_cancelled and advance_stage when their fresh read
\* finds the run cancelled.
CancelStage(w) ==
    /\ pc[w] \in {"claimed", "body"}
    /\ run = "cancelled"
    /\ status' = [status EXCEPT ![held[w]] = "cancelled"]
    /\ Release(w)
    /\ UNCHANGED <<runVars, lease, retries, output, clientVars, faults, disputed>>

\* The body is done, and advance_stage has read that the run is not cancelled.
Finish(w) ==
    /\ pc[w] = "body"
    /\ run # "cancelled"
    /\ pc' = [pc EXCEPT ![w] = "advancing"]
    /\ UNCHANGED <<runVars, stageVars, held, seenRun, seenCount, clientVars, faults, disputed>>

\* The session writes a column only when it changes the value it has cached.
WriteRun(w, new) == run' = IF seenRun[w] = new THEN run ELSE new

\* advance_stage commits, whoever owns the stage by now.
AdvanceStage(w) ==
    /\ pc[w] = "advancing"
    /\ status' = [status EXCEPT ![held[w]] = "completed"]
    /\ output' = [output EXCEPT ![held[w]] = TRUE]
    /\ IF held[w] = AwaitReview /\ seenRun[w] # "cancelled"
       THEN WriteRun(w, "awaiting_human_review")
       ELSE run' = run
    /\ Release(w)
    /\ UNCHANGED <<reviews, verdict, lease, retries, clientVars, faults, disputed>>

\* retry_stage, below the cap.
RetryStage(w) ==
    /\ pc[w] = "body"
    /\ held[w] \in Fallible
    /\ seenCount[w] + 1 < MaxRetries
    /\ retries' = [retries EXCEPT ![held[w]] = seenCount[w] + 1]
    /\ status' = [status EXCEPT ![held[w]] = "retrying"]
    /\ lease' = [lease EXCEPT ![held[w]] = "none"]
    /\ Release(w)
    /\ UNCHANGED <<runVars, output, clientVars, faults, disputed>>

\* retry_stage at the cap: mark_stage_failed.
MarkStageFailed(w) ==
    /\ pc[w] = "body"
    /\ held[w] \in Fallible
    /\ seenCount[w] + 1 >= MaxRetries
    /\ retries' = [retries EXCEPT ![held[w]] = seenCount[w] + 1]
    /\ status' = [status EXCEPT ![held[w]] = "failed"]
    /\ IF seenRun[w] # "cancelled" THEN WriteRun(w, "failed") ELSE run' = run
    /\ Release(w)
    /\ UNCHANGED <<reviews, verdict, lease, output, clientVars, faults, disputed>>

\* mark_run_blocked leaves the stage running under its lease.
MarkRunBlocked(w) ==
    /\ pc[w] = "body"
    /\ held[w] \in Blocking
    /\ WriteRun(w, "blocked")
    /\ Release(w)
    /\ UNCHANGED <<reviews, verdict, stageVars, clientVars, faults, disputed>>

\* The process dies, or its commit fails and the session is closed: the
\* transaction is rolled back and the stage stays running under its lease.
Crash(w) ==
    /\ pc[w] # "idle"
    /\ faults < MaxFaults
    /\ faults' = faults + 1
    /\ Release(w)
    /\ UNCHANGED <<runVars, stageVars, clientVars, disputed>>

\* Time passes.  Nothing renews a lease, so it can run out under a worker.
ExpireLease(s) ==
    /\ lease[s] = "live"
    /\ lease' = [lease EXCEPT ![s] = "expired"]
    /\ IF \E w \in Worker : held[w] = s
       THEN /\ ~LeaseCoversWork /\ faults < MaxFaults
            /\ faults' = faults + 1
            /\ disputed' = disputed \cup {s}
       ELSE UNCHANGED <<faults, disputed>>
    /\ UNCHANGED <<runVars, status, retries, output, workerVars, clientVars>>

-----------------------------------------------------------------------------
(***************************************************************************)
(* API requests: a read that checks the run's status, then the writes.     *)
(***************************************************************************)
\* Mutants: a run can be cancelled as long as it is not; a run that is still
\* processing can be reviewed.
CancelAlways(op) ==
    CASE op = "cancel"       -> RunStatus \ {"cancelled"}
      [] op = "retry"        -> {"failed", "blocked"}
      [] op = "start_review" -> {"awaiting_human_review"}
      [] op = "save_content" -> RunStatus
      [] OTHER               -> {"awaiting_human_review", "under_review"}

ReviewEarly(op) ==
    CASE op = "cancel"       -> Active
      [] op = "retry"        -> {"failed", "blocked"}
      [] op = "start_review" -> {"awaiting_human_review"}
      [] op = "save_content" -> RunStatus
      [] OTHER               -> {"processing", "awaiting_human_review", "under_review"}

Allowed(op) ==
    CASE op = "cancel"       -> Active
      [] op = "retry"        -> {"failed", "blocked"}
      [] op = "start_review" -> {"awaiting_human_review"}
      [] op = "save_content" -> RunStatus
      [] OTHER               -> {"awaiting_human_review", "under_review"}

\* The handler loads the run and passes its status check (else it answers 409).
Ask(c, op) ==
    /\ req[c] = "none"
    /\ calls < MaxCalls
    /\ run \in Allowed(op)
    /\ req' = [req EXCEPT ![c] = op]
    /\ seenVerdict' = [seenVerdict EXCEPT ![c] = verdict]
    /\ calls' = calls + 1
    /\ UNCHANGED <<runVars, stageVars, workerVars, seenRows, faults, disputed, late, annotated>>

Leave(c) ==
    /\ req' = [req EXCEPT ![c] = "none"]
    /\ seenRows' = [seenRows EXCEPT ![c] = NothingSeen]
    /\ seenVerdict' = [seenVerdict EXCEPT ![c] = "none"]
    /\ UNCHANGED calls

Answer(c) ==
    /\ Leave(c)
    /\ late' = late \ {c}
    /\ UNCHANGED annotated

Others(c) == {d \in Client \ {c} : req[d] # "none"}

\* The answer to a decision: the requests that are left loaded the run before it.
AnswerDecision(c) ==
    /\ Leave(c)
    /\ late' = Others(c)
    /\ UNCHANGED annotated

\* Mutant: every stage that no worker executes is cancelled.
NotRunning == {s \in Stage : status[s] # "running"}

Unstarted == {s \in Stage : status[s] \in {"pending", "retrying"}}

\* cancel_run.  Its query for the stages flushes the new run status first, so
\* the run row is locked from that query to the commit: one step.
CancelRun(c) ==
    /\ req[c] = "cancel"
    /\ run' = "cancelled"
    /\ status' = [s \in Stage |-> IF s \in Unstarted THEN "cancelled" ELSE status[s]]
    /\ lease' = [s \in Stage |-> IF s \in Unstarted THEN "none" ELSE lease[s]]
    /\ Answer(c)
    /\ UNCHANGED <<reviews, verdict, retries, output, workerVars, faults, disputed>>

\* retry_run reads the stages...
ReadStages(c) ==
    /\ req[c] = "retry"
    /\ req' = [req EXCEPT ![c] = "retry_write"]
    /\ LET hit == {s \in Stage : status[s] \in {"failed", "running"}}
       IN  seenRows' = [seenRows EXCEPT ![c] =
               [reset   |-> hit,
                counted |-> {s \in hit : retries[s] # 0},
                leased  |-> {s \in hit : lease[s] # "none"}]]
    /\ UNCHANGED <<runVars, stageVars, workerVars, seenVerdict, calls, faults, disputed, late,
                   annotated>>

\* ...and writes, whatever happened to them since.
RetryRun(c) ==
    /\ req[c] = "retry_write"
    /\ run' = "processing"
    /\ status' = [s \in Stage |-> IF s \in seenRows[c].reset THEN "pending" ELSE status[s]]
    /\ retries' = [s \in Stage |-> IF s \in seenRows[c].counted THEN 0 ELSE retries[s]]
    /\ lease' = [s \in Stage |-> IF s \in seenRows[c].leased THEN "none" ELSE lease[s]]
    /\ disputed' = disputed \cup {s \in seenRows[c].reset :
                                    status[s] = "completed" \/ \E w \in Worker : held[w] = s}
    /\ Answer(c)
    /\ UNCHANGED <<reviews, verdict, output, workerVars, faults>>

StartReview(c) ==
    /\ req[c] = "start_review"
    /\ run' = "under_review"
    /\ Answer(c)
    /\ UNCHANGED <<reviews, verdict, stageVars, workerVars, faults, disputed>>

\* save_editor_content, and accept_finding and dismiss_finding on a finding that
\* has no row: the payload that was loaded, with something added, is written back.
SaveContent(c) ==
    /\ req[c] = "save_content"
    /\ verdict' = IF seenVerdict[c] = "none" THEN "content" ELSE seenVerdict[c]
    /\ annotated' = TRUE
    /\ Leave(c)
    /\ late' = IF c \in late THEN Others(c) ELSE late
    /\ UNCHANGED <<run, reviews, stageVars, workerVars, faults, disputed>>

\* submit_human_review with a rejection.
RejectRun(c) ==
    /\ req[c] = "rejected"
    /\ reviews' = reviews \cup {"rejected"}
    /\ run' = "rejected"
    /\ AnswerDecision(c)
    /\ UNCHANGED <<verdict, stageVars, workerVars, faults, disputed>>

\* Mutant: the verdict always says "approved".
AlwaysApproved(c) == "approved"

\* _build_final_verdict takes a payload that is not null for the verdict, and one
\* without a human_action for an approval.
FinalVerdict(c) ==
    CASE seenVerdict[c] = "none"    -> req[c]
      [] seenVerdict[c] = "content" -> "approved"
      [] OTHER                      -> seenVerdict[c]

\* submit_human_review with an approval, and finalize_run_if_approved, in one
\* transaction: the status "processing" in between is never committed.
FinalizeRun(c) ==
    /\ req[c] \in {"approved", "edited"}
    /\ reviews' = reviews \cup {req[c]}
    /\ run' = "finalized"
    /\ verdict' = FinalVerdict(c)
    /\ status' = [status EXCEPT ![Finalized] = "completed"]
    /\ AnswerDecision(c)
    /\ UNCHANGED <<lease, retries, output, workerVars, faults, disputed>>

\* The request fails after its check and its transaction is rolled back.
FailRequest(c) ==
    /\ req[c] # "none"
    /\ Answer(c)
    /\ UNCHANGED <<runVars, stageVars, workerVars, faults, disputed>>

-----------------------------------------------------------------------------
\* What a worker does with the stage it holds.
WorkerStep(w) ==
    \/ Begin(w)
    \/ CancelStage(w)
    \/ Finish(w)
    \/ AdvanceStage(w)
    \/ RetryStage(w)
    \/ MarkStageFailed(w)
    \/ MarkRunBlocked(w)

ClientStep(c) ==
    \/ \E op \in Ops : Ask(c, op)
    \/ CancelRun(c)
    \/ ReadStages(c)
    \/ RetryRun(c)
    \/ StartReview(c)
    \/ SaveContent(c)
    \/ RejectRun(c)
    \/ FinalizeRun(c)
    \/ FailRequest(c)

Next ==
    \/ \E w \in Worker, s \in Stage : Claim(w, s)
    \/ \E w \in Worker : WorkerStep(w) \/ Crash(w)
    \/ \E s \in Stage : ExpireLease(s)
    \/ \E c \in Client : ClientStep(c)

Spec == Init /\ [][Next]_vars

\* run_worker_loop polls for ever, a stage's body ends (it has timeouts), and
\* time passes.  Users owe nothing.
Fairness ==
    /\ \A w \in Worker : WF_vars(WorkerStep(w))
    /\ \A w \in Worker : WF_vars(\E s \in Stage : Claim(w, s))
    /\ \A s \in Stage : WF_vars(ExpireLease(s))

FairSpec == Spec /\ Fairness

-----------------------------------------------------------------------------
(***************************************************************************)
(* Properties.                                                             *)
(***************************************************************************)

\* Every variable has the type its column or attribute has.
TypeOK ==
    /\ run \in RunStatus
    /\ reviews \subseteq Review
    /\ verdict \in {"none", "content", "approved", "edited"}
    /\ status \in [Stage -> StageState]
    /\ lease \in [Stage -> {"none", "live", "expired"}]
    /\ retries \in [Stage -> Nat]
    /\ output \in [Stage -> BOOLEAN]
    /\ pc \in [Worker -> {"idle", "claimed", "body", "advancing"}]
    /\ held \in [Worker -> WorkerStage \cup {NoStage}]
    /\ \A w \in Worker : pc[w] = "idle" <=> held[w] = NoStage
    /\ seenRun \in [Worker -> RunStatus]
    /\ seenCount \in [Worker -> Nat]
    /\ req \in [Client -> Request \cup {"none", "retry_write"}]
    /\ seenRows \in [Client -> [reset   : SUBSET Stage,
                               counted : SUBSET Stage,
                               leased  : SUBSET Stage]]
    /\ seenVerdict \in [Client -> {"none", "content", "approved", "edited"}]
    /\ calls \in Nat
    /\ faults \in Nat
    /\ disputed \subseteq Stage
    /\ late \subseteq Client
    /\ annotated \in BOOLEAN

\* A stage that is being executed, was executed or is to be executed again
\* found the outputs of all the stages before it: what _stage_output returns to
\* the review blocks and to the merge is there, whatever leases ran out, workers
\* died and retries reset the stages in between.
InputsReady ==
    \A s \in WorkerStage :
        (output[s] \/ status[s] \in {"running", "retrying", "completed", "failed"})
            => \A p \in Before(s) \cap WorkerStage : output[p]

\* Nobody reviews, and nobody has decided, a run some stage of which never
\* produced its output (submit_human_review trusts runs.status alone).
HumanGate ==
    run \in {"awaiting_human_review", "under_review", "finalized", "rejected"}
        => \A s \in WorkerStage : output[s]

\* The recorded verdict is one a reviewer gave, or the "approved" that
\* _build_final_verdict fills in when the editor or a finding's button had put
\* content into the payload; a finalized run was approved, with edits or without,
\* and a rejected run was rejected, whatever requests overlapped
\* (submit_human_review, finalize_run_if_approved).
DecisionRecorded ==
    /\ verdict \in {"approved", "edited"}
           => verdict \in reviews \/ (verdict = "approved" /\ annotated)
    /\ run = "finalized" => verdict # "none" /\ reviews \cap {"approved", "edited"} # {}
    /\ run = "rejected" => "rejected" \in reviews

\* The lease protocol, with leases that run out under workers and retries that
\* reset what is being executed: two workers execute the same stage only if its
\* lease ran out under one of them or a retry took it from one.  Crashes,
\* take-overs, cancellations and failures alone never make it so.
Exclusive ==
    \A v, w \in Worker : held[v] = held[w] /\ held[v] \notin disputed \cup {NoStage} => v = w

\* A completed stage stays completed, so that its findings are saved once,
\* unless its lease ran out under a worker or a retry reset it meanwhile.
CompletedStays ==
    [][\A s \in Stage : status[s] = "completed" /\ s \notin disputed'
                            => status'[s] = "completed"]_vars

\* A decision, once taken, is neither undone nor replaced, except by a request
\* that had loaded the run before it and writes after it, or by a worker that
\* still executes a disputed stage.  A rejected run may get a payload, but not a
\* verdict.
DecisionFinal ==
    [][(run \in {"finalized", "rejected"}) =>
          \/ \E c \in late : req[c] # "none" /\ req'[c] = "none"
          \/ \E w \in Worker : held[w] \in disputed /\ held'[w] = NoStage
          \/ /\ run' = run
             /\ verdict' = verdict \/ (verdict = "none" /\ verdict' = "content")]_vars

\* Cancelling a run is final: a worker that was busy does not revive it.
CancelFinal == [][run = "cancelled" => run' = "cancelled"]_vars

\* A run leaves the queue: it reaches the reviewers, fails, blocks or is
\* cancelled, rather than stay in processing with nothing any worker can claim.
Progress == (run \in Active) ~> (run \notin Active)

\* The queue implements the pipeline: outputs appear in order and are never
\* withdrawn, and every decision is taken with all of them in place.
Pipeline == INSTANCE ReviewPipeline WITH
    Stage     <- WorkerStage,
    Order     <- Order,
    Decision  <- Review,
    produced  <- {s \in WorkerStage : output[s]},
    decisions <- reviews

ImplementsPipeline == Pipeline!Spec
=============================================================================
