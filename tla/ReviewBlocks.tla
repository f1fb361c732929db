----------------------------- MODULE ReviewBlocks -----------------------------
(***************************************************************************)
(* How the findings of one run come to be: Harvey's panel, Kira's worker   *)
(* and panel, Kira's validator and Admin's merge (the bodies of            *)
(* execute_stage in orchestration/state_machine.py, agents/reviewer.py,    *)
(* agents/validator.py, agents/admin.py).                                  *)
(*                                                                         *)
(* An execution keeps what it found in memory and stores output and rows   *)
(* in one commit.  The queue may execute a block again, and by two workers *)
(* at once (StageQueue), so what is stored is the work of several          *)
(* executions.  What the language models find, and how the members of a    *)
(* panel vote, is left open.                                               *)
(***************************************************************************)
EXTENDS Naturals, FiniteSets

CONSTANTS
    Worker,        \* processes that execute blocks
    Issue,         \* what a finding can say, and of which clause
    TypeOf,        \* the clause and issue type of what a finding says
    HarveyReports, \* what the analyses of the three Harveys can find
    KiraReports,   \* what an analysis or a revision of Kira's worker can find
    MaxRounds,     \* _HARVEY_MAX_ITERATIONS, _KIRA_MAX_ITERATIONS
    MaxExecutions  \* bound: executions

ASSUME BlocksAssumption ==
    /\ HarveyReports \subseteq [1 .. 3 -> SUBSET Issue]
    /\ KiraReports \subseteq SUBSET Issue
    /\ MaxRounds \in Nat \ {0}
    /\ MaxExecutions \in Nat

VARIABLES
    work,    \* the execution in a worker's memory
    started, \* executions so far
    rows,    \* the table findings
    output   \* stage_executions.structured_output of each block

vars == <<work, started, rows, output>>

Block == {"harvey", "kira", "admin"}
Member == 1 .. 3

\* A finding is known by who found it, and when; Admin's copy of its row is
\* another row.
Finding == [block : {"harvey", "kira"}, exec : Nat, round : Nat, who : Member, issue : Issue, copy : Nat]

Execution(b, n, step, round, out) ==
    [block |-> b, exec |-> n, step |-> step, round |-> round,
     out |-> out, best |-> {}, votes |-> {}, reported |-> FALSE]

NoWork == Execution("none", 0, "idle", 0, {})

\* Whether any round of the execution found something is history.
NoOutput == [stored |-> FALSE, findings |-> {}, passed |-> FALSE, reported |-> FALSE]

Init ==
    /\ work = [w \in Worker |-> NoWork]
    /\ started = 0
    /\ rows = {}
    /\ output = [b \in Block |-> NoOutput]

-----------------------------------------------------------------------------
\* AdminMergeAgent's findings are those of the two blocks, whatever the model
\* answers.
BranchFindings == output["harvey"].findings \cup output["kira"].findings

\* Admin reads what the other two have stored.
Begin(w, b) ==
    /\ work[w] = NoWork
    /\ started < MaxExecutions
    /\ b = "admin" => output["harvey"].stored /\ output["kira"].stored
    /\ started' = started + 1
    /\ work' = [work EXCEPT ![w] =
           IF b = "admin"
           THEN Execution(b, started + 1, "store", 0, BranchFindings)
           ELSE Execution(b, started + 1, "analyze", 1, {})]
    /\ UNCHANGED <<rows, output>>

Found(w, m, i) ==
    [block |-> work[w].block, exec |-> work[w].exec, round |-> work[w].round,
     who |-> m, issue |-> i, copy |-> 0]

\* The three Harveys analyze the contract in parallel, from scratch each round.
\* Without chunks from the corpus they find nothing.
HarveyAnalyze(w) ==
    /\ work[w].block = "harvey" /\ work[w].step = "analyze"
    /\ \E report \in HarveyReports :
         LET out == UNION {{Found(w, m, i) : i \in report[m]} : m \in Member}
         IN  work' = [work EXCEPT ![w].step = "vote", ![w].out = out,
                                  ![w].reported = @ \/ out # {}]
    /\ UNCHANGED <<started, rows, output>>

\* Mutant: an empty revision is remembered too.
LatestRound(w, out) == out

\* The latest round that found anything.
BestRound(w, out) == IF out # {} THEN out ELSE work[w].best

\* Kira's worker analyzes the contract, or revises what the panel rejected.
KiraAnalyze(w) ==
    /\ work[w].block = "kira" /\ work[w].step = "analyze"
    /\ \E report \in KiraReports :
         LET out == {Found(w, 1, i) : i \in report}
         IN  work' = [work EXCEPT ![w].step = "vote", ![w].out = out,
                                  ![w].best = BestRound(w, out),
                                  ![w].reported = @ \/ out # {}]
    /\ UNCHANGED <<started, rows, output>>

\* Those who approve; whatever else a member answers is a rejection.
Votes == SUBSET Member

\* Mutant: one approval will do.
OneApproves(votes) == votes # {}

Passed(votes) == Cardinality(votes) >= 2

\* Mutant: one round too many.
OneRoundMore(w, votes) == Passed(votes) \/ work[w].round = MaxRounds + 1

LastRound(w, votes) == Passed(votes) \/ work[w].round = MaxRounds

\* A member approves or rejects: Harvey's panel the findings of its two peers,
\* Kira's panel those of the worker.  After the last round they pass anyway;
\* before it, a rejection starts another.
Vote(w) ==
    /\ work[w].step = "vote"
    /\ \E votes \in Votes :
         work' = [work EXCEPT ![w] =
             IF LastRound(w, votes)
             THEN [work[w] EXCEPT !.votes = votes, !.step = "store"]
             ELSE [work[w] EXCEPT !.out = {}, !.step = "analyze", !.round = @ + 1]]
    /\ UNCHANGED <<started, rows, output>>

-----------------------------------------------------------------------------
\* advance_stage commits output and rows; or finds that the run is cancelled and
\* commits the rows without the output.
Store(w, findings, new) ==
    /\ rows' = rows \cup new
    /\ \/ UNCHANGED output
       \/ output' = [output EXCEPT ![work[w].block] =
              [stored |-> TRUE, findings |-> findings, passed |-> Passed(work[w].votes),
               reported |-> work[w].reported]]
    /\ work' = [work EXCEPT ![w] = NoWork]
    /\ UNCHANGED started

\* Mutant: only findings that passed get rows.
StorePassed(w) ==
    /\ work[w].block = "harvey" /\ work[w].step = "store"
    /\ Store(w, work[w].out, IF Passed(work[w].votes) THEN work[w].out ELSE {})

StoreHarvey(w) ==
    /\ work[w].block = "harvey" /\ work[w].step = "store"
    /\ Store(w, work[w].out, work[w].out)

\* Findings the validator's model does not want to retain are dropped, and of
\* those of one clause and type one stays.
Deduplicated(S) ==
    {T \in SUBSET S : \A f, g \in T : TypeOf[f.issue] = TypeOf[g.issue] => f = g}

\* KiraValidatorAgent passes all findings if that leaves none.
Validated(S) == {IF T = {} THEN S ELSE T : T \in Deduplicated(S)}

\* A revision that found nothing falls back to the latest that did.
StoreKira(w) ==
    /\ work[w].block = "kira" /\ work[w].step = "store"
    /\ \E valid \in Validated(IF work[w].out # {} THEN work[w].out ELSE work[w].best) :
         Store(w, valid, valid)

\* _to_finding_record gives Admin's rows ids of their own.
CopyOf(w, f) == [f EXCEPT !.copy = work[w].exec]

StoreMerge(w) ==
    /\ work[w].block = "admin" /\ work[w].step = "store"
    /\ Store(w, work[w].out, {CopyOf(w, f) : f \in work[w].out})

\* Harvey and Admin time out, or a call raises: the stage completes with nothing.
SoftFail(w) ==
    /\ work[w].block \in {"harvey", "admin"}
    /\ output' = [output EXCEPT ![work[w].block] = [NoOutput EXCEPT !.stored = TRUE]]
    /\ work' = [work EXCEPT ![w] = NoWork]
    /\ UNCHANGED <<started, rows>>

\* The execution ends without a result: a call of Kira's raises (retry_stage), the
\* parser's confidence is too low (mark_run_blocked), the run is cancelled before
\* the findings are added, or the worker dies.
Abandon(w) ==
    /\ work[w] # NoWork
    /\ work' = [work EXCEPT ![w] = NoWork]
    /\ UNCHANGED <<started, rows, output>>

Next ==
    \E w \in Worker :
        \/ \E b \in Block : Begin(w, b)
        \/ HarveyAnalyze(w) \/ KiraAnalyze(w) \/ Vote(w)
        \/ StoreHarvey(w) \/ StoreKira(w) \/ StoreMerge(w)
        \/ SoftFail(w) \/ Abandon(w)

Spec == Init /\ [][Next]_vars

-----------------------------------------------------------------------------
(***************************************************************************)
(* Properties.                                                             *)
(***************************************************************************)

Work == [block : Block \cup {"none"}, exec : Nat, step : {"idle", "analyze", "vote", "store"},
         round : 0 .. MaxRounds, out : SUBSET Finding, best : SUBSET Finding,
         votes : SUBSET Member, reported : BOOLEAN]

Output == [stored : BOOLEAN, findings : SUBSET Finding, passed : BOOLEAN, reported : BOOLEAN]

\* Every variable has its type; an idle worker holds nothing; and nobody goes
\* beyond the last round.
TypeOK ==
    /\ work \in [Worker -> Work]
    /\ \A w \in Worker : work[w].block = "none" <=> work[w] = NoWork
    /\ started \in 0 .. MaxExecutions
    /\ rows \subseteq Finding
    /\ output \in [Block -> Output]

\* What Harvey's panel passes was approved, in the round it is from, by a peer of
\* the one that found it: "2-of-3 approvals" leaves no finding to its author.
PeerApproved ==
    \A w \in Worker :
        work[w].block = "harvey" /\ work[w].step = "store" /\ Passed(work[w].votes) =>
            \A f \in work[w].out :
                f.round = work[w].round /\ \E m \in work[w].votes : m # f.who

\* Neither a revision nor the validator zeroes Kira's findings: if any round of
\* the execution found something, its output does.
NeverZeroed ==
    output["kira"].reported => output["kira"].findings # {}

\* Whichever executions the stored outputs are of, and whatever became of others,
\* each finding of an output has the row that accept_finding looks for.
OutputsRecorded == \A b \in Block : output[b].findings \subseteq rows
=============================================================================
