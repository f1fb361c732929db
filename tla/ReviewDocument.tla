---------------------------- MODULE ReviewDocument ----------------------------
(***************************************************************************)
(* What reviewers write into the row of one run that is under review: the  *)
(* JSON columns verdict_payload, which holds the editor's content, the     *)
(* decisions on merged findings AND the final verdict, and contract_edits; *)
(* and the marks on the rows of findings (routes/editor.py,                *)
(* routes/contracts.py, services/run_service.py).                          *)
(*                                                                         *)
(* Every handler loads the run, computes the new value of a whole column   *)
(* from the loaded one, and commits: a load and a write, with no lock.     *)
(***************************************************************************)
EXTENDS Naturals

CONSTANTS
    Client,    \* requests in flight together
    Uid,       \* clause_uids: nobody asks whether the contract has the clause
    Finding,   \* the ids of findings
    Recorded,  \* those that have a row in the table findings
    Merged,    \* those that are in the output of admin_merge
    IssueOf,   \* what a finding says, and of which clause
    ClauseOf,  \* the clause a finding is about
    Suggests,  \* the findings that come with a replacement text
    NoOne,     \* author of an edit that is not there
    Ops,       \* the requests reviewers make
    MaxCalls   \* bound: requests

Request == {"save_editor", "save_clause", "accept", "dismiss", "approved", "edited", "rejected"}

ASSUME DocumentAssumption ==
    /\ Finding = Recorded \cup Merged
    /\ Finding \cap {"editor", "verdict"} = {}
    /\ Suggests \subseteq Finding
    /\ ClauseOf \in [Finding -> Uid]
    /\ Ops \subseteq Request
    /\ NoOne \notin Nat
    /\ MaxCalls \in Nat

VARIABLES
    run,     \* "in_review" stands for awaiting_human_review and under_review
    payload, \* runs.verdict_payload
    edits,   \* runs.contract_edits: the request that wrote each uid's edit
    marks,   \* which of accepted_at and dismissed_at a recorded finding has
    req,     \* the request a client has in flight
    seen,    \* the run as that request loaded it
    calls,   \* requests so far
    acked,   \* history: the last acknowledged edit of each uid
    decided, \* history: the findings whose acceptance or dismissal was acknowledged
    missed,  \* history: what others wrote into each column since a request loaded it
    overrun  \* history: what was in each column when a request that missed it wrote

runVars == <<run, payload, edits, marks>>
history == <<acked, decided, missed, overrun>>
vars == <<runVars, req, seen, calls, history>>

Null == [editor |-> 0, accepted |-> {}, dismissed |-> {}, action |-> "none", risk |-> "none"]

NoRequest == [op |-> "none", arg |-> "none", id |-> 0]
NoRun == [payload |-> Null, edits |-> [k \in Uid |-> NoOne]]

\* What the two columns hold, as far as it can be lost.
Nothing == [edits |-> {}, payload |-> {}]
Parts == [edits : SUBSET Uid, payload : SUBSET (Finding \cup {"editor", "verdict"})]

Init ==
    /\ run = "in_review"
    /\ payload = Null
    /\ edits = [k \in Uid |-> NoOne]
    /\ marks = [f \in Recorded |-> {}]
    /\ req = [c \in Client |-> NoRequest]
    /\ seen = [c \in Client |-> NoRun]
    /\ calls = 0
    /\ acked = [k \in Uid |-> NoOne]
    /\ decided = {}
    /\ missed = [c \in Client |-> Nothing]
    /\ overrun = Nothing

-----------------------------------------------------------------------------
\* Nobody accepted or dismissed a finding: its row is not marked, or its id is
\* not in the payload.
Undecided ==
    {f \in Finding : IF f \in Recorded
                     THEN marks[f] = {}
                     ELSE f \notin payload.accepted \cup payload.dismissed}

\* _load_full_findings shows one of the findings that say the same.
OnePerIssue(S) == {CHOOSE f \in S : IssueOf[f] = i : i \in {IssueOf[g] : g \in S}}

\* What _load_full_findings returns, the review queue: Admin's findings, then the
\* rows that say something else.
Pending ==
    LET merged == OnePerIssue(Undecided \cap Merged)
        other  == {f \in Undecided \cap Recorded : \A g \in merged : IssueOf[g] # IssueOf[f]}
    IN  merged \cup OnePerIssue(other)

\* A finding without a row is looked up in the review queue, one with a row is
\* not; only the decisions on the run look at its status.
Accepts(op, arg) ==
    CASE op = "save_editor" -> arg = "none"
      [] op = "save_clause" -> arg \in Uid
      [] op \in {"accept", "dismiss"} -> arg \in Recorded \cup Pending
      [] op \in {"approved", "edited", "rejected"} -> arg = "none" /\ run = "in_review"

\* The handler loads the run and passes its checks.
Load(c, op, arg) ==
    /\ req[c] = NoRequest
    /\ calls < MaxCalls
    /\ Accepts(op, arg)
    /\ calls' = calls + 1
    /\ req' = [req EXCEPT ![c] = [op |-> op, arg |-> arg, id |-> calls + 1]]
    /\ seen' = [seen EXCEPT ![c] = [payload |-> payload, edits |-> edits]]
    /\ UNCHANGED <<runVars, history>>

Answer(c) ==
    /\ req' = [req EXCEPT ![c] = NoRequest]
    /\ seen' = [seen EXCEPT ![c] = NoRun]
    /\ UNCHANGED calls

\* The history of a commit: what this request missed is overrun in the columns
\* it writes, what it writes is not, and the requests in flight miss that.
Commits(c, e, p) ==
    /\ overrun' = [edits   |-> IF e = {} THEN overrun.edits
                               ELSE (overrun.edits \cup missed[c].edits) \ e,
                   payload |-> IF p = {} THEN overrun.payload
                               ELSE (overrun.payload \cup missed[c].payload) \ p]
    /\ missed' = [d \in Client |-> IF d = c \/ req[d] = NoRequest THEN Nothing
                                   ELSE [edits   |-> missed[d].edits \cup e,
                                         payload |-> missed[d].payload \cup p]]

\* Mutant: the column starts from scratch.
SaveEditorOver(c) == payload' = [Null EXCEPT !.editor = seen[c].payload.editor + 1]

WriteEditor(c) ==
    payload' = [seen[c].payload EXCEPT !.editor = @ + 1]

\* save_editor_content.
SaveEditor(c) ==
    /\ req[c].op = "save_editor"
    /\ WriteEditor(c)
    /\ Commits(c, {}, {"editor"})
    /\ Answer(c)
    /\ UNCHANGED <<run, edits, marks, acked, decided>>

\* Mutant: only the newest edit is kept.
ReplaceEdits(c, k) == edits' = [j \in Uid |-> IF j = k THEN req[c].id ELSE NoOne]

WriteEdit(c, k) == edits' = [seen[c].edits EXCEPT ![k] = req[c].id]

\* save_clause_edit, which asks neither for the clause nor for the run's status.
SaveClauseEdit(c) ==
    /\ req[c].op = "save_clause"
    /\ WriteEdit(c, req[c].arg)
    /\ acked' = [acked EXCEPT ![req[c].arg] = req[c].id]
    /\ Commits(c, {req[c].arg}, {})
    /\ Answer(c)
    /\ UNCHANGED <<run, payload, marks, decided>>

\* Mutant: a finding without a row is forgotten.
MarkRowOnly(c, f) ==
    /\ marks' = IF f \in Recorded THEN [marks EXCEPT ![f] = @ \cup {"accepted"}] ELSE marks
    /\ UNCHANGED payload

\* A finding without a row is marked in the payload.
MarkAccepted(c, f) ==
    IF f \in Recorded
    THEN /\ marks' = [marks EXCEPT ![f] = @ \cup {"accepted"}]
         /\ UNCHANGED payload
    ELSE /\ payload' = [seen[c].payload EXCEPT !.accepted = @ \cup {f}]
         /\ UNCHANGED marks

\* accept_finding: its replacement text, if any, becomes the clause's edit.
AcceptFinding(c) ==
    /\ req[c].op = "accept"
    /\ LET f == req[c].arg
       IN  /\ MarkAccepted(c, f)
           /\ IF f \in Suggests
              THEN /\ WriteEdit(c, ClauseOf[f])
                   /\ acked' = [acked EXCEPT ![ClauseOf[f]] = req[c].id]
              ELSE UNCHANGED <<edits, acked>>
           /\ decided' = decided \cup {f}
           /\ Commits(c, {ClauseOf[g] : g \in {f} \cap Suggests}, {f} \ Recorded)
    /\ Answer(c)
    /\ UNCHANGED run

\* dismiss_finding.
DismissFinding(c) ==
    /\ req[c].op = "dismiss"
    /\ LET f == req[c].arg
       IN  /\ IF f \in Recorded
              THEN /\ marks' = [marks EXCEPT ![f] = @ \cup {"dismissed"}]
                   /\ UNCHANGED payload
              ELSE /\ payload' = [seen[c].payload EXCEPT !.dismissed = @ \cup {f}]
                   /\ UNCHANGED marks
           /\ decided' = decided \cup {f}
           /\ Commits(c, {}, {f} \ Recorded)
    /\ Answer(c)
    /\ UNCHANGED <<run, edits, acked>>

-----------------------------------------------------------------------------
\* _build_final_verdict: a payload that is not null is taken for a verdict, and
\* what a verdict needs and it lacks is filled in.  Nothing else survives.
FinalVerdict(p, action) ==
    [Null EXCEPT
        !.action = IF p = Null THEN action ELSE IF p.action = "none" THEN "approved" ELSE p.action,
        !.risk   = IF p = Null THEN "derived" ELSE IF p.risk = "none" THEN "default" ELSE p.risk]

\* Mutant: a rejection does not return before the finalization.
RejectionToo == {"approved", "edited", "rejected"}

Finalizing == {"approved", "edited"}

\* submit_human_review and finalize_run_if_approved.
FinalizeRun(c) ==
    /\ req[c].op \in Finalizing
    /\ run' = "finalized"
    /\ payload' = FinalVerdict(seen[c].payload, req[c].op)
    /\ Commits(c, {}, {"verdict"})
    /\ Answer(c)
    /\ UNCHANGED <<edits, marks, acked, decided>>

RejectRun(c) ==
    /\ req[c].op = "rejected"
    /\ run' = "rejected"
    /\ Commits(c, {}, {})
    /\ Answer(c)
    /\ UNCHANGED <<payload, edits, marks, acked, decided>>

\* The handler fails after its checks; the transaction is rolled back.
FailRequest(c) ==
    /\ req[c] # NoRequest
    /\ Commits(c, {}, {})
    /\ Answer(c)
    /\ UNCHANGED <<runVars, acked, decided>>

Next ==
    \E c \in Client :
        \/ \E op \in Ops, arg \in Uid \cup Finding \cup {"none"} : Load(c, op, arg)
        \/ SaveEditor(c)
        \/ SaveClauseEdit(c)
        \/ AcceptFinding(c)
        \/ DismissFinding(c)
        \/ FinalizeRun(c)
        \/ RejectRun(c)
        \/ FailRequest(c)

Spec == Init /\ [][Next]_vars

-----------------------------------------------------------------------------
(***************************************************************************)
(* Properties.                                                             *)
(***************************************************************************)

Payload == [editor : Nat, accepted : SUBSET Finding, dismissed : SUBSET Finding,
            action : {"none", "approved", "edited"}, risk : {"none", "derived", "default"}]
Edits == [Uid -> Nat \cup {NoOne}]

\* Every variable has the type its column has.
TypeOK ==
    /\ run \in {"in_review", "finalized", "rejected"}
    /\ payload \in Payload
    /\ edits \in Edits
    /\ marks \in [Recorded -> SUBSET {"accepted", "dismissed"}]
    /\ req \in [Client -> [op : Request \cup {"none"}, arg : Uid \cup Finding \cup {"none"}, id : Nat]]
    /\ seen \in [Client -> [payload : Payload, edits : Edits]]
    /\ \A c \in Client : req[c].op = "save_clause" => req[c].arg \in Uid
    /\ \A c \in Client : req[c].op \in {"accept", "dismiss"} => req[c].arg \in Finding
    /\ calls \in 0 .. MaxCalls
    /\ acked \in Edits
    /\ decided \subseteq Finding
    /\ missed \in [Client -> Parts]
    /\ overrun \in Parts

\* An edit that was acknowledged stays until its uid is edited again, unless a
\* request that had loaded the run before it wrote an edit of its own after it:
\* with no lock, that one is lost.  Nothing else undoes an edit.
EditsKept == \A k \in Uid \ overrun.edits : edits[k] = acked[k]

\* The verdict of a finalized run stays in its payload, whatever the editor and
\* the findings' buttons, which ask for no status, write there afterwards, unless
\* they had loaded the run before its finalization.
VerdictKept ==
    run = "finalized" /\ "verdict" \notin overrun.payload => payload.action # "none"

\* While the run is in review, a finding that was accepted or dismissed is not
\* shown again, be its decision a mark on its row or an id in the payload, unless
\* a request that had loaded the run before the decision wrote the payload after.
DecidedInReview ==
    run = "in_review" => (decided \ overrun.payload) \cap Pending = {}

\* "Mark finding as accepted so it disappears from the review queue": nor is
\* another finding that says the same.  It is shown, as its copy: no run checks
\* this, which TLC refutes with two requests.
DecisionsStick ==
    run = "in_review" => \A f \in decided, g \in Pending : IssueOf[g] # IssueOf[f]

\* The risk of a finalized run is derived from its findings.  It is not if the
\* editor was saved first: no run checks this either.
VerdictDerived == run = "finalized" => payload.risk = "derived"
=============================================================================
