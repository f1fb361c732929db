------------------------------ MODULE ReportPage ------------------------------
(***************************************************************************)
(* The report of a run: its findings, their counts and its summary, the    *)
(* flagged clauses, Harvey's conflicts, and what the reader of the         *)
(* document is given (VerdictScreen of redesign/VerdictView.jsx).          *)
(***************************************************************************)
EXTENDS Integers, SequencesExt

NoId == "none"

-----------------------------------------------------------------------------
Severities == {"critical", "high", "medium", "low"}
CountBy(findings, severity) == Len(SelectSeq(findings, LAMBDA f : f.severity = severity))

\* buildExecutiveSummary without a substantive summary of the AI: what it says of
\* the findings, and which it names.
ExecutiveSummary(findings) ==
    LET total == Len(SelectSeq(findings, LAMBDA f : f.severity \in Severities))
        Of(severity) == SelectSeq(findings, LAMBDA f : f.severity = severity)
    IN IF total = 0 THEN [says |-> "no issues", total |-> 0, names |-> NoId]
       ELSE [says |-> "flagged", total |-> total,
             names |-> Head(Of("critical") \o Of("high") \o findings).id]

\* riskLevel of the report
RiskLevel(state, overall) ==
    IF state \in {"failed", "blocked"} THEN "failed"
    ELSE CASE overall = "critical" -> "high" [] overall = NoId -> "medium" [] OTHER -> overall

\* toReaderFindings: the evidence that is short enough, the older kind in its place
\* when there is none.
ReaderEvidence(evidence, legacy, most) ==
    LET focused(s) == SelectSeq(s, LAMBDA e : e.length > 0 /\ e.length <= most)
    IN IF focused(evidence) # <<>> THEN focused(evidence) ELSE focused(legacy)

\* What the load of the page takes for the run's findings: those of its verdict, or
\* else the answer of a second request, and none when it fails.  Either is <<a list>>,
\* or <<>> if there is none.
ReportFindings(verdict, asked) ==
    IF verdict # <<>> THEN verdict[1] ELSE IF asked # <<>> THEN asked[1] ELSE <<>>
Report(state, overall, verdict, asked) ==
    LET findings == ReportFindings(verdict, asked)
        risk == RiskLevel(state, overall)
    IN [riskLevel |-> risk, findings |-> findings,
        summary |-> IF risk = "failed" THEN [says |-> "could not complete"]
                    ELSE ExecutiveSummary(findings)]

\* What the page shows, and where its button back leads: that of a report looks
\* whether a contract was chosen, that of a failed load does not.
ReportScreen(loadErr, verdict, contract) ==
    [says |-> IF loadErr THEN "could not load" ELSE IF verdict = <<>> THEN "loading" ELSE "report",
     back |-> IF ~loadErr /\ verdict = <<>> THEN NoId
              ELSE IF ~loadErr /\ contract = NoId THEN "dashboard" ELSE "contract_detail"]

\* The header has a number of each severity that occurs.
HeaderCounts(findings) ==
    [s \in {s \in Severities : CountBy(findings, s) > 0} |-> CountBy(findings, s)]

-----------------------------------------------------------------------------
(***************************************************************************)
(* Flagged clauses and Harvey's conflicts: lists of which one entry is     *)
(* open at a time: "expanded" has at most one element.                     *)
(***************************************************************************)
ClickRow(expanded, row) == IF row \in expanded THEN {} ELSE {row}

\* The entry of a finding; a severity of another name is shown as a low one.
FlaggedClause(f, k, expanded) ==
    [severity |-> IF f.severity \in Severities THEN f.severity ELSE "low",
     open |-> k \in expanded,
     explained |-> k \in expanded /\ f.recommendation /\ f.explanation,
     jumpsTo |-> k + 1]
FlaggedClauses(findings, expanded) ==
    [k \in DOMAIN findings |-> FlaggedClause(findings[k], k - 1, expanded)]

\* HarveyConflictPanel: an entry is told by its finding's identifier, or by its clause
\* and place.
ConflictId(f, k) == IF f.id # NoId THEN <<f.id>> ELSE <<f.clause, k>>
ConflictPanel(findings, loading, expanded, mostCitations) ==
    IF loading THEN [says |-> "loading", rows |-> <<>>]
    ELSE [says |-> IF findings = <<>> THEN "no conflicts" ELSE "conflicts",
          rows |-> [k \in DOMAIN findings |->
                       LET f == findings[k]
                           open == ConflictId(f, k) \in expanded
                           sources == IF f.citations < mostCitations THEN f.citations ELSE mostCitations
                       IN [open |-> open, cited |-> f.citations,
                           sources |-> IF open THEN sources ELSE 0]]]
=============================================================================
