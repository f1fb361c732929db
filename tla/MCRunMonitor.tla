----------------------------- MODULE MCRunMonitor -----------------------------
(***************************************************************************)
(* RunMonitor with one page, and one upload and two turns or two uploads   *)
(* and one turn.  What the screens make of their lists is evaluated for    *)
(* all lists of a few entries.                                             *)
(***************************************************************************)
EXTENDS RunMonitor

L == INSTANCE Listings
R == INSTANCE ReportPage

\* To the page a run that is under review, or rejected, is what one at work is: neither
\* an end nor a failure.  With two uploads one of the three will do.
NoneReviewed == \A r \in Run : run[r] \notin {"under_review", "rejected"}

States == {"processing", "awaiting_human_review", "finalized", "failed"}
Named == {[space |-> "s1", spaceName |-> "Legal"], [space |-> "s2", spaceName |-> "HR"],
          [space |-> L!NoId, spaceName |-> "Workspace"]}
Contracts == L!BoundedSeq({[space |-> n.space, spaceName |-> n.spaceName, state |-> s] : n \in Named, s \in States}, 3)

\* As long as names tell workspaces apart, the number beside a workspace is that of
\* the rows it shows, and no row comes under two of the dashboard's filters.
ASSUME CountsMatchRows ==
    \A contracts \in Contracts :
        /\ \A n \in Named : n.space # L!NoId =>
              LET filter == [id |-> n.space, name |-> n.spaceName] IN
              L!WorkspaceCount(contracts, n.space) = L!Len(L!DashboardRows(contracts, filter, "all", States))
        /\ L!Len(contracts) >= L!Len(L!DashboardRows(contracts, L!NoFilter, "review", States))
                               + L!Len(L!DashboardRows(contracts, L!NoFilter, "progress", States))
                               + L!Len(L!DashboardRows(contracts, L!NoFilter, "done", States))

\* A run that awaits a sign-off is among the notifications unless they are full of
\* such runs, however many others were decided since.
ASSUME SignOffsAreNotified ==
    \A rows \in L!BoundedSeq([state : States, action : {L!NoId, "approved"}], 3) :
        LET notified == L!Notifications(rows, 2, 1)
            awaits(r) == r.state = "awaiting_human_review"
            number(s) == L!Len(L!SelectSeq(s, awaits))
        IN number(notified) = number(rows) \/ (number(notified) = 2 /\ L!Len(notified) = 2)

\* The arrows never leave the results, and reach each of them.
ASSUME ArrowsStayInside ==
    \A n \in 0..3 : \A idx \in 0..(IF n = 0 THEN 0 ELSE n - 1) :
        /\ L!MoveActive(idx, "up", n) = IF idx = 0 THEN 0 ELSE idx - 1
        /\ L!MoveActive(idx, "down", n) = IF idx + 1 < n THEN idx + 1 ELSE idx

\* Of a search at most one match is dropped for the other kind's sake, and it is of
\* the workspaces.
ASSUME SearchKeepsContracts ==
    \A n, m \in 0..9 :
        LET c == [k \in 1..n |-> "contract"]
            w == [k \in 1..m |-> "workspace"]
            found == L!SearchResults(c, w, {"contract", "workspace"}, [contracts |-> 8, workspaces |-> 5, together |-> 12])
            isSpace(x) == x = "workspace"
        IN /\ L!Len(found) - L!Len(L!SelectSeq(found, isSpace)) = IF n < 8 THEN n ELSE 8
           /\ L!Len(L!SelectSeq(found, isSpace)) >= IF m < 4 THEN m ELSE 4

\* The groups keep every entry once, no two have a label, and lists that come in
\* order stay in it.
ASSUME GroupsKeepEntries ==
    \A ages \in L!BoundedSeq({0, 1, 5, 9, 40}, 4) :
        LET entries == [k \in DOMAIN ages |-> [id |-> k, age |-> ages[k],
                                               month |-> IF ages[k] < 30 THEN "June" ELSE "May"]]
            groups == L!HistoryGroups(entries)
            all == L!FlattenSeq([k \in DOMAIN groups |-> groups[k].entries])
            ordered == \A k \in 1..(L!Len(ages) - 1) : ages[k] <= ages[k + 1]
        IN /\ L!ToSet(all) = L!ToSet(entries) /\ L!Len(all) = L!Len(entries)
           /\ \A j, k \in DOMAIN groups : groups[j].label = groups[k].label => j = k
           /\ ordered => all = entries

\* A report names the gravest of its findings and counts each once.
ASSUME SummaryNamesGravest ==
    \A severities \in L!BoundedSeq(R!Severities, 3) :
        LET findings == [k \in DOMAIN severities |-> [id |-> k, severity |-> severities[k]]]
            s == R!ExecutiveSummary(findings)
            worst == IF \E k \in DOMAIN severities : severities[k] = "critical" THEN "critical" ELSE "high"
        IN /\ s.total = L!Len(findings)
           /\ s.total = R!CountBy(findings, "critical") + R!CountBy(findings, "high")
                        + R!CountBy(findings, "medium") + R!CountBy(findings, "low")
           /\ (\E k \in DOMAIN severities : severities[k] = worst)
                => severities[s.names] = worst /\ \A k \in 1..(s.names - 1) : severities[k] # worst

\* Only a run that did not end well has no risk, and evidence is shown whenever a
\* quotation of either kind is short enough.
ASSUME ReportIsComplete ==
    /\ \A state \in States, overall \in R!Severities \cup {R!NoId} :
          R!RiskLevel(state, overall) \in IF state = "failed" THEN {"failed"} ELSE {"low", "medium", "high"}
    /\ \A e, l \in L!BoundedSeq([length : {0, 900, 901}], 2) :
          R!ReaderEvidence(e, l, 900) = <<>> <=> \A x \in L!ToSet(e) \cup L!ToSet(l) : x.length # 900

\* The address of a screen leads back to it, unless a report or a contract was
\* opened without saying which.
ASSUME AddressesLeadBack ==
    \A s \in Screens \cup {"history", "profile", "admin"} : \A id \in {"c1", L!NoId}, r \in {"r1", L!NoId} :
        LET back == L!UrlToScreen(L!ScreenToUrl(s, id, r))
            told == (s \in {"contract_detail", "verdict"} => id # L!NoId) /\ (s = "verdict" => r # L!NoId)
        IN /\ back.screen = IF told THEN s ELSE "dashboard"
           /\ told /\ s \in {"contract_detail", "verdict"} => back.id = id
           /\ told /\ s = "verdict" => back.run = r

\* The newest version is the first row, every version has one, and its count is that
\* of its own run.
ASSUME RowsMatchVersions ==
    \A runs \in L!BoundedSeq({"r1", "r2", L!NoId}, 3) :
        LET versions == [k \in DOMAIN runs |-> [id |-> k, run |-> runs[k]]]
            findings == [r \in {"r1", "r2"} |-> IF r = "r1" THEN <<"f1">> ELSE <<"f2", "f3">>]
            rows == L!VersionRows(versions, findings)
        IN \A k \in DOMAIN versions :
              LET row == rows[L!Len(runs) + 1 - k] IN
              /\ row.version.id = k
              /\ row.count = CASE runs[k] = "r1" -> 1 [] runs[k] = "r2" -> 2 [] OTHER -> 0

\* The bar is full when every stage on the screen is done and never before, and what
\* went wrong is said whenever the run has a reason or a stage on the screen failed;
\* that of a stage without a name on the screen, like Harvey's, is not.
ASSUME ProgressIsHonest ==
    \A states \in [{"index", "harvey", "merge"} -> {"pending", "running", "done", "failed"}] :
        LET row(n) == [name |-> n, state |-> states[n], error |-> IF states[n] = "failed" THEN n ELSE L!NoId]
            steps == L!DisplayStages(<<"index", "merge">>, <<row("index"), row("harvey"), row("merge")>>)
            onScreen == {n \in {"index", "merge"} : states[n] = "failed"}
        IN /\ L!PercentDone(steps) = 100 <=> {states["index"], states["merge"]} = {"done"}
           /\ L!FailureMessage(steps, "no policy") = "no policy"
           /\ L!FailureMessage(steps, L!NoId) \in IF onScreen = {} THEN {L!NoId} ELSE onScreen

\* Enter opens the row that is lit, of which there is one whenever there are rows.
ASSUME SearchOpensLitRow ==
    \A n \in 0..3 : \A idx \in 0..(IF n = 0 THEN 0 ELSE n - 1), loading \in BOOLEAN :
        LET results == L!SubSeq(<<"r1", "r2", "r3">>, 1, n)
            overlay == L!SearchOverlay(loading, results, idx)
            lit == {k \in DOMAIN overlay.rows : overlay.rows[k].active}
        IN /\ overlay.says = "results" <=> overlay.rows # <<>>
           /\ overlay.rows # <<>> => \E k \in lit : lit = {k} /\ overlay.rows[k].result = L!Choose(results, idx)
           /\ n = 0 => L!Choose(results, idx) = L!NoId

\* The bell has its dot exactly if some run awaits its sign-off, however few of the
\* runs are among the notifications.
ASSUME BellTells ==
    \A rows \in L!BoundedSeq([state : States, action : {L!NoId, "approved"}], 3) :
        L!BellDot(L!Notifications(rows, 2, 1)) <=> \E k \in DOMAIN rows : rows[k].state = "awaiting_human_review"

\* An age is put in the unit that suits it, and is cut, not rounded up.
ASSUME AgesAreCut ==
    \A m \in 0..3000 :
        LET ago == L!TimeAgo(m)
            unit == CASE ago[2] = "m" -> 1 [] ago[2] = "h" -> 60 [] ago[2] = "d" -> 1440
            most == CASE ago[2] = "m" -> 59 [] ago[2] = "h" -> 23 [] ago[2] = "d" -> m
        IN m >= 1 => ago[1] \in 1..most /\ ago[1] * unit <= m /\ m < (ago[1] + 1) * unit

\* A list that cannot be loaded leaves the other one whole.
ASSUME ListsFailApart ==
    \A contracts \in Contracts : \A spaces \in {<<>>, <<<<"s1">>>>} :
        L!DashboardRows(L!LoadLists(<<contracts>>, spaces).contracts, L!NoFilter, "all", States) = contracts

\* Whatever the address, nobody but a signed-in admin is given the admin's screen.
ASSUME AdminsOnly ==
    \A path \in {<<>>, <<"admin">>, <<"history">>, <<"admin", "x">>}, signedIn, admin \in BOOLEAN :
        L!Shell(signedIn, L!UrlToScreen(path).screen, admin) = "admin" <=> signedIn /\ admin /\ path = <<"admin">>

AllStates == {"created", "processing", "awaiting_human_review", "under_review", "finalized",
              "rejected", "blocked", "failed", "cancelled"}

\* Every tab shown but the first has rows, every row of it its state, and no two tabs
\* share one.  An entry of a state that has no tab is found under the first alone.
ASSUME TabsHaveRows ==
    \A states \in L!BoundedSeq({"created", "processing", "finalized", "failed"}, 3) :
        LET entries == [k \in DOMAIN states |-> [id |-> k, state |-> states[k], action |-> L!NoId]]
            tabs == L!HistoryTabs(entries)
            rows(t) == L!ToSet(L!HistoryRows(entries, t))
        IN /\ "all" \in tabs /\ rows("all") = L!ToSet(entries)
           /\ \A t \in tabs \ {"all"} : rows(t) # {}
           /\ \A t, u \in tabs \ {"all"} : t # u => rows(t) \cap rows(u) = {}
           /\ \A e \in L!ToSet(entries) : e.state # "created" => e.state \in tabs

\* An entry's dot and its words have one colour, but for runs that are queued or under
\* review and for rejected ones whose decision is missing.
ASSUME ColoursAgree ==
    \A state \in AllStates, action \in {L!NoId, "approved", "rejected"} :
        LET e == [state |-> state, action |-> action] IN
        L!HistoryDot(e) # L!HistoryStatusText(e)
            <=> action = L!NoId /\ state \in {"created", "under_review", "rejected"}

\* Of a stage nothing is said only while it waits, and an error only once it failed.
ASSUME StagesSpeak ==
    \A state \in {"pending", "running", "done", "failed", "blocked", "retrying"} :
        LET row == L!StageRow([state |-> state, error |-> "e"]) IN
        /\ row.says = "-" <=> state = "pending"
        /\ row.why = "e" <=> row.says = "Failed"

Clauses == L!BoundedSeq([severity : R!Severities \cup {"odd"}, recommendation : BOOLEAN,
                         explanation : {TRUE}, id : {"f"}], 2)

\* Whichever request the findings came from, the numbers of the header add up to that
\* of the summary; a report of findings all of odd severities, or whose findings
\* could not be loaded, says that there are none.
ASSUME ReportAddsUp ==
    \A findings \in Clauses : \A verdict, asked \in {<<>>, <<findings>>}, state \in {"finalized", "failed"} :
        LET report == R!Report(state, R!NoId, verdict, asked)
            counts == R!HeaderCounts(report.findings)
            count(s) == IF s \in DOMAIN counts THEN counts[s] ELSE 0
            known == count("critical") + count("high") + count("medium") + count("low")
        IN /\ report.findings = IF verdict = <<>> /\ asked = <<>> THEN <<>> ELSE findings
           /\ report.riskLevel = "failed" <=> state = "failed"
           /\ state # "failed" => /\ report.summary.total = known
                                  /\ report.summary.says = "no issues" <=> known = 0

\* A page that is not loading can be left; a report is left for the dashboard only if
\* no contract was chosen, and a load that failed never is.
ASSUME ReportIsLeft ==
    \A loadErr \in BOOLEAN : \A verdict \in {<<>>, <<"verdict">>}, contract \in {"c1", R!NoId} :
        LET shows == R!ReportScreen(loadErr, verdict, contract)
        IN /\ shows.back = R!NoId <=> shows.says = "loading"
           /\ shows.back = "dashboard" <=> shows.says = "report" /\ contract = R!NoId

\* Clicking keeps at most one entry open, and an entry clicked twice in turn closed;
\* the entry that is open is the one whose suggestion is explained, and the place it
\* leads to in the document is its number there.
ASSUME OneClauseOpen ==
    \A findings \in Clauses : \A j, k \in 0..1 :
        LET expanded == R!ClickRow(R!ClickRow({}, j), k)
            rows == R!FlaggedClauses(findings, expanded)
            open == {i \in DOMAIN rows : rows[i].open}
        IN /\ open = (IF j = k THEN {} ELSE {k + 1}) \cap DOMAIN findings
           /\ \A i \in DOMAIN rows : /\ rows[i].explained <=> i \in open /\ findings[i].recommendation
                                     /\ rows[i].jumpsTo = i
                                     /\ rows[i].severity # "low" => rows[i].severity = findings[i].severity

\* Of Harvey's conflicts too at most one is open, whether findings have identifiers or
\* not, and it alone lists its sources, at most so many of those it counts.
ASSUME OneConflictOpen ==
    \A ids \in {<<"f1", "f2">>, <<"f1", R!NoId>>, <<R!NoId, R!NoId>>} : \A k \in 1..2, cited \in 0..4 :
        LET findings == [i \in 1..2 |-> [id |-> ids[i], clause |-> "c", citations |-> cited]]
            panel(loading) == R!ConflictPanel(findings, loading, {R!ConflictId(findings[k], k)}, 3)
            rows == panel(FALSE).rows
        IN /\ {i \in 1..2 : rows[i].open} = {k}
           /\ \A i \in 1..2 : rows[i].sources <= rows[i].cited /\ rows[i].sources <= 3
                             /\ (i # k => rows[i].sources = 0)
           /\ panel(TRUE).rows = <<>>
=============================================================================
