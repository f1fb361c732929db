------------------------------- MODULE Listings -------------------------------
(***************************************************************************)
(* What the screens make of the lists they load: the rows and counts of    *)
(* the dashboard, search results, notifications, the history, the stages   *)
(* of a run, and the addresses of the screens (redesign/AppCore.jsx,       *)
(* Screens.jsx, MoreScreens.jsx).                                          *)
(*                                                                         *)
(* Lists are sequences in the order of their answers; names are what they  *)
(* are compared by.                                                        *)
(***************************************************************************)
EXTENDS Integers, SequencesExt

NoId == "none"
TakeFirst(s, n) == SubSeq(s, 1, IF Len(s) < n THEN Len(s) ELSE n)

-----------------------------------------------------------------------------
(***************************************************************************)
(* DashboardScreen.                                                        *)
(***************************************************************************)
\* The load of the page, also of the search: an answer is <<a list>>, or <<>> when its
\* request failed, which leaves the other list.
LoadLists(contracts, workspaces) ==
    [contracts |-> FlattenSeq(contracts), workspaces |-> FlattenSeq(workspaces)]

InProgress == {"created", "processing", "under_review"}

\* scopedContracts: a workspace is told by its identifier, or by its name; NoFilter is
\* the dashboard of all of them.
NoFilter == [id |-> NoId, name |-> NoId]
Scoped(contracts, filter) ==
    IF filter.id = NoId THEN contracts
    ELSE SelectSeq(contracts, LAMBDA c : c.space = filter.id \/ c.spaceName = filter.name)

\* filtered, and the number that the button of each filter shows
FilterStates(tab, states) ==
    CASE tab = "all" -> states
      [] tab = "review" -> {"awaiting_human_review"}
      [] tab = "progress" -> InProgress
      [] tab = "done" -> {"finalized"}
DashboardRows(contracts, filter, tab, states) ==
    SelectSeq(Scoped(contracts, filter), LAMBDA c : c.state \in FilterStates(tab, states))

\* workspaceCounts, which go by the identifier alone
WorkspaceCount(contracts, id) == Len(SelectSeq(contracts, LAMBDA c : c.space = id))

-----------------------------------------------------------------------------
(***************************************************************************)
(* Header and SearchOverlay.                                               *)
(***************************************************************************)
\* notifs: of every kind so many, and so many together
Notifications(rows, mostPending, mostRecent) ==
    LET pending == SelectSeq(rows, LAMBDA r : r.state = "awaiting_human_review")
        recent == SelectSeq(rows, LAMBDA r : r.state = "finalized" /\ r.action # NoId)
    IN TakeFirst(TakeFirst(pending, mostPending) \o TakeFirst(recent, mostRecent), mostPending)

\* results: a query takes more of each kind than an empty one, all of them together
\* fewer than the sum.
SearchResults(contracts, workspaces, matching, most) ==
    LET Matches(row) == row \in matching IN
    TakeFirst(TakeFirst(SelectSeq(contracts, Matches), most.contracts)
              \o TakeFirst(SelectSeq(workspaces, Matches), most.workspaces), most.together)

\* activeIdx: the arrows stop at both ends.
MoveActive(idx, key, n) ==
    IF key = "down" THEN (IF idx + 1 > n - 1 THEN (IF n = 0 THEN 0 ELSE n - 1) ELSE idx + 1)
    ELSE IF idx = 0 THEN 0 ELSE idx - 1

\* choose: what Enter, or a click on a row, opens.
Choose(results, idx) == IF idx + 1 \in DOMAIN results THEN results[idx + 1] ELSE NoId
\* The overlay as it is drawn: while the lists load there are no rows.
SearchOverlay(loading, results, idx) ==
    [says |-> IF loading THEN "loading" ELSE IF results = <<>> THEN "no results" ELSE "results",
     rows |-> IF loading THEN <<>>
              ELSE [k \in DOMAIN results |-> [result |-> results[k], active |-> k = idx + 1]]]

\* The bell has a dot when one of the notifications shown is of a run that awaits its
\* sign-off.
BellDot(notified) == \E k \in DOMAIN notified : notified[k].state = "awaiting_human_review"

\* timeAgo, of a time so many minutes ago
TimeAgo(m) ==
    CASE m < 1 -> <<"just now">> [] m \in 1..59 -> <<m, "m">>
      [] m >= 60 /\ m < 1440 -> <<m \div 60, "h">> [] OTHER -> <<m \div 1440, "d">>

\* What App draws; from an admin's screen a member is sent to the dashboard next.
Shell(loggedIn, screen, isOrgAdmin) ==
    IF ~loggedIn THEN "sign in"
    ELSE IF screen = "admin" /\ ~isOrgAdmin THEN "nothing" ELSE screen

-----------------------------------------------------------------------------
(***************************************************************************)
(* ContractDetailScreen and ProcessingScreen.                              *)
(***************************************************************************)
\* mapContractDetail: the newest version first, nothing counted yet.
MapContractDetail(versions) ==
    [k \in DOMAIN versions |-> [version |-> Reverse(versions)[k], count |-> 0]]
\* The version table: of a version without a run, or whose findings cannot be loaded,
\* no finding is counted.
VersionRows(versions, findings) ==
    [k \in DOMAIN versions |->
        LET v == MapContractDetail(versions)[k].version
        IN [version |-> v, count |-> IF v.run = NoId THEN 0 ELSE Len(findings[v.run])]]

\* displayStages: of the stages of a run those that have a name on the screen, each
\* pending until the run has a row of it.
DisplayStages(names, stages) ==
    [k \in DOMAIN names |->
        LET rows == SelectSeq(stages, LAMBDA r : r.name = names[k])
        IN IF rows = <<>> THEN [name |-> names[k], state |-> "pending", error |-> NoId]
           ELSE Last(rows)]

\* pct, rounded as Math.round does
PercentDone(shown) ==
    (200 * Len(SelectSeq(shown, LAMBDA r : r.state = "done")) + Len(shown)) \div (2 * Len(shown))

\* failureMessage: the reason of the block, or the error of the first failed stage
FailureMessage(shown, blockedReason) ==
    LET failed == SelectSeq(shown, LAMBDA r : r.state \in {"failed", "blocked"})
    IN IF blockedReason # NoId THEN blockedReason
       ELSE IF failed = <<>> THEN NoId ELSE Head(failed).error

\* The row of a stage.  Why it failed is said below it.
StageRow(r) ==
    [says |-> CASE r.state = "done" -> "Done" [] r.state = "retrying" -> "Retrying"
                [] r.state = "running" -> "Running" [] r.state \in {"failed", "blocked"} -> "Failed"
                [] OTHER -> "-",
     why |-> IF r.state \in {"failed", "blocked"} THEN r.error ELSE NoId]

-----------------------------------------------------------------------------
(***************************************************************************)
(* HistoryScreen.                                                          *)
(***************************************************************************)
\* historyGroup of an entry that is so many days old; older entries go by their month.
HistoryGroup(age, month) ==
    CASE age <= 0 -> "Today" [] age = 1 -> "Yesterday"
      [] age \in 2..7 -> "This Week" [] OTHER -> month

\* groups: in the order in which their first entries come
HistoryGroups(entries) ==
    FoldLeft(LAMBDA groups, e :
                LET label == HistoryGroup(e.age, e.month)
                    at == {k \in DOMAIN groups : groups[k].label = label}
                IN IF at = {} THEN Append(groups, [label |-> label, entries |-> <<e>>])
                   ELSE [groups EXCEPT ![CHOOSE k \in at : TRUE].entries = Append(@, e)],
             <<>>, entries)

\* The tabs, but for the first only those that have entries
HistoryTabs(entries) ==
    {t \in {"awaiting_human_review", "finalized", "processing", "failed"} :
        \E k \in DOMAIN entries : entries[k].state = t} \cup {"all"}
HistoryRows(entries, tab) ==
    IF tab = "all" THEN entries ELSE SelectSeq(entries, LAMBDA e : e.state = tab)

\* historyDot and historyStatusText: colours of an entry's dot and of its words
HistoryDot(e) ==
    CASE e.action = "approved" -> "green" [] e.action = "rejected" -> "red"
      [] e.action = NoId /\ e.state \in {"awaiting_human_review", "processing"} -> "accent"
      [] e.action = NoId /\ e.state \in {"failed", "blocked"} -> "red"
      [] e.action = NoId /\ e.state = "finalized" -> "green" [] OTHER -> "grey"
StateColor(state) ==
    CASE state = "finalized" -> "green" [] state \in {"awaiting_human_review", "processing"} -> "accent"
      [] state \in {"failed", "blocked", "rejected"} -> "red"
      [] state = "under_review" -> "amber" [] state = "created" -> "dark" [] OTHER -> "grey"
HistoryStatusText(e) ==
    CASE e.action = "approved" -> "green" [] e.action = "rejected" -> "red"
      [] OTHER -> StateColor(e.state)

-----------------------------------------------------------------------------
(***************************************************************************)
(* Addresses.  The segments of a path, "/" having none.                    *)
(***************************************************************************)
ScreenToUrl(s, id, run) ==
    CASE s = "contract_detail" /\ id # NoId -> <<"contracts", id>>
      [] s = "verdict" /\ id # NoId /\ run # NoId -> <<"contracts", id, "runs", run>>
      [] s = "new_contract" -> <<"new">>
      [] s \in {"processing", "history", "profile", "admin"} -> <<s>>
      [] OTHER -> <<>>

UrlToScreen(path) ==
    LET To(s, id, run) == [screen |-> s, id |-> id, run |-> run] IN
    CASE Len(path) = 4 /\ path[1] = "contracts" /\ path[3] = "runs" -> To("verdict", path[2], path[4])
      [] Len(path) = 2 /\ path[1] = "contracts" -> To("contract_detail", path[2], NoId)
      [] path = <<"new">> -> To("new_contract", NoId, NoId)
      [] Len(path) = 1 /\ path[1] \in {"processing", "history", "profile", "admin"} -> To(path[1], NoId, NoId)
      [] OTHER -> To("dashboard", NoId, NoId)
=============================================================================
