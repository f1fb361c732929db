------------------------------ MODULE ReviewDesk ------------------------------
(***************************************************************************)
(* One run on the screen of a reviewer: the Analysis tab with the sign-off *)
(* and the team's notes (redesign/VerdictView.jsx), and the Document tab   *)
(* with the draft, its suggestion and its comments                         *)
(* (components/ContractReader.tsx, components/DocumentEditor.tsx,          *)
(* lib/api.ts).  Pages share nothing but the server and hear of each other *)
(* by polling it, so that the other reviewers are what they do to it.      *)
(*                                                                         *)
(* The document is one clause with one suggestion; its text is the         *)
(* original, the suggestion, or what the user or a teammate typed.         *)
(***************************************************************************)
EXTENDS Naturals

CONSTANTS
    MaxActs,   \* bound: what the user does
    MaxOthers, \* bound: what the teammates do
    MaxFaults  \* bound: requests and answers lost

ASSUME DeskAssumption == {MaxActs, MaxOthers, MaxFaults} \subseteq Nat

VARIABLES
    text,      \* server: the clause as the draft shows it
    decided,   \* server: how the finding was decided, which may be both ways
    annotations, comments, \* server: open annotations, comments of the run
    author,    \* server: who wrote each of them
    review,    \* server: the decision on the run
    reviews,   \* server: who recorded which decisions on it
    tab,       \* activeTab
    mode,      \* viewMode: the reader comments or edits
    redlines,  \* showRedlines
    hidden,    \* is the finding in hiddenFindingIds?
    draft,     \* the draft the page shows
    failed,    \* loadErr: the page shows an error instead
    load,      \* the load that draftRefreshKey asked for
    poll,      \* the draft's poll under way
    cards,     \* how often the list of the tab shows each note
    listPoll,  \* the list's poll under way
    editing,   \* is the paragraph edited?
    ask,       \* the writes under way
    approved,  \* approved of the sign-off panel
    acts, others, faults

vars == <<text, decided, annotations, comments, author, review, reviews, tab, mode, redlines,
          hidden, draft, failed, load, poll, cards, listPoll, editing, ask, approved,
          acts, others, faults>>
server == <<text, decided, annotations, comments, author, review, reviews>>
view == <<tab, mode, redlines>>
document == <<draft, editing>>
loads == <<load, failed>>
lists == <<cards, listPoll>>
bounds == <<acts, others, faults>>

Note == 1..MaxActs + MaxOthers
Write == {"accept", "dismiss", "save", "annotate", "post", "remove", "approve", "reject"}
Verdicts == {"approve", "reject"}
Text == {"original", "suggested", "mine", "theirs"}
Snapshot == [text : Text \cup {"none"}, pending : BOOLEAN]

Nothing == [text |-> "none", pending |-> FALSE]
NoAsk == [at |-> "no", note |-> 0]
Idle == [at |-> "no", draft |-> Nothing]
Due == [at |-> "due", draft |-> Nothing]
\* The Document tab loads the draft when it opens.
Loading(t) == IF t = "document" THEN Due ELSE Idle
NoList == [at |-> "no", notes |-> {}]

\* The page opens on its Analysis tab, or has been on the Document tab for a while.
Init ==
    /\ text = "original" /\ decided = {} /\ annotations = {} /\ comments = {}
    /\ author = [n \in Note |-> "nobody"] /\ review = "awaiting" /\ reviews = {}
    /\ tab \in {"analysis", "document"} /\ redlines = TRUE
    /\ mode \in IF tab = "document" THEN {"comment", "edit"} ELSE {"comment"}
    /\ hidden = FALSE /\ draft = Nothing /\ failed = FALSE
    /\ load = Loading(tab) /\ poll = Idle
    /\ cards = [n \in Note |-> 0] /\ listPoll = NoList
    /\ editing = FALSE
    /\ ask = [w \in Write |-> NoAsk]
    /\ approved = FALSE
    /\ acts = 0 /\ others = 0 /\ faults = 0

-----------------------------------------------------------------------------
\* GET document-draft: the suggestion is pending until the finding is decided.
Served == [text |-> text, pending |-> decided = {}]

\* GET annotations, GET comments: the list of the tab.
Listed == IF tab = "document" THEN annotations ELSE comments

Acts == acts < MaxActs /\ acts' = acts + 1
Faults == faults < MaxFaults /\ faults' = faults + 1
Sends(w, n) == ask[w] = NoAsk /\ ask' = [ask EXCEPT ![w] = [at |-> "sent", note |-> n]]
Hears(w, at) == ask[w].at = at /\ ask' = [ask EXCEPT ![w] = NoAsk]

-----------------------------------------------------------------------------
\* A tab unmounts the other: lists, polls, drafts and hiddenFindingIds start anew,
\* and nobody hears the answers but the sign-off's.
OpenTab(t) ==
    /\ tab # t
    /\ Acts
    /\ tab' = t
    /\ mode' = "comment" /\ redlines' = TRUE
    /\ hidden' = FALSE /\ draft' = Nothing /\ failed' = FALSE
    /\ load' = Loading(t) /\ poll' = Idle
    /\ cards' = [n \in Note |-> 0] /\ listPoll' = NoList
    /\ editing' = FALSE
    /\ ask' = [w \in Write |-> IF w \in Verdicts THEN ask[w]
                               ELSE IF ask[w].at \in {"sent", "adrift"} THEN [ask[w] EXCEPT !.at = "adrift"]
                               ELSE NoAsk]
    /\ UNCHANGED <<server, approved, others, faults>>

\* The toolbar of the reader; an edited paragraph stays so.
ToggleView ==
    /\ tab = "document"
    /\ Acts
    /\ \/ mode' = (IF mode = "edit" THEN "comment" ELSE "edit") /\ UNCHANGED redlines
       \/ redlines' = ~redlines /\ UNCHANGED mode
    /\ UNCHANGED <<server, tab, hidden, document, loads, poll, lists, ask, approved, others, faults>>

-----------------------------------------------------------------------------
\* The effect of DocumentEditor keyed by draftRefreshKey.  A load that is under
\* way when the key moves on is cancelled.
Refresh == load' = Due /\ failed' = FALSE

ServeLoad ==
    /\ load.at = "due"
    /\ load' = [at |-> "served", draft |-> Served]
    /\ UNCHANGED <<server, view, hidden, document, failed, poll, lists, ask, approved, bounds>>

LoadAnswered ==
    /\ load.at = "served"
    /\ draft' = load.draft
    /\ load' = Idle
    /\ UNCHANGED <<server, view, hidden, editing, failed, poll, lists, ask, approved, bounds>>

LoadFailed ==
    /\ load.at # "no"
    /\ Faults
    /\ load' = Idle /\ failed' = TRUE /\ editing' = FALSE
    /\ UNCHANGED <<server, view, hidden, draft, poll, lists, ask, approved, acts, others>>

\* The poll of the draft, every 15 s, is neither keyed nor cancelled...
PollServed ==
    /\ tab = "document"
    /\ poll.at = "no"
    /\ poll' = [at |-> "served", draft |-> Served]
    /\ UNCHANGED <<server, view, hidden, document, loads, lists, ask, approved, bounds>>

\* ...so that its answer may be older than what the page shows.  It replaces
\* the text under the cursor, too.  A poll that fails changes nothing.
PollAnswered ==
    /\ poll.at = "served"
    /\ draft' = poll.draft
    /\ poll' = Idle
    /\ UNCHANGED <<server, view, hidden, editing, loads, lists, ask, approved, bounds>>

\* Mutant: a list is polled until it has something to show.
ListOnce ==
    /\ \A n \in Note : cards[n] = 0
    /\ listPoll.at = "no"
    /\ listPoll' = [at |-> "served", notes |-> Listed]
    /\ UNCHANGED <<server, view, hidden, document, loads, poll, cards, ask, approved, bounds>>

\* The lists poll, too: annotations every 8 s, comments every 5 s.
ListServed ==
    /\ listPoll.at = "no"
    /\ listPoll' = [at |-> "served", notes |-> Listed]
    /\ UNCHANGED <<server, view, hidden, document, loads, poll, cards, ask, approved, bounds>>

\* Mutant: a poll adds to the list what it brings.
AppendList ==
    /\ listPoll.at = "served"
    /\ cards' = [n \in Note |-> cards[n] + IF n \in listPoll.notes THEN 1 ELSE 0]
    /\ listPoll' = NoList
    /\ UNCHANGED <<server, view, hidden, document, loads, poll, ask, approved, bounds>>

ListAnswered ==
    /\ listPoll.at = "served"
    /\ cards' = [n \in Note |-> IF n \in listPoll.notes THEN 1 ELSE 0]
    /\ listPoll' = NoList
    /\ UNCHANGED <<server, view, hidden, document, loads, poll, ask, approved, bounds>>

-----------------------------------------------------------------------------
\* The paragraphs are on the screen.
Offers == tab = "document" /\ ~failed /\ draft # Nothing
\* The bar under a paragraph with a pending suggestion, unless it was edited.
Bar == Offers /\ redlines /\ draft.pending /\ draft.text = "original"
\* The finding's card in the margin.
Card == tab = "document" /\ ~hidden

\* "Optimistically remove the pending suggestion from the relevant block": the bar
\* shows the outcome before anyone asked the server; the card does not.
Decide(w) ==
    /\ Acts
    /\ \/ /\ Bar
          /\ draft' = [pending |-> FALSE,
                       text |-> IF w = "accept" THEN "suggested" ELSE draft.text]
       \/ Card /\ UNCHANGED draft
    /\ Sends(w, 0)
    /\ UNCHANGED <<server, view, hidden, editing, loads, poll, lists, approved, others, faults>>

\* handleAccept, handleDismiss: the card goes when the server has decided.
DecisionDone(w) ==
    /\ Hears(w, "ok")
    /\ hidden' = TRUE
    /\ IF w = "accept" THEN Refresh ELSE UNCHANGED loads
    /\ UNCHANGED <<server, view, document, poll, lists, approved, bounds>>

DecisionFailed(w) ==
    /\ Hears(w, "failed")
    /\ UNCHANGED <<server, view, hidden, document, loads, poll, lists, approved, bounds>>

-----------------------------------------------------------------------------
\* startEdit, and Escape, which does not wait for a save under way.
StartEdit ==
    /\ Offers /\ mode = "edit" /\ ~editing
    /\ Acts
    /\ editing' = TRUE
    /\ UNCHANGED <<server, view, hidden, draft, loads, poll, lists, ask, approved, others, faults>>

CancelEdit ==
    /\ editing
    /\ editing' = FALSE
    /\ UNCHANGED <<server, view, hidden, draft, loads, poll, lists, ask, approved, bounds>>

\* commitEdit, on blur or Ctrl+Enter: a text like the one shown is not saved.
CommitEdit ==
    /\ editing /\ draft.text # "mine"
    /\ Sends("save", 0)
    /\ UNCHANGED <<server, view, hidden, document, loads, poll, lists, approved, bounds>>

\* handleSave patches the clause, whatever the draft has become; a failure is
\* not shown.
SaveDone ==
    /\ \/ Hears("save", "ok") /\ draft' = [draft EXCEPT !.text = "mine"]
       \/ Hears("save", "failed") /\ UNCHANGED draft
    /\ editing' = FALSE
    /\ UNCHANGED <<server, view, hidden, loads, poll, lists, approved, bounds>>

-----------------------------------------------------------------------------
\* saveSelectionComment of the Document tab, post of the Analysis tab.
PostNote ==
    /\ \/ Offers /\ mode = "comment" /\ Sends("annotate", 0)
       \/ tab = "analysis" /\ Sends("post", 0)
    /\ Acts
    /\ UNCHANGED <<server, view, hidden, document, loads, poll, lists, approved, others, faults>>

\* The new note is appended to the list, which a poll may already have brought.
NoteDone ==
    /\ \E w \in {"annotate", "post"} :
         Hears(w, "ok") /\ cards' = [cards EXCEPT ![ask[w].note] = @ + 1]
    /\ IF tab = "document" THEN Refresh ELSE UNCHANGED loads
    /\ UNCHANGED <<server, view, hidden, document, poll, listPoll, approved, bounds>>

\* removeAnnotation, which is offered on every note, and remove, on one's own.
RemoveNote ==
    /\ Acts
    /\ \E n \in Note : /\ cards[n] > 0
                       /\ tab = "document" \/ author[n] = "me"
                       /\ Sends("remove", n)
    /\ UNCHANGED <<server, view, hidden, document, loads, poll, lists, approved, others, faults>>

NoteRemoved ==
    /\ Hears("remove", "ok")
    /\ cards' = [cards EXCEPT ![ask["remove"].note] = 0]
    /\ IF tab = "document" THEN Refresh ELSE UNCHANGED loads
    /\ UNCHANGED <<server, view, hidden, document, poll, listPoll, approved, bounds>>

NoteFailed ==
    /\ \E w \in {"annotate", "post", "remove"} : Hears(w, "failed")
    /\ UNCHANGED <<server, view, hidden, document, loads, poll, lists, approved, bounds>>

-----------------------------------------------------------------------------
\* Approve and Reject, which are offered whatever has become of the run, and each of
\* them while the other is under way.
SignOff ==
    /\ tab = "analysis" /\ ~approved
    /\ Acts
    /\ \E w \in Verdicts : Sends(w, 0)
    /\ UNCHANGED <<server, view, hidden, document, loads, poll, lists, approved, others, faults>>

\* "Your approval has been recorded."
SignedOff ==
    /\ \E w \in Verdicts : Hears(w, "ok") /\ approved' = (approved \/ w = "approve")
    /\ UNCHANGED <<server, view, hidden, document, loads, poll, lists, bounds>>

\* Mutant: the panel thanks for an approval whatever the answer.
ThankAnyway ==
    /\ \E w \in Verdicts : Hears(w, "failed") /\ approved' = (approved \/ w = "approve")
    /\ UNCHANGED <<server, view, hidden, document, loads, poll, lists, bounds>>

SignOffFailed ==
    /\ \E w \in Verdicts : Hears(w, "failed")
    /\ UNCHANGED <<server, view, hidden, document, loads, poll, lists, approved, bounds>>

-----------------------------------------------------------------------------
\* What the server does with a write.
Accept == /\ text' = "suggested" /\ decided' = decided \cup {"accepted"}
          /\ UNCHANGED <<annotations, comments, author, review, reviews>>
Dismiss == /\ decided' = decided \cup {"dismissed"}
           /\ UNCHANGED <<text, annotations, comments, author, review, reviews>>
Save(who) == /\ text' = IF who = "me" THEN "mine" ELSE "theirs"
             /\ UNCHANGED <<decided, annotations, comments, author, review, reviews>>

Create(who, w, n) ==
    /\ author[n] = "nobody" /\ \A m \in Note : m < n => author[m] # "nobody"
    /\ author' = [author EXCEPT ![n] = who]
    /\ IF w = "annotate" THEN annotations' = annotations \cup {n} /\ UNCHANGED comments
       ELSE comments' = comments \cup {n} /\ UNCHANGED annotations
    /\ UNCHANGED <<text, decided, review, reviews>>

\* Only its author deletes a note.
Delete(who, n) ==
    /\ author[n] = who /\ n \in annotations \cup comments
    /\ annotations' = annotations \ {n} /\ comments' = comments \ {n}
    /\ UNCHANGED <<text, decided, author, review, reviews>>

\* What submit_human_review writes, on the strength of a status it read before.  Nothing
\* is locked meanwhile, so that of two decisions the later one stands, on two records.
Sign(who, w) == /\ review' = IF w = "approve" THEN "approved" ELSE "rejected"
                /\ reviews' = reviews \cup {<<who, w>>}
                /\ UNCHANGED <<text, decided, annotations, comments, author>>

Perform(who, w, n) ==
    \/ w = "accept" /\ Accept
    \/ w = "dismiss" /\ Dismiss
    \/ w = "save" /\ Save(who)
    \/ w \in {"annotate", "post"} /\ Create(who, w, n)
    \/ w = "remove" /\ Delete(who, n)
    \/ w \in Verdicts /\ Sign(who, w)

\* submit_human_review read the run's status.
JudgeSign(w) ==
    /\ ask[w].at = "sent" /\ review = "awaiting"
    /\ ask' = [ask EXCEPT ![w].at = "judged"]
    /\ UNCHANGED <<server, view, hidden, document, loads, poll, lists, approved, bounds>>

\* The server is ready to write.
Ready(w) == ask[w].at \in (IF w \in Verdicts THEN {"judged"} ELSE {"sent", "adrift"})

Forbidden(w, n) ==
    \/ w = "remove" /\ ~(author[n] = "me" /\ n \in annotations \cup comments)
    \/ w \in Verdicts /\ ask[w].at = "sent" /\ review # "awaiting"

Reply(w, at, n) ==
    ask' = [ask EXCEPT ![w] = IF ask[w].at = "adrift" THEN NoAsk ELSE [at |-> at, note |-> n]]

\* A response that is not ok becomes an error; so does a lost request or answer.
ServeWrite(w) ==
    /\ ask[w].at \in {"sent", "adrift", "judged"}
    /\ \/ \E n \in IF w \in {"annotate", "post"} THEN Note ELSE {ask[w].note} :
            /\ Ready(w)
            /\ Perform("me", w, n)
            /\ \/ Reply(w, "ok", n) /\ UNCHANGED faults
               \/ Reply(w, "failed", n) /\ Faults
       \/ Forbidden(w, ask[w].note) /\ Reply(w, "failed", 0) /\ UNCHANGED <<server, faults>>
       \/ Faults /\ Reply(w, "failed", 0) /\ UNCHANGED server
    /\ UNCHANGED <<view, hidden, document, loads, poll, lists, approved, acts, others>>

\* The other reviewers, on pages of their own; a decision of theirs may have been
\* judged while the run was awaiting one.
Teammate ==
    /\ others < MaxOthers /\ others' = others + 1
    /\ \E w \in Write, n \in Note : Perform("them", w, n)
    /\ UNCHANGED <<view, hidden, document, loads, poll, lists, ask, approved, acts, faults>>

-----------------------------------------------------------------------------
User == \/ \E t \in {"analysis", "document"} : OpenTab(t)
        \/ ToggleView
        \/ \E w \in {"accept", "dismiss"} : Decide(w)
        \/ StartEdit \/ CancelEdit \/ CommitEdit
        \/ PostNote \/ RemoveNote \/ SignOff
Loads == ServeLoad \/ LoadAnswered
Polls == PollServed \/ PollAnswered
Lists == ListServed \/ ListAnswered
Answers == \/ \E w \in {"accept", "dismiss"} : DecisionDone(w) \/ DecisionFailed(w)
           \/ SaveDone \/ NoteDone \/ NoteRemoved \/ NoteFailed
           \/ SignedOff \/ SignOffFailed
Serves == \/ \E w \in Verdicts : JudgeSign(w)
          \/ \E w \in Write : ServeWrite(w)

Next == User \/ Teammate \/ Loads \/ LoadFailed \/ Polls \/ Lists \/ Answers \/ Serves

Spec == Init /\ [][Next]_vars

\* The timers fire, and what is asked is answered.
Fairness == /\ WF_vars(Loads) /\ WF_vars(Polls) /\ WF_vars(Lists)
            /\ WF_vars(Answers) /\ WF_vars(Serves)

FairSpec == Spec /\ Fairness

-----------------------------------------------------------------------------
\* Types: the page shows one of its tabs, and every request is in a known state.
TypeOK ==
    /\ text \in Text
    /\ decided \subseteq {"accepted", "dismissed"}
    /\ annotations \subseteq Note /\ comments \subseteq Note
    /\ author \in [Note -> {"nobody", "me", "them"}]
    /\ review \in {"awaiting", "approved", "rejected"}
    /\ reviews \subseteq {"me", "them"} \X Verdicts
    /\ tab \in {"analysis", "document"} /\ mode \in {"comment", "edit"}
    /\ {redlines, hidden, failed, editing, approved} \subseteq BOOLEAN
    /\ draft \in Snapshot
    /\ load \in [at : {"no", "due", "served"}, draft : Snapshot]
    /\ poll \in [at : {"no", "served"}, draft : Snapshot]
    /\ cards \in [Note -> 0..2]
    /\ listPoll \in [at : {"no", "served"}, notes : SUBSET Note]
    /\ ask \in [Write -> [at : {"no", "sent", "judged", "adrift", "ok", "failed"},
                          note : Note \cup {0}]]
    /\ acts \in 0..MaxActs /\ others \in 0..MaxOthers
    /\ faults \in 0..MaxFaults

\* What the page shows as done is done: a card leaves the findings' list only when
\* the server has decided its finding, and a page says "Your approval has been
\* recorded" only when it is on record, whatever failed, got lost or came late.  The
\* approval need not stand, but only a rejection, on record too, can have replaced it:
\* a teammate's, or the user's own from the same panel.
ConfirmedOnly ==
    /\ hidden => decided # {}
    /\ approved => /\ <<"me", "approve">> \in reviews
                   /\ \/ review = "approved"
                      \/ review = "rejected" /\ \E who \in {"me", "them"} : <<who, "reject">> \in reviews

\* However polls, reloads and optimistic changes overtake each other, the document
\* and the notes that are shown become and stay the server's, teammates' changes
\* included: what a poll forgot, revived or doubled heals.  Only a failed load keeps
\* its error.
Converges ==
    <>[] /\ tab = "document" => failed \/ draft = Served
         /\ \A n \in Note : cards[n] = IF n \in Listed THEN 1 ELSE 0
=============================================================================
