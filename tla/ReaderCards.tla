------------------------------ MODULE ReaderCards ------------------------------
(***************************************************************************)
(* What the document page shows beside and in the text: the findings'      *)
(* cards and the comments' cards (components/ContractReader.tsx), the look *)
(* of a paragraph (components/DocumentEditor.tsx), and the addresses of    *)
(* the four exports (lib/api.ts, redesign/backend.js).                     *)
(*                                                                         *)
(* A finding's recommended change is the heading of its section, which may *)
(* be absent, and what follows it; both are sequences of words, and so are *)
(* the clause and the quotation of its evidence.                           *)
(***************************************************************************)
EXTENDS PageText

Cut(s, n) == SubSeq(s, 1, IF Len(s) < n THEN Len(s) ELSE n)

-----------------------------------------------------------------------------
(***************************************************************************)
(* The findings' cards.                                                    *)
(***************************************************************************)
\* ordered: the findings that are not hidden, numbered from 1
OrderFindings(findings, hidden) ==
    LET left == SelectSeq(findings, LAMBDA f : f.id \notin hidden)
    IN [k \in DOMAIN left |-> [finding |-> left[k], index |-> k]]

\* A click on a mark of the text opens the finding's card; its own head toggles it.
Expand(expanded, id, by) ==
    IF by = "head" /\ id \in expanded THEN expanded \ {id} ELSE expanded \cup {id}

\* firstFindingQuote, and what the proposal is compared with
FirstFindingQuote(f) == IF f.quote # <<>> THEN f.quote ELSE f.clause
Compared(f) == IF f.clause # <<>> THEN f.clause ELSE f.quote

\* recommended_change, and without its heading unless nothing else is left
Replacement(f) == f.heading \o f.body
CleanedReplacement(f) == IF f.body = <<>> THEN Replacement(f) ELSE f.body

\* SuggestionCard, opened.  Of a long diff the first chunks are shown at first.
DiffChunks(f, mostWords) ==
    IF Replacement(f) = <<>> \/ Compared(f) = <<>> THEN <<>>
    ELSE ComputeWordDiff(Compared(f), CleanedReplacement(f), mostWords)
SuggestionCard(f, showFullDiff, mostWords, mostChunks) ==
    LET diff == DiffChunks(f, mostWords)
        meaningful == \E k \in DOMAIN diff : diff[k].type # "keep"
        shown == IF showFullDiff THEN diff ELSE Cut(diff, mostChunks)
        Card(says, chunks, more) == [says |-> says, chunks |-> chunks, more |-> more]
    IN CASE Replacement(f) # <<>> /\ meaningful -> Card("change", shown, Len(diff) - Len(shown))
         [] Replacement(f) # <<>> /\ ~meaningful -> Card("replace", <<>>, 0)
         [] Replacement(f) = <<>> /\ f.guidance -> Card("action", <<>>, 0)
         [] OTHER -> Card("nothing", <<>>, 0)

\* The button that accepts is enabled, and what it sends: "refused" is the error that
\* the page shows in place of a request.
Acceptable(f) == f.category = "recommendation" \/ Replacement(f) # <<>>
AcceptSends(f) ==
    IF Replacement(f) = <<>> /\ f.category # "recommendation" THEN <<"refused">>
    ELSE <<"sent", Replacement(f)>>

-----------------------------------------------------------------------------
(***************************************************************************)
(* The comments' cards and the paragraphs.                                 *)
(***************************************************************************)
\* AnnotationCard: numbered in the order of the list.
AnnotationCards(annotations, active, hovered) ==
    [k \in DOMAIN annotations |->
        [num |-> k, id |-> annotations[k], highlighted |-> annotations[k] \in {active, hovered}]]

\* DocumentBlock: what stands in place of a paragraph, and what goes with it
OpenSuggestion(b, showRedlines) == showRedlines /\ b.pending /\ b.text = b.original
RenderContent(b, isEditing, showRedlines, findingMarks) ==
    CASE isEditing -> "editor"
      [] ~isEditing /\ OpenSuggestion(b, showRedlines) -> "diff"
      [] /\ ~isEditing /\ ~OpenSuggestion(b, showRedlines)
         /\ b.anchors # {} \/ (showRedlines /\ findingMarks # {}) -> "anchors"
      [] OTHER -> IF b.marks # {} THEN "marks" ELSE "plain"
DocumentBlock(b, isEditing, viewMode, showRedlines, findingMarks, active, hovered) ==
    [content |-> RenderContent(b, isEditing, showRedlines, findingMarks),
     clickToEdit |-> viewMode = "edit" /\ ~isEditing,
     editedLine |-> b.text # b.original /\ ~b.pending,
     bar |-> OpenSuggestion(b, showRedlines),
     highlighted |-> b.anchors \cap {active, hovered} # {}]

\* PRINT_STYLE: of a paragraph that shows a diff, what is printed
Printed(chunks) == ReadDiff(chunks, "add")

-----------------------------------------------------------------------------
(***************************************************************************)
(* Exports.  An address is the sequence of its parts.                      *)
(***************************************************************************)
NoToken == "no token"
WithAuthQuery(url, token) ==
    IF token = NoToken THEN url
    ELSE url \o <<IF "?" \in ToSet(url) THEN "&" ELSE "?", token>>

\* getRunFileUrl, getDocxExportUrl, getEditedPdfUrl
GetRunFileUrl(run, token) == WithAuthQuery(<<run, "file">>, token)
GetDocxExportUrl(run, original, token) ==
    WithAuthQuery(<<run, "export-docx">> \o IF original THEN <<"?", "original">> ELSE <<>>, token)
GetEditedPdfUrl(run, token) == WithAuthQuery(<<run, "export-edited">>, token)

\* The export menu of the document page: of the original and the modified contract
\* both formats.
ExportMenu ==
    [version : {"original", "modified"}, format : {"PDF", "DOCX"}]
ExportUrl(item, run, token) ==
    CASE item.format = "DOCX" -> GetDocxExportUrl(run, item.version = "original", token)
      [] item.format = "PDF" /\ item.version = "original" -> GetRunFileUrl(run, token)
      [] OTHER -> GetEditedPdfUrl(run, token)

\* getRunFileUrl and getRunExportUrl of backend.js, for the next steps of a report
RunUrl(run, what, token) == <<run, what>> \o IF token = NoToken THEN <<>> ELSE <<"?", token>>
NextStepUrl(action, run, token) ==
    RunUrl(run, IF action = "export_edited" THEN "export-edited" ELSE "file", token)
=============================================================================
