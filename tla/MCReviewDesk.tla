----------------------------- MODULE MCReviewDesk -----------------------------
(***************************************************************************)
(* ReviewDesk for one page: its Document tab is open, or its Analysis tab. *)
(* What the page does with texts is evaluated for all texts of a few words *)
(* or characters.                                                          *)
(***************************************************************************)
EXTENDS ReviewDesk, ReaderCards

Word == [stem : {"a", "b"}, form : {"lower", "upper"}]
Words == BoundedSeq(Word, 3)
Letters == BoundedSeq({"a", "b", "A", " "}, 3)
Longest == <<"a", " ", "b">>

\* A word diff is one: without the additions it is the original up to the form of
\* letters, without the deletions it is the replacement, and it keeps as much as
\* possible, unless a side has more words than are compared.
ASSUME DiffIsFaithful ==
    \A o, r \in Words, most \in {2, 3} :
        LET d == ComputeWordDiff(o, r, most)
            stems(w) == [k \in DOMAIN w |-> w[k].stem]
            Sub(w) == {[k \in 1..Cardinality(s) |-> stems(w)[SetToSortSeq(s, <)[k]]] : s \in SUBSET DOMAIN w}
            kept == Len(ReadDiff(d, "keep"))
        IN /\ stems(ReadDiff(d, "del")) = stems(o)
           /\ ReadDiff(d, "add") = r
           /\ IF Len(o) <= most /\ Len(r) <= most
              THEN kept = CHOOSE n \in 0..3 : /\ \E s \in Sub(o) \cap Sub(r) : Len(s) = n
                                              /\ \A s \in Sub(o) \cap Sub(r) : Len(s) <= n
              ELSE kept = 0

\* No chunk is followed by one of its kind.
ASSUME ChunksAreMerged ==
    \A o, r \in Words :
        LET d == ComputeWordDiff(o, r, 3) IN
        \A k \in 1..(Len(d) - 1) : d[k].type # d[k + 1].type

Shown(pieces) == FlattenSeq([k \in DOMAIN pieces |-> pieces[k].text])
\* The look of every character.
Looks(pieces) == FlattenSeq([k \in DOMAIN pieces |-> [c \in DOMAIN pieces[k].text |-> pieces[k].look]])
Covers(s, c) == s.from < c /\ c <= s.to

\* Wherever anchors begin and end, outside of the text included, the whole text is
\* shown once, and every character as the first comment or else finding over it.
ASSUME AnchorsKeepText ==
    \A f1, t1, f2, t2, f3, t3 \in {-1, 0, 1, 2, 4} :
        LET comments_ == <<[id |-> "c1", from |-> f1, to |-> t1], [id |-> "c2", from |-> f2, to |-> t2]>>
            findings == <<[id |-> "f1", from |-> f3, to |-> t3]>>
            all == comments_ \o findings
            pieces == RenderTextWithAllAnchors(Longest, comments_, findings)
        IN /\ Shown(pieces) = Longest
           /\ \A c \in 1..3 :
                 Looks(pieces)[c] =
                     IF \E k \in 1..3 : Covers(all[k], c)
                     THEN all[CHOOSE k \in 1..3 : Covers(all[k], c) /\ \A j \in 1..(k - 1) : ~Covers(all[j], c)].id
                     ELSE "plain"

\* Marks show the whole text, each character formatted by the marks that cover it,
\* unless a mark ends where, or within, one of its type that goes on.
ASSUME MarksKeepText ==
    \A f1, f2 \in 0..3, t1, t2 \in 0..3, type \in {"bold", "italic"} :
        LET marks == <<[type |-> "bold", from |-> f1, to |-> t1], [type |-> type, from |-> f2, to |-> t2]>>
            pieces == ApplyMarks(Longest, marks)
            Ends(m, n) == m.type = n.type /\ n.from <= m.to /\ m.to < n.to
            clean == \A j, k \in 1..2 : j # k => ~Ends(marks[j], marks[k])
        IN f1 < t1 /\ f2 < t2 =>
             /\ Shown(pieces) = Longest
             /\ clean => \A c \in 1..3 : Looks(pieces)[c] = {marks[m].type : m \in {m \in 1..2 : Covers(marks[m], c)}}

\* A comment on a selection, shown again, covers what was selected, provided that
\* the text is normal.
ASSUME SelectionsAreFound ==
    \A block \in Letters : \A from \in 0..Len(block) : \A to \in from..Len(block) :
        LET selected == Slice(block, from, to)
            d == CaptureSelection(selected, block)
        IN Trim(Collapse(block)) = block /\ Trim(selected) # <<>>
             => Lower(Slice(block, d.from, d.to)) = Lower(Trim(selected))

\* Evidence is marked where it is quoted, and every finding is marked somewhere.
ASSUME EvidenceIsMarked ==
    \A evidence, block \in Letters, most \in {2, 3} :
        LET marks == FindingMarks(evidence, <<block, Longest>>, most)
            quoted == Lower(Trim(Collapse(evidence)))
            cut == SubSeq(quoted, 1, IF Len(quoted) < most THEN Len(quoted) ELSE most)
        IN /\ marks # <<>>
           /\ evidence # <<>> /\ Collapse(block) = block /\ IndexOf(Lower(block), cut) >= 0
                => Lower(Slice(block, marks[1].from, marks[1].to)) = cut

\* Every block is on one page, and pages and their blocks are in order.
ASSUME PagesKeepBlocks ==
    \A p1, p2, p3 \in 1..3 :
        LET blocks == <<[id |-> 1, page |-> p1], [id |-> 2, page |-> p2], [id |-> 3, page |-> p3]>>
            pages == Pages(blocks)
            all == FlattenSeq([k \in DOMAIN pages |-> pages[k].blocks])
        IN /\ ToSet(all) = ToSet(blocks) /\ Len(all) = 3
           /\ \A k \in 1..2 : \/ all[k].page < all[k + 1].page
                              \/ all[k].page = all[k + 1].page /\ all[k].id < all[k + 1].id

\* The number on a card is its place, and no finding is lost but the hidden ones.
ASSUME CardsAreNumbered ==
    \A gone \in SUBSET {"f1", "f2", "f3"} :
        LET findings == <<[id |-> "f1"], [id |-> "f2"], [id |-> "f3"]>>
            numbered == OrderFindings(findings, gone)
        IN /\ {numbered[k].finding.id : k \in DOMAIN numbered} = {"f1", "f2", "f3"} \ gone
           /\ \A k \in DOMAIN numbered : numbered[k].index = k
           /\ \A k \in 1..(Len(numbered) - 1) : numbered[k].finding.id # numbered[k + 1].finding.id

\* A click on a mark never closes a card, and toggling twice leaves all as it was.
ASSUME CardsToggle ==
    \A open \in SUBSET {"f1", "f2"} : \A id \in {"f1", "f2"} :
        /\ id \in Expand(open, id, "mark") /\ open \subseteq Expand(open, id, "mark")
        /\ Expand(Expand(open, id, "head"), id, "head") = open

Findings ==
    LET few == {<<>>, <<[stem |-> "a", form |-> "lower"]>>, <<[stem |-> "b", form |-> "lower"]>>,
                <<[stem |-> "a", form |-> "upper"], [stem |-> "b", form |-> "lower"]>>}
    IN [category : {"redline", "recommendation"}, heading : few, body : few, clause : few,
        quote : few, guidance : BOOLEAN]

\* Whatever the finding, the card offers to accept it exactly if accepting it sends a
\* request; what is sent is what the whole diff reads without its deletions, up to
\* the heading, and never nothing; a cut diff is the beginning of the whole one and
\* says how much is missing; and a proposal is shown as a text only when no word of
\* the clause differs, or there is no clause.
ASSUME CardsAreHonest ==
    \A f \in Findings, most \in {1, 20} :
        LET whole == SuggestionCard(f, TRUE, 400, most)
            first == SuggestionCard(f, FALSE, 400, most)
            stems(w) == [k \in DOMAIN w |-> w[k].stem]
        IN /\ Acceptable(f) <=> AcceptSends(f) # <<"refused">>
           /\ whole.more = 0 /\ first.says = whole.says
           /\ first.chunks = Cut(whole.chunks, most)
           /\ Len(first.chunks) + first.more = Len(whole.chunks)
           /\ whole.says = "change" =>
                 /\ ReadDiff(whole.chunks, "add") # <<>>
                 /\ AcceptSends(f)[2] \in {ReadDiff(whole.chunks, "add"),
                                           f.heading \o ReadDiff(whole.chunks, "add")}
                 /\ stems(ReadDiff(whole.chunks, "del")) = stems(Compared(f))
           /\ whole.says = "replace" =>
                 stems(Compared(f)) \in {<<>>, stems(CleanedReplacement(f))}
           /\ whole.says \in {"action", "nothing"} <=> Replacement(f) = <<>>
           /\ FirstFindingQuote(f) = <<>> <=> Compared(f) = <<>>

\* The cards of the comments are numbered in the list's order, and at most the chosen
\* and the hovered one are lit.
ASSUME CommentsAreLit ==
    \A active, hovered \in {"c1", "c2", "no one"} :
        LET numbered == AnnotationCards(<<"c1", "c2", "c3">>, active, hovered)
        IN /\ \A k \in DOMAIN numbered : numbered[k].num = k
           /\ {numbered[k].id : k \in {k \in DOMAIN numbered : numbered[k].highlighted}}
                 = {active, hovered} \ {"no one"}

Blocks == [text : {"t", "u"}, original : {"t"}, pending : BOOLEAN, anchors : SUBSET {"c1"},
           marks : SUBSET {"bold"}]

\* A suggestion is shown with the buttons that decide it, and only when redlines are;
\* the line of an edited paragraph and the bar exclude each other, but an edited
\* paragraph with a suggestion has neither; comments are reachable in the text
\* unless it is being edited or a suggestion stands in its place.
ASSUME ParagraphsAreClear ==
    \A b \in Blocks, typed, red \in BOOLEAN, mode_ \in {"comment", "edit"}, marks \in SUBSET {"f1"} :
        LET s == DocumentBlock(b, typed, mode_, red, marks, "c1", "no one") IN
        /\ s.content = "diff" => s.bar /\ red
        /\ s.bar => s.content \in {"diff", "editor"}
        /\ ~(s.bar /\ s.editedLine)
        /\ b.text # b.original /\ ~s.editedLine => b.pending /\ ~s.bar
        /\ b.anchors # {} => s.content \in {"anchors", "diff", "editor"}
        /\ s.clickToEdit => s.content # "editor"
        /\ s.highlighted <=> "c1" \in b.anchors

\* Printed with redlines, a suggestion reads as if it had been accepted.
ASSUME PrintsReplacement ==
    \A o, r \in Words : Printed(ComputeWordDiff(o, r, 3)) = r

\* The four items of the menu have four addresses, whose parameters are set apart by
\* one "?" and then by "&", the token last; both next steps are among them.
ASSUME ExportsAreApart ==
    \A token \in {"token", NoToken} :
        LET url(item) == ExportUrl(item, "r1", token)
            count(s, c) == Cardinality({k \in DOMAIN s : s[k] = c})
        IN /\ Cardinality({url(item) : item \in ExportMenu}) = 4
           /\ \A item \in ExportMenu :
                 /\ count(url(item), "?") \in 0..1
                 /\ count(url(item), "&") = 1 => count(url(item), "?") = 1
                 /\ token # NoToken <=> Last(url(item)) = token
                 /\ token # NoToken => count(url(item), "?") = 1
           /\ \A action \in {"export_edited", "export_original"} :
                 NextStepUrl(action, "r1", token)
                   = url([format |-> "PDF", version |-> IF action = "export_edited" THEN "modified" ELSE "original"])
=============================================================================
