------------------------------- MODULE PageText -------------------------------
(***************************************************************************)
(* The text of the document page: word diffs, highlighted anchors,         *)
(* formatting marks, the position of a selection and of a finding's        *)
(* evidence, and the pages (components/DocumentEditor.tsx, which repeats   *)
(* the diff of components/ContractReader.tsx).                             *)
(*                                                                         *)
(* A word is a stem and the form of its letters; a text is a sequence of   *)
(* characters, white space of any kind being " ".  Positions count from 0  *)
(* and lie between characters.                                             *)
(***************************************************************************)
EXTENDS Integers, SequencesExt

-----------------------------------------------------------------------------
(***************************************************************************)
(* Word diffs.                                                             *)
(***************************************************************************)
SameWord(v, w) == v.stem = w.stem

\* The table of computeWordDiff: common words of the first i and the first j.
Common(o, r) ==
    LET dp[p \in (0..Len(o)) \X (0..Len(r))] ==
            IF p[1] = 0 \/ p[2] = 0 THEN 0
            ELSE IF SameWord(o[p[1]], r[p[2]]) THEN dp[<<p[1] - 1, p[2] - 1>>] + 1
            ELSE LET up == dp[<<p[1] - 1, p[2]>>]
                     left == dp[<<p[1], p[2] - 1>>]
                 IN IF up > left THEN up ELSE left
    IN dp

\* The walk back through the table; a kept word has the replacement's form.
DiffOps(o, r) ==
    LET dp == Common(o, r)
        ops[p \in (0..Len(o)) \X (0..Len(r))] ==
            LET i == p[1]  j == p[2] IN
            CASE i = 0 /\ j = 0 -> <<>>
              [] i > 0 /\ j > 0 /\ SameWord(o[i], r[j]) ->
                     Append(ops[<<i - 1, j - 1>>], [type |-> "keep", word |-> r[j]])
              [] /\ ~(i > 0 /\ j > 0 /\ SameWord(o[i], r[j]))
                 /\ j > 0 /\ (i = 0 \/ dp[<<i, j - 1>>] >= dp[<<i - 1, j>>]) ->
                     Append(ops[<<i, j - 1>>], [type |-> "add", word |-> r[j]])
              [] OTHER -> Append(ops[<<i - 1, j>>], [type |-> "del", word |-> o[i]])
    IN ops[<<Len(o), Len(r)>>]

\* The last chunk takes a word of its type, and any other word begins a chunk.
AddWord(chunks, op) ==
    LET n == Len(chunks) IN
    IF n > 0 /\ chunks[n].type = op.type
    THEN [chunks EXCEPT ![n].words = Append(@, op.word)]
    ELSE Append(chunks, [type |-> op.type, words |-> <<op.word>>])

Merged(ops) ==
    LET chunks[k \in 0..Len(ops)] == IF k = 0 THEN <<>> ELSE AddWord(chunks[k - 1], ops[k])
    IN chunks[Len(ops)]

\* computeWordDiff, which does not compare more than so many words.
ComputeWordDiff(o, r, most) ==
    IF Len(o) > most \/ Len(r) > most
    THEN <<[type |-> "del", words |-> o], [type |-> "add", words |-> r]>>
    ELSE Merged(DiffOps(o, r))

\* renderInlineDiff, DiffView: what a reader of the deletions, or of the additions,
\* reads.  The print style hides the deletions.
ReadDiff(chunks, type) ==
    LET words[k \in 0..Len(chunks)] ==
            IF k = 0 THEN <<>>
            ELSE IF chunks[k].type \in {"keep", type} THEN words[k - 1] \o chunks[k].words
            ELSE words[k - 1]
    IN words[Len(chunks)]

-----------------------------------------------------------------------------
(***************************************************************************)
(* Anchors and marks.                                                      *)
(***************************************************************************)
Clamp(p, text) == IF p < 0 THEN 0 ELSE IF p > Len(text) THEN Len(text) ELSE p
Slice(text, from, to) == SubSeq(text, from + 1, to)
Positions(text, cuts) ==
    SetToSortSeq({p \in cuts \cup {0, Len(text)} : 0 <= p /\ p <= Len(text)}, <)
\* The pieces between two positions that follow each other, each with its look.
Pieces(text, at, look) ==
    SelectSeq([k \in 1..(Len(at) - 1) |->
                  [text |-> Slice(text, at[k], at[k + 1]), look |-> look[k]]],
              LAMBDA piece : piece.text # <<>>)

\* renderTextWithAllAnchors: the first comment that covers a piece, or else the
\* first finding.
RenderTextWithAllAnchors(text, commentAnchors, findingMarks) ==
    LET Fit(s, kind) == [kind |-> kind, id |-> s.id,
                         from |-> Clamp(s.from, text), to |-> Clamp(s.to, text)]
        spans == SelectSeq([k \in DOMAIN commentAnchors |-> Fit(commentAnchors[k], "comment")]
                           \o [k \in DOMAIN findingMarks |-> Fit(findingMarks[k], "finding")],
                           LAMBDA s : s.from < s.to)
        Covering(kind, from, to) ==
            SelectSeq(spans, LAMBDA s : s.kind = kind /\ s.from <= from /\ s.to >= to)
        Look(from, to) == LET both == Covering("comment", from, to) \o Covering("finding", from, to)
                          IN IF both = <<>> THEN "plain" ELSE Head(both).id
        at == Positions(text, UNION {{spans[k].from, spans[k].to} : k \in DOMAIN spans})
    IN IF spans = <<>> THEN <<[text |-> text, look |-> "plain"]>>
       ELSE Pieces(text, at, [k \in 1..(Len(at) - 1) |-> Look(at[k], at[k + 1])])

\* applyMarks: at every position the marks that open there are added to a set of
\* types, and then those that close there are taken out of it.
ApplyMarks(text, marks) ==
    LET cuts == UNION {{marks[k].from, marks[k].to} : k \in DOMAIN marks}
        at == Positions(text, cuts)
        active[k \in 0..Len(at)] ==
            IF k = 0 THEN {}
            ELSE (active[k - 1] \cup {marks[m].type : m \in {m \in DOMAIN marks : marks[m].from = at[k]}})
                 \ {marks[m].type : m \in {m \in DOMAIN marks : marks[m].to = at[k]}}
    IN IF marks = <<>> THEN <<[text |-> text, look |-> {}]>> ELSE Pieces(text, at, active)

-----------------------------------------------------------------------------
(***************************************************************************)
(* Positions of a selection and of a finding's evidence.                   *)
(***************************************************************************)
Lower(text) == [k \in DOMAIN text |-> IF text[k] = "A" THEN "a" ELSE text[k]]
\* replace(/\s+/g, " ")
Collapse(text) ==
    FoldLeft(LAMBDA t, c : IF c = " " /\ t # <<>> /\ Last(t) = " " THEN t ELSE Append(t, c), <<>>, text)
\* trim()
Trim(text) ==
    LET ink == {k \in DOMAIN text : text[k] # " "}
    IN IF ink = {} THEN <<>>
       ELSE SubSeq(text, CHOOSE k \in ink : \A j \in ink : k <= j,
                         CHOOSE k \in ink : \A j \in ink : k >= j)
IndexOf(hay, needle) ==
    LET found == {k \in 0..(Len(hay) - Len(needle)) : Slice(hay, k, k + Len(needle)) = needle}
    IN IF found = {} THEN -1 ELSE CHOOSE k \in found : \A j \in found : k <= j

\* captureSelection: the positions are those of the normalised text, and 0 when the
\* selection is not found in the clause's first block.
CaptureSelection(selected, blockText) ==
    LET norm(t) == Trim(Lower(Collapse(t)))
        idx == IndexOf(norm(blockText), norm(selected))
        from == IF idx < 0 THEN 0 ELSE idx
    IN [text |-> Trim(Collapse(selected)), from |-> from, to |-> from + Len(norm(selected))]

\* The marks of a clause whose finding quotes evidence: where a block has it, and
\* else the whole first block.  Every block of the clause shows all of them.
FindingMarks(evidence, blocks, most) ==
    LET collapsed == Trim(Collapse(evidence))
        needle == Lower(SubSeq(collapsed, 1, IF Len(collapsed) < most THEN Len(collapsed) ELSE most))
        Mark(k) == LET idx == IndexOf(Lower(Collapse(blocks[k])), needle) IN
                   IF evidence = <<>> THEN <<[from |-> 0, to |-> Len(blocks[k])]>>
                   ELSE IF idx >= 0 THEN <<[from |-> idx, to |-> idx + Len(needle)]>>
                   ELSE IF k = 1 THEN <<[from |-> 0, to |-> Len(blocks[k])]>> ELSE <<>>
    IN FlattenSeq([k \in DOMAIN blocks |-> Mark(k)])

\* blocksByPage, sortedPages
Pages(blocks) ==
    LET numbers == SetToSortSeq({blocks[k].page : k \in DOMAIN blocks}, <)
    IN [k \in DOMAIN numbers |->
           [number |-> numbers[k], blocks |-> SelectSeq(blocks, LAMBDA b : b.page = numbers[k])]]
=============================================================================
