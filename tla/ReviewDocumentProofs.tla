------------------------- MODULE ReviewDocumentProofs -------------------------
(***************************************************************************)
(* Proofs about the review document, for any number of overlapping         *)
(* requests and every set of clause uids and findings: types, and what is  *)
(* kept in the two columns, unless a request wrote over what it had missed.*)
(***************************************************************************)
EXTENDS ReviewDocument, TLAPS

LEMMA NullTyped == Null \in Payload /\ NoRun \in [payload : Payload, edits : Edits]
  BY DEF Null, NoRun, Payload, Edits

LEMMA NothingTyped == Nothing \in Parts
  BY DEF Nothing, Parts

\* What the queue shows is undecided.
LEMMA PendingUndecided == Pending \subseteq Undecided /\ Undecided \subseteq Finding
<1>1. ASSUME NEW S PROVE OnePerIssue(S) \subseteq S
  BY DEF OnePerIssue
<1>2. QED
  BY <1>1 DEF Pending, Undecided

LEMMA TypeInit == Init => TypeOK
<1> SUFFICES ASSUME Init PROVE TypeOK
  OBVIOUS
<1>1. /\ payload \in Payload
      /\ seen \in [Client -> [payload : Payload, edits : Edits]]
  BY NullTyped DEF Init
<1>2. /\ req \in [Client -> [op : Request \cup {"none"}, arg : Uid \cup Finding \cup {"none"}, id : Nat]]
      /\ \A c \in Client : req[c].op = "none"
  BY DEF Init, NoRequest
<1>3. edits \in Edits /\ acked \in Edits
  BY DEF Init, Edits
<1>4. QED
  BY <1>1, <1>2, <1>3, NothingTyped, DocumentAssumption DEF Init, TypeOK

LEMMA TypeLoad ==
  ASSUME TypeOK, NEW c \in Client, NEW op \in Ops,
         NEW arg \in Uid \cup Finding \cup {"none"}, Load(c, op, arg)
  PROVE  TypeOK'
<1>1. op \in Request /\ calls + 1 \in Nat /\ calls' \in 0 .. MaxCalls
  BY DocumentAssumption DEF TypeOK, Load
<1>2. /\ op = "save_clause" => arg \in Uid
      /\ op \in {"accept", "dismiss"} => arg \in Finding
  BY DocumentAssumption, PendingUndecided DEF Load, Accepts
<1>3. /\ req' \in [Client -> [op : Request \cup {"none"}, arg : Uid \cup Finding \cup {"none"}, id : Nat]]
      /\ \A d \in Client : req'[d].op = "save_clause" => req'[d].arg \in Uid
      /\ \A d \in Client : req'[d].op \in {"accept", "dismiss"} => req'[d].arg \in Finding
  BY <1>1, <1>2 DEF TypeOK, Load
<1>4. seen' \in [Client -> [payload : Payload, edits : Edits]]
  BY DEF TypeOK, Load
<1>5. QED
  BY <1>1, <1>3, <1>4 DEF TypeOK, Load, runVars, history

LEMMA TypeAnswer ==
  ASSUME TypeOK, NEW c \in Client, Answer(c)
  PROVE  /\ req' \in [Client -> [op : Request \cup {"none"}, arg : Uid \cup Finding \cup {"none"}, id : Nat]]
         /\ seen' \in [Client -> [payload : Payload, edits : Edits]]
         /\ \A d \in Client : req'[d].op = "save_clause" => req'[d].arg \in Uid
         /\ \A d \in Client : req'[d].op \in {"accept", "dismiss"} => req'[d].arg \in Finding
         /\ calls' \in 0 .. MaxCalls
  BY NullTyped DEF TypeOK, Answer, NoRequest

LEMMA TypeEdit ==
  ASSUME TypeOK, NEW c \in Client, NEW k \in Uid
  PROVE  /\ WriteEdit(c, k) => edits' \in Edits
         /\ [acked EXCEPT ![k] = req[c].id] \in Edits
<1>1. req[c].id \in Nat /\ seen[c].edits \in Edits
  BY DEF TypeOK
<1>2. QED
  BY <1>1 DEF TypeOK, WriteEdit, Edits

LEMMA TypeMarks ==
  ASSUME TypeOK, NEW c \in Client, NEW f \in Finding
  PROVE  /\ [seen[c].payload EXCEPT !.accepted = @ \cup {f}] \in Payload
         /\ [seen[c].payload EXCEPT !.dismissed = @ \cup {f}] \in Payload
<1>1. seen[c].payload \in Payload
  BY DEF TypeOK
<1>2. QED
  BY <1>1 DEF Payload

LEMMA TypeCommits ==
  ASSUME TypeOK, NEW c \in Client, NEW e \in SUBSET Uid,
         NEW p \in SUBSET (Finding \cup {"editor", "verdict"}), Commits(c, e, p)
  PROVE  missed' \in [Client -> Parts] /\ overrun' \in Parts
<1>1. /\ \A d \in Client : missed[d].edits \in SUBSET Uid
      /\ \A d \in Client : missed[d].payload \in SUBSET (Finding \cup {"editor", "verdict"})
      /\ overrun.edits \in SUBSET Uid
      /\ overrun.payload \in SUBSET (Finding \cup {"editor", "verdict"})
  BY DEF TypeOK, Parts
<1>2. \A d \in Client : [edits |-> missed[d].edits \cup e, payload |-> missed[d].payload \cup p] \in Parts
  BY <1>1 DEF Parts
<1>3. missed' \in [Client -> Parts]
  BY <1>2, NothingTyped DEF Commits
<1>4. overrun' \in Parts
  BY <1>1 DEF Commits, Parts
<1>5. QED
  BY <1>3, <1>4

\* What a request writes, by its kind.
LEMMA WritesOf ==
  ASSUME TypeOK, NEW c \in Client,
         \/ SaveEditor(c) \/ SaveClauseEdit(c) \/ AcceptFinding(c) \/ DismissFinding(c)
         \/ FinalizeRun(c) \/ RejectRun(c) \/ FailRequest(c)
  PROVE  \E e \in SUBSET Uid, p \in SUBSET (Finding \cup {"editor", "verdict"}) : Commits(c, e, p)
<1>1. ASSUME SaveClauseEdit(c) PROVE {req[c].arg} \in SUBSET Uid
  BY <1>1 DEF TypeOK, SaveClauseEdit
<1>2. ASSUME AcceptFinding(c) \/ DismissFinding(c)
      PROVE  /\ {ClauseOf[g] : g \in {req[c].arg} \cap Suggests} \in SUBSET Uid
             /\ {req[c].arg} \ Recorded \in SUBSET (Finding \cup {"editor", "verdict"})
  BY <1>2, DocumentAssumption DEF TypeOK, AcceptFinding, DismissFinding
<1>3. QED
  BY <1>1, <1>2 DEF SaveEditor, SaveClauseEdit, AcceptFinding, DismissFinding, FinalizeRun,
                    RejectRun, FailRequest

LEMMA TypeWrite ==
  ASSUME TypeOK, NEW c \in Client,
         \/ SaveEditor(c) \/ SaveClauseEdit(c) \/ AcceptFinding(c) \/ DismissFinding(c)
         \/ FinalizeRun(c) \/ RejectRun(c) \/ FailRequest(c)
  PROVE  TypeOK'
<1>1. Answer(c)
  BY DEF SaveEditor, SaveClauseEdit, AcceptFinding, DismissFinding, FinalizeRun, RejectRun,
         FailRequest
<1>2. SUFFICES /\ run' \in {"in_review", "finalized", "rejected"}
               /\ payload' \in Payload
               /\ edits' \in Edits
               /\ marks' \in [Recorded -> SUBSET {"accepted", "dismissed"}]
               /\ acked' \in Edits
               /\ decided' \subseteq Finding
  BY <1>1, TypeAnswer, WritesOf, TypeCommits DEF TypeOK
<1>3. CASE SaveEditor(c)
  <2>1. [seen[c].payload EXCEPT !.editor = @ + 1] \in Payload
    <3>1. seen[c].payload \in Payload
      BY DEF TypeOK
    <3>2. QED
      BY <3>1 DEF Payload
  <2>2. payload' \in Payload
    BY <1>3, <2>1 DEF SaveEditor, WriteEditor
  <2>3. QED
    BY <1>3, <2>2 DEF TypeOK, SaveEditor
<1>4. CASE SaveClauseEdit(c)
  <2>1. PICK k \in Uid : k = req[c].arg
    BY <1>4 DEF TypeOK, SaveClauseEdit
  <2>2. WriteEdit(c, k) /\ acked' = [acked EXCEPT ![k] = req[c].id]
    BY <1>4, <2>1 DEF SaveClauseEdit
  <2>3. edits' \in Edits /\ acked' \in Edits
    BY <2>2, TypeEdit
  <2>4. QED
    BY <1>4, <2>3 DEF TypeOK, SaveClauseEdit
<1>5. CASE AcceptFinding(c)
  <2>1. PICK f \in Finding : f = req[c].arg
    BY <1>5 DEF TypeOK, AcceptFinding
  <2>2. /\ run' = run /\ decided' = decided \cup {f} /\ MarkAccepted(c, f)
        /\ IF f \in Suggests
           THEN WriteEdit(c, ClauseOf[f]) /\ acked' = [acked EXCEPT ![ClauseOf[f]] = req[c].id]
           ELSE edits' = edits /\ acked' = acked
    BY <1>5, <2>1 DEF AcceptFinding
  <2>3. ClauseOf[f] \in Uid
    BY DocumentAssumption
  <2>4. edits \in Edits /\ acked \in Edits /\ payload \in Payload /\ decided \subseteq Finding
    BY DEF TypeOK
  <2>5. edits' \in Edits /\ acked' \in Edits
    BY <2>2, <2>3, <2>4, TypeEdit
  <2>6. payload' \in Payload
    <3>1. [seen[c].payload EXCEPT !.accepted = @ \cup {f}] \in Payload
      BY TypeMarks
    <3>2. QED
      BY <2>2, <2>4, <3>1 DEF MarkAccepted
  <2>7. marks' \in [Recorded -> SUBSET {"accepted", "dismissed"}]
    BY <2>2 DEF TypeOK, MarkAccepted
  <2>8. QED
    BY <2>2, <2>4, <2>5, <2>6, <2>7 DEF TypeOK
<1>6. CASE DismissFinding(c)
  <2>1. PICK f \in Finding : f = req[c].arg
    BY <1>6 DEF TypeOK, DismissFinding
  <2>2. /\ run' = run /\ edits' = edits /\ acked' = acked /\ decided' = decided \cup {f}
        /\ IF f \in Recorded
           THEN marks' = [marks EXCEPT ![f] = @ \cup {"dismissed"}] /\ payload' = payload
           ELSE /\ payload' = [seen[c].payload EXCEPT !.dismissed = @ \cup {f}]
                /\ marks' = marks
    BY <1>6, <2>1 DEF DismissFinding
  <2>3. [seen[c].payload EXCEPT !.dismissed = @ \cup {f}] \in Payload
    BY TypeMarks
  <2>4. payload' \in Payload
    BY <2>2, <2>3 DEF TypeOK
  <2>5. marks' \in [Recorded -> SUBSET {"accepted", "dismissed"}]
    BY <2>2 DEF TypeOK
  <2>6. QED
    BY <2>2, <2>4, <2>5 DEF TypeOK
<1>7. CASE FinalizeRun(c)
  <2>1. seen[c].payload \in Payload
    BY DEF TypeOK
  <2>2. payload' \in Payload
    BY <1>7, <2>1 DEF FinalizeRun, Finalizing, FinalVerdict, Payload, Null
  <2>3. QED
    BY <1>7, <2>2 DEF TypeOK, FinalizeRun
<1>8. CASE RejectRun(c)
  BY <1>8 DEF TypeOK, RejectRun
<1>9. CASE FailRequest(c)
  BY <1>9 DEF TypeOK, FailRequest, runVars
<1>10. QED
  BY <1>3, <1>4, <1>5, <1>6, <1>7, <1>8, <1>9

LEMMA TypeNext == TypeOK /\ [Next]_vars => TypeOK'
<1> SUFFICES ASSUME TypeOK, [Next]_vars PROVE TypeOK'
  OBVIOUS
<1>1. CASE UNCHANGED vars
  BY <1>1 DEF vars, runVars, history, TypeOK
<1>2. QED
  BY <1>1, TypeLoad, TypeWrite DEF Next

\* Every variable keeps its type, with any number of overlapping requests.
THEOREM TypeCorrect == Spec => []TypeOK
  BY TypeInit, TypeNext, PTL DEF Spec

(***************************************************************************)
(* What is kept.  A request in flight has, as it loaded it, all that it    *)
(* has not missed and nobody has overrun: that makes the properties        *)
(* inductive, whatever overlaps.                                           *)
(***************************************************************************)
SeenEdits(c) ==
    \A k \in Uid : k \notin missed[c].edits \cup overrun.edits => seen[c].edits[k] = acked[k]

SeenVerdict(c) ==
    run = "finalized" /\ "verdict" \notin missed[c].payload \cup overrun.payload
        => seen[c].payload.action # "none"

SeenDecided(c) ==
    run = "in_review" =>
        \A f \in decided \ Recorded : f \notin missed[c].payload \cup overrun.payload
            => f \in seen[c].payload.accepted \cup seen[c].payload.dismissed

\* By id, in terms of the rows and of the payload.
DecidedAway ==
    run = "in_review" =>
        /\ \A f \in decided \cap Recorded : marks[f] # {}
        /\ \A f \in decided \ Recorded : f \notin overrun.payload
               => f \in payload.accepted \cup payload.dismissed

InFlight == {c \in Client : req[c] # NoRequest}

EditsInv == EditsKept /\ \A c \in InFlight : SeenEdits(c)
VerdictInv == VerdictKept /\ \A c \in InFlight : SeenVerdict(c)
DecidedInv == DecidedAway /\ \A c \in InFlight : SeenDecided(c)

KeptInv == TypeOK /\ EditsInv /\ VerdictInv /\ DecidedInv

LEMMA KeptInit == Init => KeptInv
<1> SUFFICES ASSUME Init PROVE KeptInv
  OBVIOUS
<1>1. EditsKept /\ VerdictKept /\ DecidedAway
  BY DEF Init, EditsKept, VerdictKept, DecidedAway
<1>2. InFlight = {}
  BY DEF Init, InFlight
<1>3. QED
  BY <1>1, <1>2, TypeInit DEF KeptInv, EditsInv, VerdictInv, DecidedInv

LEMMA KeptLoad ==
  ASSUME KeptInv, NEW c \in Client, NEW op \in Ops,
         NEW arg \in Uid \cup Finding \cup {"none"}, Load(c, op, arg)
  PROVE  KeptInv'
<1>1. TypeOK'
  BY TypeLoad DEF KeptInv
<1>2. /\ run' = run /\ payload' = payload /\ edits' = edits /\ marks' = marks
      /\ acked' = acked /\ decided' = decided /\ missed' = missed /\ overrun' = overrun
      /\ seen'[c].payload = payload /\ seen'[c].edits = edits
      /\ \A d \in Client : d # c => seen'[d] = seen[d] /\ req'[d] = req[d]
  BY DEF KeptInv, TypeOK, Load, runVars, history
<1>3. EditsKept' /\ VerdictKept' /\ DecidedAway'
  BY <1>2 DEF KeptInv, EditsInv, VerdictInv, DecidedInv, EditsKept, VerdictKept, DecidedAway
<1>4. ASSUME NEW d \in InFlight' PROVE SeenEdits(d)' /\ SeenVerdict(d)' /\ SeenDecided(d)'
  <2>1. CASE d = c
    <3>1. SeenEdits(c)' /\ SeenVerdict(c)'
      BY <1>2 DEF KeptInv, EditsInv, VerdictInv, EditsKept, VerdictKept, SeenEdits, SeenVerdict
    <3>2. SeenDecided(c)'
      BY <1>2 DEF KeptInv, TypeOK, DecidedInv, DecidedAway, SeenDecided
    <3>3. QED
      BY <2>1, <3>1, <3>2
  <2>2. CASE d # c
    <3>1. d \in InFlight
      BY <1>2, <2>2 DEF InFlight
    <3>2. QED
      BY <1>2, <2>2, <3>1 DEF KeptInv, EditsInv, VerdictInv, DecidedInv, InFlight, SeenEdits,
                              SeenVerdict, SeenDecided
  <2>3. QED
    BY <2>1, <2>2
<1>5. QED
  BY <1>1, <1>3, <1>4 DEF KeptInv, EditsInv, VerdictInv, DecidedInv

\* Who is in flight after a request has been answered, and what they missed.
LEMMA OthersInFlight ==
  ASSUME TypeOK, NEW c \in Client, NEW e, NEW p, Commits(c, e, p), Answer(c), NEW d \in InFlight'
  PROVE  /\ d \in InFlight /\ d # c /\ seen'[d] = seen[d]
         /\ missed'[d].edits = missed[d].edits \cup e
         /\ missed'[d].payload = missed[d].payload \cup p
<1>1. d \in Client /\ d # c /\ req'[d] = req[d] /\ seen'[d] = seen[d]
  BY DEF TypeOK, Answer, InFlight
<1>2. req[d] # NoRequest /\ d \in InFlight
  BY <1>1 DEF InFlight
<1>3. QED
  BY <1>1, <1>2 DEF Commits

\* A commit that takes over, in the column of edits, what it has loaded.
LEMMA EditsStep ==
  ASSUME TypeOK, EditsInv, NEW c \in InFlight, NEW e \in SUBSET Uid, NEW p,
         Commits(c, e, p), Answer(c),
         \A k \in Uid \ e : acked'[k] = acked[k],
         e = {} => edits' = edits,
         e # {} => \A k \in Uid : edits'[k] = IF k \in e THEN acked'[k] ELSE seen[c].edits[k]
  PROVE  EditsInv'
<1>1. c \in Client /\ SeenEdits(c)
  BY DEF EditsInv, InFlight
<1>2. EditsKept'
  <2>1. CASE e = {}
    BY <2>1 DEF EditsInv, EditsKept, Commits
  <2>2. CASE e # {}
    <3>1. overrun'.edits = (overrun.edits \cup missed[c].edits) \ e
      BY <2>2 DEF Commits
    <3>2. QED
      BY <1>1, <2>2, <3>1 DEF EditsKept, SeenEdits
  <2>3. QED
    BY <2>1, <2>2
<1>3. ASSUME NEW d \in InFlight' PROVE SeenEdits(d)'
  <2>1. d \in InFlight /\ seen'[d] = seen[d] /\ missed'[d].edits = missed[d].edits \cup e
    BY <1>1, OthersInFlight
  <2>2. overrun.edits \ e \subseteq overrun'.edits
    BY DEF Commits
  <2>3. QED
    BY <2>1, <2>2 DEF EditsInv, SeenEdits
<1>4. QED
  BY <1>2, <1>3 DEF EditsInv

\* A commit that takes over the verdict it has loaded, or writes one.
LEMMA VerdictStep ==
  ASSUME TypeOK, VerdictInv, NEW c \in InFlight, NEW e, NEW p, Commits(c, e, p), Answer(c),
         run' = run \/ run' = "rejected" \/ "verdict" \in p,
         p = {} => payload' = payload,
         "verdict" \in p => payload'.action # "none",
         p # {} /\ "verdict" \notin p => payload'.action = seen[c].payload.action
  PROVE  VerdictInv'
<1>1. c \in Client /\ SeenVerdict(c)
  BY DEF VerdictInv, InFlight
<1>2. /\ p # {} => overrun'.payload = (overrun.payload \cup missed[c].payload) \ p
      /\ p = {} => overrun'.payload = overrun.payload
  BY DEF Commits
<1>3. VerdictKept'
  BY <1>1, <1>2 DEF VerdictInv, VerdictKept, SeenVerdict
<1>4. ASSUME NEW d \in InFlight' PROVE SeenVerdict(d)'
  <2>1. d \in InFlight /\ seen'[d] = seen[d] /\ missed'[d].payload = missed[d].payload \cup p
    BY <1>1, OthersInFlight
  <2>2. QED
    BY <1>2, <2>1 DEF VerdictInv, SeenVerdict
<1>5. QED
  BY <1>3, <1>4 DEF VerdictInv

\* A commit that takes over the decisions it has loaded, and records its own.
LEMMA DecidedStep ==
  ASSUME TypeOK, DecidedInv, NEW c \in InFlight, NEW e, NEW p, Commits(c, e, p), Answer(c),
         NEW D \in SUBSET Finding, decided' = decided \cup D,
         run' = "in_review" => run = "in_review",
         D \ Recorded \subseteq p,
         \A f \in Recorded : marks[f] # {} \/ f \in D => marks'[f] # {},
         p = {} => payload' = payload,
         p # {} /\ run' = "in_review" =>
            /\ seen[c].payload.accepted \cup seen[c].payload.dismissed
                  \subseteq payload'.accepted \cup payload'.dismissed
            /\ p \cap Finding \subseteq payload'.accepted \cup payload'.dismissed
  PROVE  DecidedInv'
<1>1. c \in Client /\ SeenDecided(c) /\ decided \subseteq Finding
  BY DEF TypeOK, DecidedInv, InFlight
<1>2. /\ p # {} => overrun'.payload = (overrun.payload \cup missed[c].payload) \ p
      /\ p = {} => overrun'.payload = overrun.payload
  BY DEF Commits
<1>3. DecidedAway'
  <2> SUFFICES ASSUME run' = "in_review", NEW f \in decided'
               PROVE  /\ f \in Recorded => marks'[f] # {}
                      /\ f \notin Recorded /\ f \notin overrun'.payload
                            => f \in payload'.accepted \cup payload'.dismissed
    BY DEF DecidedAway
  <2>1. CASE f \in Recorded
    BY <1>1, <2>1 DEF DecidedInv, DecidedAway
  <2>2. CASE f \notin Recorded /\ p = {}
    BY <1>1, <1>2, <2>2 DEF DecidedInv, DecidedAway
  <2>3. CASE f \notin Recorded /\ p # {}
    BY <1>1, <1>2, <2>3 DEF SeenDecided
  <2>4. QED
    BY <2>1, <2>2, <2>3
<1>4. ASSUME NEW d \in InFlight' PROVE SeenDecided(d)'
  <2>1. d \in InFlight /\ seen'[d] = seen[d] /\ missed'[d].payload = missed[d].payload \cup p
    BY <1>1, OthersInFlight
  <2>2. QED
    BY <1>2, <2>1 DEF DecidedInv, SeenDecided
<1>5. QED
  BY <1>3, <1>4 DEF DecidedInv

LEMMA KeptWrite ==
  ASSUME KeptInv, NEW c \in Client,
         \/ SaveEditor(c) \/ SaveClauseEdit(c) \/ AcceptFinding(c) \/ DismissFinding(c)
         \/ FinalizeRun(c) \/ RejectRun(c) \/ FailRequest(c)
  PROVE  KeptInv'
<1>1. TypeOK /\ EditsInv /\ VerdictInv /\ DecidedInv /\ TypeOK'
  BY TypeWrite DEF KeptInv
<1>2. SUFFICES EditsInv' /\ VerdictInv' /\ DecidedInv'
  BY <1>1 DEF KeptInv
<1>3. /\ seen[c].payload \in Payload /\ seen[c].edits \in Edits /\ payload \in Payload
      /\ edits \in Edits /\ acked \in Edits /\ decided \subseteq Finding
      /\ marks \in [Recorded -> SUBSET {"accepted", "dismissed"}]
      /\ "editor" \notin Finding /\ "verdict" \notin Finding
  BY <1>1, DocumentAssumption DEF TypeOK
<1>4. CASE SaveEditor(c)
  <2>1. /\ c \in InFlight /\ Commits(c, {}, {"editor"}) /\ Answer(c)
        /\ run' = run /\ edits' = edits /\ acked' = acked /\ marks' = marks
        /\ decided' = decided \cup {}
    BY <1>4 DEF SaveEditor, InFlight, NoRequest
  <2>2. /\ payload'.action = seen[c].payload.action
        /\ payload'.accepted = seen[c].payload.accepted
        /\ payload'.dismissed = seen[c].payload.dismissed
    BY <1>3, <1>4 DEF SaveEditor, WriteEditor, Payload
  <2>3. EditsInv'
    BY <1>1, <2>1, EditsStep
  <2>4. VerdictInv'
    BY <1>1, <2>1, <2>2, VerdictStep
  <2>5. DecidedInv'
    BY <1>1, <1>3, <2>1, <2>2, DecidedStep
  <2>6. QED
    BY <2>3, <2>4, <2>5
<1>5. CASE SaveClauseEdit(c)
  <2>1. PICK k \in Uid : k = req[c].arg
    BY <1>1, <1>5 DEF TypeOK, SaveClauseEdit
  <2>2. /\ c \in InFlight /\ Commits(c, {k}, {}) /\ Answer(c)
        /\ run' = run /\ payload' = payload /\ marks' = marks /\ decided' = decided \cup {}
        /\ WriteEdit(c, k) /\ acked' = [acked EXCEPT ![k] = req[c].id]
    BY <1>5, <2>1 DEF SaveClauseEdit, InFlight, NoRequest
  <2>3. /\ \A j \in Uid \ {k} : acked'[j] = acked[j]
        /\ \A j \in Uid : edits'[j] = IF j \in {k} THEN acked'[j] ELSE seen[c].edits[j]
    BY <1>3, <2>2 DEF WriteEdit, Edits
  <2>4. EditsInv'
    BY <1>1, <2>2, <2>3, EditsStep
  <2>5. VerdictInv'
    BY <1>1, <2>2, VerdictStep
  <2>6. DecidedInv'
    BY <1>1, <2>2, DecidedStep
  <2>7. QED
    BY <2>4, <2>5, <2>6
<1>6. CASE AcceptFinding(c)
  <2>1. PICK f \in Finding : f = req[c].arg
    BY <1>1, <1>6 DEF TypeOK, AcceptFinding
  <2> DEFINE e == {ClauseOf[g] : g \in {f} \cap Suggests}
             p == {f} \ Recorded
  <2>2. /\ c \in InFlight /\ Commits(c, e, p) /\ Answer(c)
        /\ run' = run /\ decided' = decided \cup {f} /\ MarkAccepted(c, f)
        /\ IF f \in Suggests
           THEN WriteEdit(c, ClauseOf[f]) /\ acked' = [acked EXCEPT ![ClauseOf[f]] = req[c].id]
           ELSE edits' = edits /\ acked' = acked
    BY <1>6, <2>1 DEF AcceptFinding, InFlight, NoRequest
  <2>3. EditsInv'
    <3>1. CASE f \in Suggests
      <4>1. e = {ClauseOf[f]} /\ ClauseOf[f] \in Uid
        BY <3>1, DocumentAssumption
      <4>2. /\ \A j \in Uid \ e : acked'[j] = acked[j]
            /\ \A j \in Uid : edits'[j] = IF j \in e THEN acked'[j] ELSE seen[c].edits[j]
        BY <1>3, <2>2, <3>1, <4>1 DEF WriteEdit, Edits
      <4>3. QED
        BY <1>1, <2>2, <4>1, <4>2, EditsStep
    <3>2. CASE f \notin Suggests
      <4>1. e = {} /\ edits' = edits /\ acked' = acked
        BY <2>2, <3>2
      <4>2. QED
        BY <1>1, <2>2, <4>1, EditsStep
    <3>3. QED
      BY <3>1, <3>2
  <2>4. /\ p = {} => payload' = payload
        /\ p # {} => /\ payload'.action = seen[c].payload.action
                     /\ payload'.accepted = seen[c].payload.accepted \cup {f}
                     /\ payload'.dismissed = seen[c].payload.dismissed
    BY <1>3, <2>2 DEF MarkAccepted, Payload
  <2>5. \A g \in Recorded : marks[g] # {} \/ g = f => marks'[g] # {}
    BY <1>3, <2>2 DEF MarkAccepted
  <2>6. VerdictInv'
    BY <1>1, <1>3, <2>2, <2>4, VerdictStep
  <2>7. DecidedInv'
    <3>1. /\ {f} \in SUBSET Finding /\ {f} \ Recorded \subseteq p
          /\ \A g \in Recorded : marks[g] # {} \/ g \in {f} => marks'[g] # {}
          /\ p # {} => /\ seen[c].payload.accepted \cup seen[c].payload.dismissed
                             \subseteq payload'.accepted \cup payload'.dismissed
                       /\ p \cap Finding \subseteq payload'.accepted \cup payload'.dismissed
      BY <2>4, <2>5
    <3> DEFINE D == {f}
    <3>2. /\ D \in SUBSET Finding /\ D \ Recorded \subseteq p /\ decided' = decided \cup D
          /\ \A g \in Recorded : marks[g] # {} \/ g \in D => marks'[g] # {}
      BY <2>2, <3>1
    <3>3. /\ c \in InFlight /\ Commits(c, e, p) /\ Answer(c) /\ run' = run
          /\ p = {} => payload' = payload
      BY <2>2, <2>4
    <3> HIDE DEF D, e, p
    <3>4. QED
      BY <1>1, <3>1, <3>2, <3>3, DecidedStep
  <2>8. QED
    BY <2>3, <2>6, <2>7
<1>7. CASE DismissFinding(c)
  <2>1. PICK f \in Finding : f = req[c].arg
    BY <1>1, <1>7 DEF TypeOK, DismissFinding
  <2> DEFINE p == {f} \ Recorded
  <2>2. /\ c \in InFlight /\ Commits(c, {}, p) /\ Answer(c)
        /\ run' = run /\ edits' = edits /\ acked' = acked /\ decided' = decided \cup {f}
        /\ IF f \in Recorded
           THEN marks' = [marks EXCEPT ![f] = @ \cup {"dismissed"}] /\ payload' = payload
           ELSE /\ payload' = [seen[c].payload EXCEPT !.dismissed = @ \cup {f}]
                /\ marks' = marks
    BY <1>7, <2>1 DEF DismissFinding, InFlight, NoRequest
  <2>3. EditsInv'
    BY <1>1, <2>2, EditsStep
  <2>4. /\ p = {} => payload' = payload
        /\ p # {} => /\ payload'.action = seen[c].payload.action
                     /\ payload'.accepted = seen[c].payload.accepted
                     /\ payload'.dismissed = seen[c].payload.dismissed \cup {f}
    BY <1>3, <2>2 DEF Payload
  <2>5. \A g \in Recorded : marks[g] # {} \/ g = f => marks'[g] # {}
    BY <1>3, <2>2
  <2>6. VerdictInv'
    BY <1>1, <1>3, <2>2, <2>4, VerdictStep
  <2>7. DecidedInv'
    <3>1. /\ {f} \in SUBSET Finding /\ {f} \ Recorded \subseteq p
          /\ \A g \in Recorded : marks[g] # {} \/ g \in {f} => marks'[g] # {}
          /\ p # {} => /\ seen[c].payload.accepted \cup seen[c].payload.dismissed
                             \subseteq payload'.accepted \cup payload'.dismissed
                       /\ p \cap Finding \subseteq payload'.accepted \cup payload'.dismissed
      BY <2>4, <2>5
    <3> DEFINE D == {f}
    <3>2. /\ D \in SUBSET Finding /\ D \ Recorded \subseteq p /\ decided' = decided \cup D
          /\ \A g \in Recorded : marks[g] # {} \/ g \in D => marks'[g] # {}
      BY <2>2, <3>1
    <3>3. /\ c \in InFlight /\ Commits(c, {}, p) /\ Answer(c) /\ run' = run
          /\ p = {} => payload' = payload
      BY <2>2, <2>4
    <3> HIDE DEF D, p
    <3>4. QED
      BY <1>1, <3>1, <3>2, <3>3, DecidedStep
  <2>8. QED
    BY <2>3, <2>6, <2>7
<1>8. CASE FinalizeRun(c)
  <2>1. /\ c \in InFlight /\ Commits(c, {}, {"verdict"}) /\ Answer(c)
        /\ run' = "finalized" /\ edits' = edits /\ acked' = acked /\ marks' = marks
        /\ decided' = decided \cup {}
    BY <1>8 DEF FinalizeRun, Finalizing, InFlight, NoRequest
  <2>2. payload'.action # "none"
    BY <1>8 DEF FinalizeRun, Finalizing, FinalVerdict, Null
  <2>3. EditsInv'
    BY <1>1, <2>1, EditsStep
  <2>4. VerdictInv'
    BY <1>1, <2>1, <2>2, VerdictStep
  <2>5. DecidedInv'
    BY <1>1, <2>1, DecidedStep
  <2>6. QED
    BY <2>3, <2>4, <2>5
<1>9. CASE RejectRun(c) \/ FailRequest(c)
  <2>1. /\ c \in InFlight
        /\ Commits(c, {}, {}) /\ Answer(c)
        /\ run' = run \/ run' = "rejected"
        /\ payload' = payload /\ edits' = edits /\ acked' = acked /\ marks' = marks
        /\ decided' = decided \cup {}
    BY <1>9 DEF RejectRun, FailRequest, runVars, InFlight, NoRequest
  <2>3. EditsInv'
    BY <1>1, <2>1, EditsStep
  <2>4. VerdictInv'
    BY <1>1, <2>1, VerdictStep
  <2>5. DecidedInv'
    BY <1>1, <2>1, DecidedStep
  <2>6. QED
    BY <2>3, <2>4, <2>5
<1>10. QED
  BY <1>4, <1>5, <1>6, <1>7, <1>8, <1>9

LEMMA KeptNext == KeptInv /\ [Next]_vars => KeptInv'
<1> SUFFICES ASSUME KeptInv, [Next]_vars PROVE KeptInv'
  OBVIOUS
<1>1. CASE UNCHANGED vars
  <2>1. TypeOK'
    BY <1>1, TypeNext DEF KeptInv
  <2>2. QED
    BY <1>1, <2>1 DEF vars, runVars, history, KeptInv, EditsInv, VerdictInv, DecidedInv, InFlight,
       EditsKept, VerdictKept, DecidedAway, SeenEdits, SeenVerdict, SeenDecided
<1>2. QED
  BY <1>1, KeptLoad, KeptWrite DEF Next

LEMMA Kept == Spec => []KeptInv
  BY KeptInit, KeptNext, PTL DEF Spec

\* However many requests overlap, an acknowledged edit is lost only to a request
\* that had loaded the run before it and wrote an edit after it.
THEOREM AckedEditsKept == Spec => []EditsKept
<1>1. KeptInv => EditsKept
  BY DEF KeptInv, EditsInv
<1>2. QED
  BY <1>1, Kept, PTL

\* However often the editor and the findings' buttons are used, a finalized run
\* loses its verdict only to one of them that had loaded the run before.
THEOREM FinalVerdictKept == Spec => []VerdictKept
<1>1. KeptInv => VerdictKept
  BY DEF KeptInv, VerdictInv
<1>2. QED
  BY <1>1, Kept, PTL

\* What reviewers decided leaves the queue for the whole review, except what a
\* request that had loaded the run before the decision wrote over.
THEOREM DecisionsStay == Spec => []DecidedInReview
<1>1. KeptInv => DecidedInReview
  BY PendingUndecided DEF KeptInv, DecidedInv, DecidedAway, DecidedInReview, Undecided
<1>2. QED
  BY <1>1, Kept, PTL
=============================================================================
