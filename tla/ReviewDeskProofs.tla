--------------------------- MODULE ReviewDeskProofs ---------------------------
(***************************************************************************)
(* What holds of a reviewer's page for any number of writes, teammates and *)
(* losses: proofs about ReviewDesk.                                        *)
(*                                                                         *)
(* ConfirmedOnly rests on the answers under way: one that confirms a       *)
(* decision was given after the server recorded it, the server strikes no  *)
(* record, and the run's state is one that a record names, however many    *)
(* decisions were judged before the first was written.  That a list shows  *)
(* no note more than twice rests on a note's being new when the server     *)
(* creates it.  The other parts are about what screens make of their data, *)
(* however much it is: the words and the cards of the page (PageText,      *)
(* ReaderCards), and the profile (ProfileForm).                            *)
(***************************************************************************)
EXTENDS ReviewDesk, ReaderCards, SequenceTheorems, WellFoundedInduction, TLAPS

Snapshots == [at : {"no", "due", "served"}, draft : Snapshot]
PollStates == [at : {"no", "served"}, draft : Snapshot]
ListStates == [at : {"no", "served"}, notes : SUBSET Note]
AskStates == [at : {"no", "sent", "judged", "adrift", "ok", "failed"}, note : Note \cup {0}]
Creations == {"annotate", "post"}

\* An approval of mine that is on record stands, or a rejection on record replaced it.
Mine == <<"me", "approve">>
Stands == \/ review = "approved"
          \/ review = "rejected" /\ \E who \in {"me", "them"} : <<who, "reject">> \in reviews

\* An answer that confirms a decision, and a page that shows it, are right.
Confirmed ==
    /\ \A w \in {"accept", "dismiss"} : ask[w].at = "ok" => decided # {}
    /\ hidden => decided # {}
    /\ ask["approve"].at = "ok" => Mine \in reviews
    /\ approved => Mine \in reviews
    /\ Mine \in reviews => Stands

\* No list names a note that nobody wrote, and a note whose creation the page has
\* not heard of is shown once at most.
Written ==
    /\ \A n \in Note : author[n] = "nobody" => /\ n \notin annotations \cup comments
                                               /\ n \notin listPoll.notes
                                               /\ cards[n] = 0
    /\ \A w \in Creations : ask[w].at = "ok" => /\ ask[w].note \in Note
                                                /\ author[ask[w].note] # "nobody"
                                                /\ cards[ask[w].note] \in {0, 1}
    /\ ask["annotate"].at = "ok" /\ ask["post"].at = "ok" => ask["annotate"].note # ask["post"].note

DeskInv == TypeOK /\ Written /\ Confirmed

-----------------------------------------------------------------------------
(***************************************************************************)
(* Records and requests.                                                   *)
(***************************************************************************)
\* Every record an action builds is of its type.
LEMMA Records ==
    /\ Nothing \in Snapshot
    /\ \A t \in Text, b \in BOOLEAN : [pending |-> b, text |-> t] \in Snapshot
    /\ \A d \in Snapshot : /\ [d EXCEPT !.text = "mine"] \in Snapshot
                           /\ d.text \in Text \cup {"none"}
    /\ Idle \in Snapshots /\ Due \in Snapshots /\ Idle \in PollStates
    /\ \A d \in Snapshot : [at |-> "served", draft |-> d] \in Snapshots \cap PollStates
    /\ \A l \in Snapshots \cup PollStates : l.draft \in Snapshot
    /\ NoList \in ListStates /\ NoList.notes = {} /\ NoList.at = "no"
    /\ \A ns \in SUBSET Note : LET l == [at |-> "served", notes |-> ns] IN
                                l \in ListStates /\ l.notes = ns
    /\ \A l \in ListStates : l.notes \in SUBSET Note
<1>1. Nothing \in Snapshot /\ \A t \in Text, b \in BOOLEAN : [pending |-> b, text |-> t] \in Snapshot
  BY DEF Nothing, Snapshot
<1>2. ASSUME NEW d \in Snapshot
      PROVE  [d EXCEPT !.text = "mine"] \in Snapshot /\ d.text \in Text \cup {"none"}
  BY DEF Snapshot, Text
<1>3. Idle \in Snapshots /\ Due \in Snapshots /\ Idle \in PollStates
  BY <1>1 DEF Idle, Due, Snapshots, PollStates
<1>4. \A d \in Snapshot : [at |-> "served", draft |-> d] \in Snapshots \cap PollStates
  BY DEF Snapshots, PollStates
<1>5. \A l \in Snapshots \cup PollStates : l.draft \in Snapshot
  BY DEF Snapshots, PollStates
<1>6. /\ NoList \in ListStates /\ NoList.notes = {} /\ NoList.at = "no"
      /\ \A ns \in SUBSET Note : LET l == [at |-> "served", notes |-> ns] IN
                                 l \in ListStates /\ l.notes = ns
      /\ \A l \in ListStates : l.notes \in SUBSET Note
  BY DEF NoList, ListStates
<1>. QED
  BY <1>1, <1>2, <1>3, <1>4, <1>5, <1>6

LEMMA Requests ==
    /\ NoAsk \in AskStates /\ NoAsk.at = "no"
    /\ \A a \in {"sent", "ok", "failed"}, n \in Note \cup {0} :
          LET r == [at |-> a, note |-> n] IN r \in AskStates /\ r.at = a /\ r.note = n
    /\ \A a \in AskStates : LET r == [a EXCEPT !.at = "adrift"] IN r \in AskStates /\ r.at = "adrift"
    /\ \A a \in AskStates : LET r == [a EXCEPT !.at = "judged"] IN r \in AskStates /\ r.at = "judged"
    /\ \A a \in AskStates : a.note \in Note \cup {0}
<1>1. NoAsk \in AskStates /\ NoAsk.at = "no"
  BY DEF NoAsk, AskStates
<1>2. \A a \in {"sent", "ok", "failed"}, n \in Note \cup {0} :
        LET r == [at |-> a, note |-> n] IN r \in AskStates /\ r.at = a /\ r.note = n
  BY DEF AskStates
<1>3. ASSUME NEW a \in AskStates
      PROVE  /\ [a EXCEPT !.at = "adrift"] \in AskStates /\ [a EXCEPT !.at = "adrift"].at = "adrift"
             /\ [a EXCEPT !.at = "judged"] \in AskStates /\ [a EXCEPT !.at = "judged"].at = "judged"
             /\ a.note \in Note \cup {0}
  BY DEF AskStates
<1>. QED
  BY <1>1, <1>2, <1>3

\* The page hears or forgets confirmations and never makes one up.
NoneMore == ask' \in [Write -> AskStates] /\ \A v \in Write : ask'[v].at = "ok" => ask'[v] = ask[v]

LEMMA Sending ==
    ASSUME ask \in [Write -> AskStates], NEW w \in Write, NEW n \in Note \cup {0}, Sends(w, n)
    PROVE  NoneMore
BY Requests DEF Sends, NoneMore

LEMMA Hearing ==
    ASSUME ask \in [Write -> AskStates], NEW w \in Write, NEW at, Hears(w, at)
    PROVE  NoneMore /\ ask[w].at = at /\ ask'[w].at # "ok"
BY Requests DEF Hears, NoneMore
-----------------------------------------------------------------------------
(***************************************************************************)
(* The invariant, part by part.                                            *)
(***************************************************************************)
ServerTypes ==
    /\ text \in Text /\ decided \subseteq {"accepted", "dismissed"}
    /\ annotations \subseteq Note /\ comments \subseteq Note
    /\ author \in [Note -> {"nobody", "me", "them"}]
    /\ review \in {"awaiting", "approved", "rejected"}
    /\ reviews \subseteq {"me", "them"} \X Verdicts
ViewTypes ==
    /\ tab \in {"analysis", "document"} /\ mode \in {"comment", "edit"}
    /\ redlines \in BOOLEAN
FlagTypes == hidden \in BOOLEAN /\ failed \in BOOLEAN /\ editing \in BOOLEAN /\ approved \in BOOLEAN
DraftTypes == draft \in Snapshot /\ load \in Snapshots /\ poll \in PollStates
ListTypes == cards \in [Note -> 0..2] /\ listPoll \in ListStates
BoundTypes == acts \in 0..MaxActs /\ others \in 0..MaxOthers /\ faults \in 0..MaxFaults

LEMMA TypeParts ==
    TypeOK <=> /\ ServerTypes /\ ViewTypes /\ FlagTypes /\ DraftTypes /\ ListTypes /\ BoundTypes
               /\ ask \in [Write -> AskStates]
BY DEF TypeOK, ServerTypes, ViewTypes, FlagTypes, DraftTypes, ListTypes, BoundTypes,
       Snapshots, PollStates, ListStates, AskStates

LEMMA TypePartsNext ==
    TypeOK' <=> /\ ServerTypes' /\ ViewTypes' /\ FlagTypes' /\ DraftTypes' /\ ListTypes' /\ BoundTypes'
                /\ ask' \in [Write -> AskStates]
BY DEF TypeOK, ServerTypes, ViewTypes, FlagTypes, DraftTypes, ListTypes, BoundTypes,
       Snapshots, PollStates, ListStates, AskStates

\* A step that leaves the server's notes alone and hears of nothing new.
LEMMA KeepWritten ==
    ASSUME Written, NoneMore, UNCHANGED <<annotations, comments, author>>,
           listPoll'.notes \subseteq listPoll.notes \cup annotations \cup comments,
           \A n \in Note : author[n] = "nobody" => cards'[n] = 0,
           \A w \in Creations : ask'[w].at = "ok" => cards'[ask[w].note] \in {0, 1}
    PROVE  Written'
<1>1. \A n \in Note : author[n] = "nobody" => /\ n \notin annotations \cup comments
                                              /\ n \notin listPoll'.notes
                                              /\ cards'[n] = 0
  BY DEF Written
<1>2. \A w \in Creations : ask'[w].at = "ok" => ask'[w] = ask[w] /\ ask[w].at = "ok"
  BY DEF NoneMore, Creations, Write
<1>3. \A w \in Creations : ask'[w].at = "ok" => /\ ask'[w].note \in Note
                                                /\ author[ask'[w].note] # "nobody"
                                                /\ cards'[ask'[w].note] \in {0, 1}
  BY <1>2 DEF Written
<1>4. ask'["annotate"].at = "ok" /\ ask'["post"].at = "ok" => ask'["annotate"].note # ask'["post"].note
  BY <1>2 DEF Written, Creations
<1>. QED
  BY <1>1, <1>3, <1>4 DEF Written

LEMMA SameLists ==
    ASSUME Written, NoneMore, UNCHANGED <<annotations, comments, author, cards, listPoll>>
    PROVE  Written'
<1>1. \A w \in Creations : ask'[w].at = "ok" => ask[w].at = "ok"
  BY DEF NoneMore, Creations, Write
<1>2. /\ \A n \in Note : author[n] = "nobody" => cards'[n] = 0
      /\ \A w \in Creations : ask'[w].at = "ok" => cards'[ask[w].note] \in {0, 1}
  BY <1>1 DEF Written
<1>. QED
  BY <1>2, KeepWritten

LEMMA KeepConfirmed ==
    ASSUME Confirmed, NoneMore, UNCHANGED <<decided, review, reviews>>,
           hidden' => decided # {}, approved' => Mine \in reviews
    PROVE  Confirmed'
BY DEF Confirmed, Stands, NoneMore, Write
-----------------------------------------------------------------------------
(***************************************************************************)
(* The server.                                                             *)
(***************************************************************************)
\* What a write does: the server takes no decision back, a note has one author for
\* ever, and what a confirmation says of it has happened.
LEMMA Performing ==
    ASSUME ServerTypes, Written, NEW who \in {"me", "them"}, NEW w \in Write, NEW n \in Note \cup {0},
           w \in Creations => n \in Note, Perform(who, w, n)
    PROVE  /\ ServerTypes'
           /\ decided # {} => decided' # {}
           /\ w \in {"accept", "dismiss"} => decided' # {}
           /\ reviews \subseteq reviews'
           /\ w = "approve" /\ who = "me" => Mine \in reviews'
           /\ (Mine \in reviews => Stands) => (Mine \in reviews' => Stands')
           /\ \A m \in Note : author'[m] = "nobody" => /\ author[m] = "nobody"
                                                       /\ m \notin annotations' \cup comments'
           /\ w \in Creations => author[n] = "nobody" /\ author'[n] # "nobody"
<1>0. /\ text \in Text /\ decided \subseteq {"accepted", "dismissed"}
      /\ annotations \subseteq Note /\ comments \subseteq Note
      /\ author \in [Note -> {"nobody", "me", "them"}]
      /\ review \in {"awaiting", "approved", "rejected"}
      /\ reviews \subseteq {"me", "them"} \X Verdicts
      /\ \A m \in Note : author[m] = "nobody" => m \notin annotations \cup comments
  BY DEF ServerTypes, Written
<1>1. CASE w = "accept" /\ Accept
  BY <1>0, <1>1 DEF Accept, ServerTypes, Text, Creations, Stands
<1>2. CASE w = "dismiss" /\ Dismiss
  BY <1>0, <1>2 DEF Dismiss, ServerTypes, Creations, Stands
<1>3. CASE w = "save" /\ Save(who)
  BY <1>0, <1>3 DEF Save, ServerTypes, Text, Creations, Stands
<1>4. CASE w \in {"annotate", "post"} /\ Create(who, w, n)
  BY <1>0, <1>4 DEF Create, ServerTypes, Creations, Stands
<1>5. CASE w = "remove" /\ Delete(who, n)
  BY <1>0, <1>5 DEF Delete, ServerTypes, Creations, Stands
<1>6. CASE w \in Verdicts /\ Sign(who, w)
  <2>1. /\ w \in {"approve", "reject"} /\ reviews' = reviews \cup {<<who, w>>}
        /\ review' = IF w = "approve" THEN "approved" ELSE "rejected"
        /\ UNCHANGED <<text, decided, annotations, comments, author>>
    BY <1>6 DEF Sign, Verdicts
  <2>2. ServerTypes'
    BY <1>0, <2>1 DEF ServerTypes, Verdicts
  <2>3. Stands'
    BY <2>1 DEF Stands
  <2>. QED
    BY <1>0, <2>1, <2>2, <2>3 DEF Creations, Mine
<1>. QED
  BY <1>1, <1>2, <1>3, <1>4, <1>5, <1>6 DEF Perform

\* An answer to a write: the page hears one confirmation, or none.
LEMMA Replying ==
    ASSUME ask \in [Write -> AskStates], NEW w \in Write, NEW n \in Note \cup {0},
           NEW at \in {"ok", "failed"}, Reply(w, at, n)
    PROVE  /\ ask' \in [Write -> AskStates]
           /\ \A v \in Write \ {w} : ask'[v] = ask[v]
           /\ ask'[w].at = "ok" => at = "ok" /\ ask'[w].note = n
BY Requests DEF Reply

\* A write is served, and its answer perhaps lost.
LEMMA ServedTypes ==
    ASSUME TypeOK, Written, NEW w \in Write, ServeWrite(w)
    PROVE  ServerTypes' /\ ask' \in [Write -> AskStates] /\ faults' \in 0..MaxFaults
<1>0. /\ ServerTypes /\ ask \in [Write -> AskStates] /\ faults \in 0..MaxFaults
      /\ ask[w].note \in Note \cup {0}
  BY TypeParts, Requests DEF BoundTypes
<1>1. Faults => faults' \in 0..MaxFaults
  BY <1>0, DeskAssumption DEF Faults
<1>2. UNCHANGED server => ServerTypes'
  BY <1>0 DEF server, ServerTypes
<1>3. CASE /\ \E n \in IF w \in {"annotate", "post"} THEN Note ELSE {ask[w].note} :
                /\ Perform("me", w, n)
                /\ \/ Reply(w, "ok", n) /\ UNCHANGED faults
                   \/ Reply(w, "failed", n) /\ Faults
  <2>1. PICK n \in IF w \in {"annotate", "post"} THEN Note ELSE {ask[w].note} :
               /\ Perform("me", w, n)
               /\ \/ Reply(w, "ok", n) /\ UNCHANGED faults
                  \/ Reply(w, "failed", n) /\ Faults
    BY <1>3
  <2>2. n \in Note \cup {0} /\ (w \in Creations => n \in Note)
    BY <1>0, <2>1 DEF Creations
  <2>3. ServerTypes'
    BY <1>0, <2>1, <2>2, Performing
  <2>4. ask' \in [Write -> AskStates] /\ faults' \in 0..MaxFaults
    BY <1>0, <1>1, <2>1, <2>2, Replying
  <2>. QED
    BY <2>3, <2>4
<1>4. CASE Forbidden(w, ask[w].note) /\ Reply(w, "failed", 0) /\ UNCHANGED <<server, faults>>
  BY <1>0, <1>2, <1>4, Replying
<1>5. CASE Faults /\ Reply(w, "failed", 0) /\ UNCHANGED server
  BY <1>0, <1>1, <1>2, <1>5, Replying
<1>. QED
  BY <1>3, <1>4, <1>5 DEF ServeWrite

LEMMA ServedRightly ==
    ASSUME TypeOK, Written, Confirmed, NEW w \in Write, ServeWrite(w)
    PROVE  Written' /\ Confirmed'
<1>0. /\ ServerTypes /\ ask \in [Write -> AskStates] /\ ask[w].note \in Note \cup {0}
      /\ UNCHANGED <<cards, listPoll, hidden, approved>>
  BY TypeParts, Requests DEF ServeWrite, lists, view
<1>1. ASSUME UNCHANGED server, Reply(w, "failed", 0)
      PROVE  Written' /\ Confirmed'
  <2>1. NoneMore
    BY <1>0, <1>1, Replying DEF NoneMore
  <2>. QED
    BY <1>0, <1>1, <2>1, SameLists, KeepConfirmed DEF server, Confirmed
<1>2. ASSUME NEW n \in IF w \in {"annotate", "post"} THEN Note ELSE {ask[w].note},
             Perform("me", w, n), NEW at \in {"ok", "failed"}, Reply(w, at, n)
      PROVE  Written' /\ Confirmed'
  <2>1. n \in Note \cup {0} /\ (w \in Creations => n \in Note)
    BY <1>0, <1>2 DEF Creations
  <2>2. /\ decided # {} => decided' # {}
        /\ w \in {"accept", "dismiss"} => decided' # {}
        /\ reviews \subseteq reviews'
        /\ w = "approve" => Mine \in reviews'
        /\ (Mine \in reviews => Stands) => (Mine \in reviews' => Stands')
        /\ \A m \in Note : author'[m] = "nobody" => /\ author[m] = "nobody"
                                                    /\ m \notin annotations' \cup comments'
        /\ w \in Creations => author[n] = "nobody" /\ author'[n] # "nobody"
    BY <1>0, <1>2, <2>1, Performing
  <2>3. /\ \A v \in Write \ {w} : ask'[v] = ask[v]
        /\ ask'[w].at = "ok" => ask'[w].note = n
    BY <1>0, <1>2, <2>1, Replying
  <2>4. Confirmed'
    <3>1. \A v \in {"accept", "dismiss"} : ask'[v].at = "ok" => decided' # {}
      BY <2>2, <2>3 DEF Confirmed, Write
    <3>2. ask'["approve"].at = "ok" => Mine \in reviews'
      BY <2>2, <2>3 DEF Confirmed, Write
    <3>3. /\ hidden' => decided' # {}
          /\ approved' => Mine \in reviews'
          /\ Mine \in reviews' => Stands'
      BY <1>0, <2>2 DEF Confirmed
    <3>. QED
      BY <3>1, <3>2, <3>3 DEF Confirmed, Mine
  <2>5. \A m \in Note : author'[m] = "nobody" => /\ m \notin annotations' \cup comments'
                                                 /\ m \notin listPoll'.notes
                                                 /\ cards'[m] = 0
    BY <1>0, <2>2 DEF Written
  <2>6. ASSUME NEW v \in Creations, ask'[v].at = "ok"
        PROVE  /\ ask'[v].note \in Note /\ author'[ask'[v].note] # "nobody"
               /\ cards'[ask'[v].note] \in {0, 1}
    <3>1. CASE v = w
      BY <1>0, <2>1, <2>2, <2>3, <2>6, <3>1 DEF Written
    <3>2. CASE v # w
      <4>1. v \in Write /\ ask'[v] = ask[v]
        BY <2>3, <2>6, <3>2 DEF Creations, Write
      <4>. QED
        BY <1>0, <2>2, <2>6, <4>1 DEF Written
    <3>. QED
      BY <3>1, <3>2
  <2>7. ask'["annotate"].at = "ok" /\ ask'["post"].at = "ok" => ask'["annotate"].note # ask'["post"].note
    <3>1. \A v \in Creations \ {w} : ask'[v] = ask[v] /\ (ask[v].at = "ok" => author[ask[v].note] # "nobody")
      BY <2>3 DEF Creations, Write, Written
    <3>2. CASE w \in Creations
      BY <2>2, <2>3, <3>1, <3>2 DEF Creations
    <3>3. CASE w \notin Creations
      BY <3>1, <3>3 DEF Creations, Written
    <3>. QED
      BY <3>2, <3>3
  <2>8. Written'
    BY <2>5, <2>6, <2>7 DEF Written
  <2>. QED
    BY <2>4, <2>8
<1>. QED
  BY <1>1, <1>2 DEF ServeWrite

\* The run's status was read for a decision, of which the page hears nothing yet.
LEMMA Judging ==
    ASSUME TypeOK, Written, Confirmed, NEW w \in Verdicts, JudgeSign(w)
    PROVE  Written' /\ Confirmed' /\ ask' \in [Write -> AskStates]
<1>0. ask \in [Write -> AskStates] /\ w \in Write
  BY TypeParts DEF Verdicts, Write
<1>1. NoneMore
  <2>1. [ask[w] EXCEPT !.at = "judged"] \in AskStates /\ [ask[w] EXCEPT !.at = "judged"].at = "judged"
    BY <1>0, Requests
  <2>2. ask' = [ask EXCEPT ![w] = [ask[w] EXCEPT !.at = "judged"]]
    BY <1>0 DEF JudgeSign
  <2>. QED
    BY <1>0, <2>1, <2>2 DEF NoneMore
<1>2. UNCHANGED <<server, cards, listPoll, hidden, approved>>
  BY DEF JudgeSign, lists
<1>. QED
  BY <1>1, <1>2, SameLists, KeepConfirmed DEF server, Confirmed, NoneMore

LEMMA Others ==
    ASSUME TypeOK, Written, Confirmed, Teammate
    PROVE  ServerTypes' /\ others' \in 0..MaxOthers /\ Written' /\ Confirmed'
<1>0. /\ ServerTypes /\ others \in 0..MaxOthers /\ UNCHANGED <<cards, listPoll, hidden, approved, ask>>
  BY TypeParts DEF Teammate, lists, view, BoundTypes
<1>1. others' \in 0..MaxOthers
  BY <1>0, DeskAssumption DEF Teammate
<1>2. PICK w \in Write, n \in Note : Perform("them", w, n)
  BY DEF Teammate
<1>3. /\ ServerTypes'
      /\ decided # {} => decided' # {}
      /\ reviews \subseteq reviews'
      /\ (Mine \in reviews => Stands) => (Mine \in reviews' => Stands')
      /\ \A m \in Note : author'[m] = "nobody" => /\ author[m] = "nobody"
                                                  /\ m \notin annotations' \cup comments'
  BY <1>0, <1>2, Performing
<1>4. Confirmed'
  <2>1. /\ \A v \in {"accept", "dismiss"} : ask'[v].at = "ok" => decided' # {}
        /\ hidden' => decided' # {}
        /\ ask'["approve"].at = "ok" => Mine \in reviews'
        /\ approved' => Mine \in reviews'
        /\ Mine \in reviews' => Stands'
    BY <1>0, <1>3 DEF Confirmed
  <2>. QED
    BY <2>1 DEF Confirmed, Mine
<1>5. Written'
  BY <1>0, <1>3 DEF Written
<1>. QED
  BY <1>1, <1>3, <1>4, <1>5

-----------------------------------------------------------------------------
(***************************************************************************)
(* The page.                                                               *)
(***************************************************************************)
Page == User \/ Loads \/ LoadFailed \/ Polls \/ Lists \/ Answers

LEMMA PageAsks ==
    ASSUME ask \in [Write -> AskStates], Page
    PROVE  NoneMore /\ UNCHANGED server
<1>. UNCHANGED ask => NoneMore
  BY DEF NoneMore
<1>1. ASSUME NEW t \in {"analysis", "document"}, OpenTab(t)
      PROVE  NoneMore /\ UNCHANGED server
  <2>1. UNCHANGED server
    BY <1>1 DEF OpenTab
  <2>2. ask' = [w \in Write |-> IF w \in Verdicts THEN ask[w]
                               ELSE IF ask[w].at \in {"sent", "adrift"} THEN [ask[w] EXCEPT !.at = "adrift"]
                               ELSE NoAsk]
    BY <1>1 DEF OpenTab
  <2>3. ASSUME NEW w \in Write
        PROVE  ask'[w] \in AskStates /\ (ask'[w].at = "ok" => ask'[w] = ask[w])
    <3>1. CASE w \in Verdicts
      BY <2>2, <3>1
    <3>2. CASE w \notin Verdicts /\ ask[w].at \in {"sent", "adrift"}
      <4>1. ask'[w] = [ask[w] EXCEPT !.at = "adrift"]
        BY <2>2, <3>2
      <4>. QED
        BY <4>1, Requests
    <3>3. CASE w \notin Verdicts /\ ask[w].at \notin {"sent", "adrift"}
      <4>1. ask'[w] = NoAsk
        BY <2>2, <3>3
      <4>. QED
        BY <4>1, Requests
    <3>. QED
      BY <3>1, <3>2, <3>3
  <2>. QED
    BY <2>1, <2>2, <2>3 DEF NoneMore
<1>2. ASSUME ToggleView \/ StartEdit \/ CancelEdit \/ Loads \/ LoadFailed \/ Polls \/ Lists
      PROVE  NoneMore /\ UNCHANGED server
  BY <1>2 DEF ToggleView, StartEdit, CancelEdit, Loads, ServeLoad, LoadAnswered, LoadFailed,
              Polls, PollServed, PollAnswered, Lists, ListServed, ListAnswered
<1>3. ASSUME (\E w \in {"accept", "dismiss"} : Decide(w)) \/ CommitEdit \/ PostNote \/ RemoveNote \/ SignOff
      PROVE  NoneMore /\ UNCHANGED server
  <2>1. \E w \in Write, n \in Note \cup {0} : Sends(w, n)
    BY <1>3 DEF Decide, CommitEdit, PostNote, RemoveNote, SignOff, Write, Verdicts
  <2>2. UNCHANGED server
    BY <1>3 DEF Decide, CommitEdit, PostNote, RemoveNote, SignOff
  <2>. QED
    BY <2>1, <2>2, Sending
<1>4. ASSUME Answers
      PROVE  NoneMore /\ UNCHANGED server
  <2>1. \E w \in Write, at \in {"ok", "failed"} : Hears(w, at)
    BY <1>4 DEF Answers, DecisionDone, DecisionFailed, SaveDone, NoteDone, NoteRemoved, NoteFailed,
                SignedOff, SignOffFailed, Write, Verdicts
  <2>2. UNCHANGED server
    BY <1>4 DEF Answers, DecisionDone, DecisionFailed, SaveDone, NoteDone, NoteRemoved, NoteFailed,
                SignedOff, SignOffFailed
  <2>. QED
    BY <2>1, <2>2, Hearing
<1>. QED
  BY <1>1, <1>2, <1>3, <1>4 DEF Page, User

\* What the page shows of the decisions changes by their answers alone.
LEMMA PageConfirmed ==
    ASSUME ask \in [Write -> AskStates], Confirmed, Page
    PROVE  Confirmed'
<1>0. NoneMore /\ UNCHANGED <<decided, review, reviews>>
  BY PageAsks DEF server
<1>1. ASSUME NEW t \in {"analysis", "document"}, OpenTab(t)
      PROVE  Confirmed'
  BY <1>0, <1>1, KeepConfirmed DEF OpenTab, Confirmed
<1>2. ASSUME UNCHANGED <<hidden, approved>>
      PROVE  Confirmed'
  BY <1>0, <1>2, KeepConfirmed DEF Confirmed
<1>3. ASSUME NEW w \in {"accept", "dismiss"}, DecisionDone(w)
      PROVE  Confirmed'
  <2>1. ask[w].at = "ok" /\ UNCHANGED approved
    BY <1>3, Hearing DEF DecisionDone, Write
  <2>. QED
    BY <1>0, <2>1, KeepConfirmed DEF Confirmed
<1>4. ASSUME SignedOff
      PROVE  Confirmed'
  <2>1. PICK w \in Verdicts : Hears(w, "ok") /\ approved' = (approved \/ w = "approve")
    BY <1>4 DEF SignedOff
  <2>2. ask[w].at = "ok" /\ UNCHANGED hidden
    BY <1>4, <2>1, Hearing DEF SignedOff, Write, Verdicts
  <2>. QED
    BY <1>0, <2>1, <2>2, KeepConfirmed DEF Confirmed
<1>5. ASSUME Page, ~SignedOff, \A w \in {"accept", "dismiss"} : ~DecisionDone(w),
             \A t \in {"analysis", "document"} : ~OpenTab(t)
      PROVE  UNCHANGED <<hidden, approved>>
  BY <1>5 DEF Page, User, ToggleView, Decide, StartEdit, CancelEdit, CommitEdit, PostNote, RemoveNote,
              SignOff, Loads, ServeLoad, LoadAnswered, LoadFailed, Polls, PollServed, PollAnswered,
              Lists, ListServed, ListAnswered, Answers, DecisionFailed, SaveDone, NoteDone, NoteRemoved,
              NoteFailed, SignOffFailed
<1>. QED
  BY <1>1, <1>2, <1>3, <1>4, <1>5

\* A list shows what a poll brought, what was created, and no note that was removed.
LEMMA PageWritten ==
    ASSUME TypeOK, Written, Page
    PROVE  Written' /\ ListTypes'
<1>0. /\ NoneMore /\ UNCHANGED <<annotations, comments, author>>
      /\ cards \in [Note -> 0..2] /\ listPoll \in ListStates /\ ask \in [Write -> AskStates]
      /\ NoList \in ListStates /\ NoList.notes = {}
  BY PageAsks, TypeParts, Records DEF server, ListTypes
<1>. DEFINE Tidy == /\ \A n \in Note : author[n] = "nobody" => cards'[n] = 0
                    /\ \A w \in Creations : ask'[w].at = "ok" => cards'[ask[w].note] \in {0, 1}
<1>1. ASSUME listPoll' \in ListStates,
             listPoll'.notes \subseteq listPoll.notes \cup annotations \cup comments,
             cards' \in [Note -> 0..2], Tidy
      PROVE  Written' /\ ListTypes'
  BY <1>0, <1>1, KeepWritten DEF ListTypes
<1>2. UNCHANGED cards => cards' \in [Note -> 0..2] /\ Tidy
  BY <1>0 DEF NoneMore, Written, Creations, Write
<1>3. CASE UNCHANGED <<cards, listPoll>>
  BY <1>0, <1>1, <1>2, <1>3
<1>4. ASSUME NEW t \in {"analysis", "document"}, OpenTab(t)
      PROVE  Written' /\ ListTypes'
  <2>1. cards' = [n \in Note |-> 0] /\ listPoll' = NoList
    BY <1>4 DEF OpenTab
  <2>2. cards' \in [Note -> 0..2]
    BY <2>1
  <2>3. Tidy
    <3>1. ASSUME NEW w \in Creations, ask'[w].at = "ok"
          PROVE  ask[w].note \in Note
      BY <1>0, <3>1 DEF NoneMore, Written, Creations, Write
    <3>. QED
      BY <2>1, <3>1
  <2>. QED
    BY <1>0, <1>1, <2>1, <2>2, <2>3
<1>5. CASE ListServed
  <2>1. UNCHANGED cards /\ listPoll' = [at |-> "served", notes |-> Listed]
    BY <1>5 DEF ListServed
  <2>2. Listed \subseteq annotations \cup comments /\ Listed \in SUBSET Note
    BY TypeParts DEF Listed, ServerTypes
  <2>3. listPoll' \in ListStates /\ listPoll'.notes = Listed
    BY <2>1, <2>2, Records
  <2>. QED
    BY <1>1, <1>2, <2>1, <2>2, <2>3
<1>6. CASE ListAnswered
  <2>1. /\ cards' = [n \in Note |-> IF n \in listPoll.notes THEN 1 ELSE 0]
        /\ listPoll' = NoList
    BY <1>6 DEF ListAnswered
  <2>2. cards' \in [Note -> 0..2] /\ \A n \in Note : cards'[n] \in {0, 1}
    BY <2>1
  <2>3. \A n \in Note : author[n] = "nobody" => cards'[n] = 0
    BY <2>1 DEF Written
  <2>4. \A w \in Creations : ask'[w].at = "ok" => ask[w].note \in Note
    BY <1>0 DEF NoneMore, Written, Creations, Write
  <2>. QED
    BY <1>0, <1>1, <2>1, <2>2, <2>3, <2>4
<1>7. CASE NoteDone
  <2>1. PICK w \in Creations : Hears(w, "ok") /\ cards' = [cards EXCEPT ![ask[w].note] = @ + 1]
    BY <1>7 DEF NoteDone, Creations
  <2>2. /\ w \in Write /\ ask[w].at = "ok" /\ ask'[w].at # "ok"
        /\ ask[w].note \in Note /\ author[ask[w].note] # "nobody" /\ cards[ask[w].note] \in {0, 1}
    BY <1>0, <2>1, Hearing DEF Creations, Write, Written
  <2>3. cards' \in [Note -> 0..2]
    BY <1>0, <2>1, <2>2
  <2>4. \A n \in Note : author[n] = "nobody" => cards'[n] = 0
    BY <1>0, <2>1, <2>2 DEF Written
  <2>5. ASSUME NEW v \in Creations, ask'[v].at = "ok"
        PROVE  cards'[ask[v].note] \in {0, 1}
    <3>1. ask[v].at = "ok" /\ v # w
      BY <1>0, <2>2, <2>5 DEF NoneMore, Creations, Write
    <3>2. ask[v].note \in Note /\ cards[ask[v].note] \in {0, 1} /\ ask[v].note # ask[w].note
      BY <2>2, <3>1 DEF Written, Creations
    <3>. QED
      BY <1>0, <2>1, <3>2
  <2>6. UNCHANGED listPoll
    BY <1>7 DEF NoteDone
  <2>. QED
    BY <1>0, <1>1, <2>3, <2>4, <2>5, <2>6
<1>8. CASE NoteRemoved
  <2>1. cards' = [cards EXCEPT ![ask["remove"].note] = 0] /\ UNCHANGED listPoll
    BY <1>8 DEF NoteRemoved
  <2>2. cards' \in [Note -> 0..2] /\ \A n \in Note : cards'[n] \in {0, cards[n]}
    <3>1. cards' = [n \in Note |-> IF n = ask["remove"].note THEN 0 ELSE cards[n]]
      BY <1>0, <2>1, Zenon
    <3>. QED
      BY <1>0, <3>1
  <2>3. \A w \in Creations : ask'[w].at = "ok" => ask[w].note \in Note /\ cards[ask[w].note] \in {0, 1}
    BY <1>0 DEF NoneMore, Written, Creations, Write
  <2>4. Tidy
    BY <2>2, <2>3 DEF Written
  <2>. QED
    BY <1>0, <1>1, <2>1, <2>2, <2>4
<1>9. \/ UNCHANGED <<cards, listPoll>> \/ (\E t \in {"analysis", "document"} : OpenTab(t))
      \/ ListServed \/ ListAnswered \/ NoteDone \/ NoteRemoved
  BY DEF Page, User, ToggleView, Decide, StartEdit, CancelEdit, CommitEdit, PostNote, RemoveNote,
         SignOff, Loads, ServeLoad, LoadAnswered, LoadFailed, Polls, PollServed, PollAnswered,
         Lists, Answers, DecisionDone, DecisionFailed, SaveDone, NoteFailed, SignedOff, SignOffFailed, lists
<1>. QED
  BY <1>3, <1>4, <1>5, <1>6, <1>7, <1>8, <1>9

\* The document is a snapshot of the server's, or one that the user has changed.
LEMMA PageTypes ==
    ASSUME TypeOK, Page
    PROVE  ViewTypes' /\ FlagTypes' /\ DraftTypes' /\ BoundTypes'
<1>0. /\ ViewTypes /\ FlagTypes /\ DraftTypes /\ BoundTypes /\ Served \in Snapshot
      /\ \A x \in {"analysis", "document"} : Loading(x) \in Snapshots
  BY TypeParts, Records DEF ServerTypes, Served, Snapshot, Loading
<1>1. Acts => acts' \in 0..MaxActs
  BY <1>0, DeskAssumption DEF Acts, BoundTypes
<1>2. Faults => faults' \in 0..MaxFaults
  BY <1>0, DeskAssumption DEF Faults, BoundTypes
<1>3. /\ Refresh => load' \in Snapshots /\ failed' \in BOOLEAN
      /\ UNCHANGED loads => load' \in Snapshots /\ failed' \in BOOLEAN
  BY <1>0, Records DEF Refresh, loads, DraftTypes, FlagTypes
<1>. DEFINE Types == ViewTypes' /\ FlagTypes' /\ DraftTypes' /\ BoundTypes'
<1>4. ASSUME NEW t \in {"analysis", "document"}, OpenTab(t)
      PROVE  Types
  BY <1>0, <1>1, <1>4, Records DEF OpenTab, ViewTypes, FlagTypes, DraftTypes, BoundTypes
<1>5. ASSUME ToggleView \/ StartEdit \/ CancelEdit
      PROVE  Types
  BY <1>0, <1>1, <1>5 DEF ToggleView, StartEdit, CancelEdit, view, loads, bounds, document,
                          ViewTypes, FlagTypes, DraftTypes, BoundTypes
<1>6. ASSUME NEW w \in {"accept", "dismiss"}, Decide(w)
      PROVE  Types
  <2>1. draft' \in Snapshot
    <3>1. CASE UNCHANGED draft
      BY <1>0, <3>1 DEF DraftTypes
    <3>2. CASE Bar /\ draft' = [pending |-> FALSE, text |-> IF w = "accept" THEN "suggested" ELSE draft.text]
      <4>1. "suggested" \in Text /\ "original" \in Text /\ draft.text = "original"
        BY <3>2 DEF Text, Bar
      <4>. QED
        BY <3>2, <4>1, Records
    <3>. QED
      BY <1>6, <3>1, <3>2 DEF Decide
  <2>2. UNCHANGED <<view, hidden, editing, loads, poll, approved, others, faults>> /\ Acts
    BY <1>6 DEF Decide
  <2>. QED
    BY <1>0, <1>1, <2>1, <2>2 DEF view, loads, ViewTypes, FlagTypes, DraftTypes, BoundTypes
<1>7. ASSUME PostNote \/ RemoveNote \/ SignOff \/ CommitEdit
      PROVE  Types
  <2>1. UNCHANGED <<view, hidden, document, loads, poll, approved, others, faults>> /\ acts' \in 0..MaxActs
    BY <1>0, <1>1, <1>7 DEF PostNote, RemoveNote, SignOff, CommitEdit, bounds, BoundTypes
  <2>. QED
    BY <1>0, <2>1 DEF view, document, loads, ViewTypes, FlagTypes, DraftTypes, BoundTypes
<1>8. ASSUME Loads \/ LoadFailed \/ Polls \/ Lists
      PROVE  Types
  <2>1. draft' \in Snapshot /\ load' \in Snapshots /\ poll' \in PollStates
    BY <1>0, <1>8, Records
       DEF Loads, ServeLoad, LoadAnswered, LoadFailed, Polls, PollServed, PollAnswered, Lists,
           ListServed, ListAnswered, loads, document, DraftTypes
  <2>2. /\ UNCHANGED <<view, hidden, approved, acts, others>>
        /\ failed' \in BOOLEAN /\ editing' \in BOOLEAN /\ faults' \in 0..MaxFaults
    BY <1>0, <1>2, <1>8
       DEF Loads, ServeLoad, LoadAnswered, LoadFailed, Polls, PollServed, PollAnswered, Lists,
           ListServed, ListAnswered, loads, document, bounds, FlagTypes, BoundTypes
  <2>. QED
    BY <1>0, <2>1, <2>2 DEF view, ViewTypes, FlagTypes, DraftTypes, BoundTypes
<1>9. ASSUME Answers
      PROVE  Types
  <2>1. UNCHANGED <<view, poll, bounds>>
    BY <1>9 DEF Answers, DecisionDone, DecisionFailed, SaveDone, NoteDone, NoteRemoved, NoteFailed,
                SignedOff, SignOffFailed
  <2>2. draft' \in Snapshot
    BY <1>0, <1>9, Records
       DEF Answers, DecisionDone, DecisionFailed, SaveDone, NoteDone, NoteRemoved, NoteFailed,
           SignedOff, SignOffFailed, document, DraftTypes
  <2>3. load' \in Snapshots /\ failed' \in BOOLEAN
    BY <1>3, <1>9
       DEF Answers, DecisionDone, DecisionFailed, SaveDone, NoteDone, NoteRemoved, NoteFailed,
           SignedOff, SignOffFailed
  <2>4. hidden' \in BOOLEAN /\ editing' \in BOOLEAN
    BY <1>0, <1>9
       DEF Answers, DecisionDone, DecisionFailed, SaveDone, NoteDone, NoteRemoved, NoteFailed,
           SignedOff, SignOffFailed, document, FlagTypes
  <2>5. approved' \in BOOLEAN
    BY <1>0, <1>9
       DEF Answers, DecisionDone, DecisionFailed, SaveDone, NoteDone, NoteRemoved, NoteFailed,
           SignedOff, SignOffFailed, FlagTypes
  <2>. QED
    BY <1>0, <2>1, <2>2, <2>3, <2>4, <2>5 DEF view, bounds, ViewTypes, FlagTypes, DraftTypes, BoundTypes
<1>. QED
  BY <1>4, <1>5, <1>6, <1>7, <1>8, <1>9 DEF Page, User

-----------------------------------------------------------------------------
LEMMA DeskStart == Init => DeskInv
<1> SUFFICES ASSUME Init PROVE DeskInv
  OBVIOUS
<1>1. /\ ServerTypes /\ ViewTypes /\ FlagTypes /\ BoundTypes
  <2>1. ServerTypes
    BY DEF Init, ServerTypes, Text
  <2>2. ViewTypes /\ FlagTypes
    BY DEF Init, ViewTypes, FlagTypes
  <2>3. BoundTypes
    BY DeskAssumption DEF Init, BoundTypes
  <2>. QED
    BY <2>1, <2>2, <2>3
<1>2. DraftTypes /\ ListTypes /\ ask \in [Write -> AskStates]
  BY Records, Requests DEF Init, DraftTypes, ListTypes, Loading
<1>3. Written /\ Confirmed
  BY Records, Requests DEF Init, Written, Confirmed, Creations, Write
<1>. QED
  BY <1>1, <1>2, <1>3, TypeParts DEF DeskInv

LEMMA DeskStep == DeskInv /\ [Next]_vars => DeskInv'
<1> SUFFICES ASSUME DeskInv, [Next]_vars PROVE DeskInv'
  OBVIOUS
<1>0. /\ TypeOK /\ Written /\ Confirmed
      /\ ServerTypes /\ ViewTypes /\ FlagTypes /\ DraftTypes /\ ListTypes /\ BoundTypes
      /\ ask \in [Write -> AskStates]
  BY TypeParts DEF DeskInv
<1>1. CASE Page
  <2>1. Written' /\ ListTypes' /\ Confirmed'
    BY <1>0, <1>1, PageWritten, PageConfirmed
  <2>2. ask' \in [Write -> AskStates] /\ ServerTypes'
    BY <1>0, <1>1, PageAsks DEF NoneMore, server, ServerTypes
  <2>3. ViewTypes' /\ FlagTypes' /\ DraftTypes' /\ BoundTypes'
    BY <1>0, <1>1, PageTypes
  <2>. QED
    BY <2>1, <2>2, <2>3, TypePartsNext DEF DeskInv
<1>2. CASE Teammate
  <2>1. ServerTypes' /\ others' \in 0..MaxOthers /\ Written' /\ Confirmed'
    BY <1>0, <1>2, Others
  <2>2. ViewTypes' /\ FlagTypes' /\ DraftTypes' /\ ListTypes' /\ ask' \in [Write -> AskStates]
    BY <1>0, <1>2 DEF Teammate, view, document, loads, lists, ViewTypes, FlagTypes, DraftTypes, ListTypes
  <2>3. BoundTypes'
    BY <1>0, <1>2, <2>1 DEF Teammate, BoundTypes
  <2>. QED
    BY <2>1, <2>2, <2>3, TypePartsNext DEF DeskInv
<1>3. CASE \E w \in Write : ServeWrite(w)
  <2>1. PICK w \in Write : ServeWrite(w)
    BY <1>3
  <2>2. ServerTypes' /\ ask' \in [Write -> AskStates] /\ faults' \in 0..MaxFaults
    BY <1>0, <2>1, ServedTypes
  <2>3. Written' /\ Confirmed'
    BY <1>0, <2>1, ServedRightly
  <2>4. ViewTypes' /\ FlagTypes' /\ DraftTypes' /\ ListTypes'
    BY <1>0, <2>1 DEF ServeWrite, view, document, loads, lists, ViewTypes, FlagTypes, DraftTypes, ListTypes
  <2>5. BoundTypes'
    BY <1>0, <2>1, <2>2 DEF ServeWrite, BoundTypes
  <2>. QED
    BY <2>2, <2>3, <2>4, <2>5, TypePartsNext DEF DeskInv
<1>4. CASE \E w \in Verdicts : JudgeSign(w)
  <2>1. PICK w \in Verdicts : JudgeSign(w)
    BY <1>4
  <2>2. Written' /\ Confirmed' /\ ask' \in [Write -> AskStates]
    BY <1>0, <2>1, Judging
  <2>3. /\ ServerTypes' /\ ViewTypes' /\ FlagTypes' /\ DraftTypes' /\ ListTypes' /\ BoundTypes'
    BY <1>0, <2>1 DEF JudgeSign, server, view, document, loads, lists, bounds, ServerTypes, ViewTypes,
                      FlagTypes, DraftTypes, ListTypes, BoundTypes
  <2>. QED
    BY <2>2, <2>3, TypePartsNext DEF DeskInv
<1>5. CASE UNCHANGED vars
  <2>1. /\ ServerTypes' /\ ViewTypes' /\ FlagTypes' /\ DraftTypes' /\ ListTypes' /\ BoundTypes'
        /\ ask' \in [Write -> AskStates]
    BY <1>0, <1>5 DEF vars, ServerTypes, ViewTypes, FlagTypes, DraftTypes, ListTypes, BoundTypes
  <2>2. Written' /\ Confirmed'
    BY <1>0, <1>5 DEF vars, Written, Confirmed, Stands
  <2>. QED
    BY <2>1, <2>2, TypePartsNext DEF DeskInv
<1>. QED
  BY <1>1, <1>2, <1>3, <1>4, <1>5 DEF Next, Page, Serves

\* The page and its requests are in known states, and a list shows no note more than
\* twice, for any number of acts, teammates' writes and losses (VerdictView.jsx,
\* ContractReader.tsx, DocumentEditor.tsx).
THEOREM TypeCorrect == Spec => []TypeOK
<1>1. DeskInv => TypeOK
  BY DEF DeskInv
<1>. QED
  BY <1>1, DeskStart, DeskStep, PTL DEF Spec

\* A card leaves the findings, and an approval is said to be recorded, only when the
\* server has recorded it, and an approval that does not stand was replaced by a
\* rejection on record, for any number of overlapping decisions (handleAccept and
\* handleDismiss of ContractReader.tsx, the sign-off of VerdictView.jsx,
\* submit_human_review).
THEOREM ShownAsConfirmed == Spec => []ConfirmedOnly
<1>1. DeskInv => ConfirmedOnly
  BY DEF DeskInv, Confirmed, Stands, Mine, ConfirmedOnly
<1>. QED
  BY <1>1, DeskStart, DeskStep, PTL DEF Spec

-----------------------------------------------------------------------------
(***************************************************************************)
(* The word diff of the page (computeWordDiff), for texts of any length.   *)
(* Its definitions are recursive: that they are defined, and what they     *)
(* compute, is shown by a least counterexample, at a distance from the     *)
(* start of both texts that is a number.                                   *)
(***************************************************************************)
\* A set of numbers has a least one.
LEMMA LeastNumber ==
  ASSUME NEW T, T \subseteq Nat, T # {}
  PROVE  \E x \in T : \A y \in T : x <= y
<1> DEFINE Less == OpToRel(<, Nat)
<1>1. PICK x \in T : \A y \in T : ~(<<y, x>> \in Less)
  <2>1. IsWellFoundedOn(Less, Nat)
    BY NatLessThanWellFounded
  <2> HIDE DEF Less
  <2> QED
    BY <2>1, WFMin
<1>2. \A m, n \in Nat : m < n => <<m, n>> \in Less
  BY DEF OpToRel
<1>3. \A y \in T : ~(y < x)
  <2> HIDE DEF Less
  <2> QED
    BY <1>1, <1>2
<1>4. QED
  BY <1>3

\* The functions that start at s0 and go on by the rule G, up to n, and the rules.
Unfoldings(S, s0, n, G) ==
    {f \in [0..n -> S] : f[0] = s0 /\ \A k \in 1..n : f[k] = G[<<k, f[k - 1]>>]}
Rules(S, n) == [(1..n) \X S -> S]

\* Such a function exists.
LEMMA StepByStep ==
  ASSUME NEW S, NEW s0 \in S, NEW n \in Nat, NEW G \in Rules(S, n)
  PROVE  Unfoldings(S, s0, n, G) # {}
<1> DEFINE Upto(f, m) == f[0] = s0 /\ \A k \in 1..m : f[k] = G[<<k, f[k - 1]>>]
           T == {m \in 0..n : ~ \E f \in [0..m -> S] : Upto(f, m)}
<1>0. G \in [(1..n) \X S -> S]
  BY DEF Rules
<1>1. SUFFICES ASSUME T # {} PROVE FALSE
  <2>1. T = {} => n \notin T
    OBVIOUS
  <2>2. n \notin T => \E f \in [0..n -> S] : Upto(f, n)
    OBVIOUS
  <2> QED
    BY <2>1, <2>2 DEF Unfoldings
<1>2. PICK m \in T : \A y \in T : m <= y
  <2>1. T \subseteq Nat
    OBVIOUS
  <2> HIDE DEF T
  <2> QED
    BY <1>1, <2>1, LeastNumber
<1>3. m # 0
  <2> SUFFICES ASSUME m = 0 PROVE FALSE
    OBVIOUS
  <2> DEFINE f == [k \in 0..0 |-> s0]
  <2>1. f \in [0..0 -> S] /\ Upto(f, 0)
    OBVIOUS
  <2> QED
    BY <2>1
<1>4. PICK f \in [0..(m - 1) -> S] : Upto(f, m - 1)
  <2>1. m - 1 \in 0..n /\ m \in Nat
    BY <1>2, <1>3
  <2>2. m - 1 \notin T
    <3> HIDE DEF T
    <3> QED
      BY <1>2, <2>1
  <2> QED
    BY <2>1, <2>2
<1> DEFINE g == [k \in 0..m |-> IF k = m THEN G[<<m, f[m - 1]>>] ELSE f[k]]
<1>5. g \in [0..m -> S]
  BY <1>0, <1>3
<1>6. Upto(g, m)
  <2>1. g[0] = s0
    BY <1>3, <1>4
  <2>2. ASSUME NEW k \in 1..m PROVE g[k] = G[<<k, g[k - 1]>>]
    <3>1. g[k - 1] = f[k - 1]
      OBVIOUS
    <3>2. CASE k = m
      <4>1. g[m] = G[<<m, f[m - 1]>>]
        BY <1>2
      <4> QED
        BY <3>1, <3>2, <4>1
    <3>3. CASE k # m
      <4>1. k \in 1..(m - 1)
        BY <3>3
      <4>2. g[k] = f[k] /\ f[k] = G[<<k, f[k - 1]>>]
        BY <4>1, <1>4
      <4> QED
        BY <4>2, <3>1
    <3> QED
      BY <3>2, <3>3
  <2> QED
    BY <2>1, <2>2
<1>7. QED
  BY <1>5, <1>6

\* Two functions start alike and go on alike.
InStep(f, g, n) == f[0] = g[0] /\ \A k \in 1..n : f[k - 1] = g[k - 1] => f[k] = g[k]

\* They agree wherever both are defined by those steps.
LEMMA SameSteps ==
  ASSUME NEW n \in Nat, NEW f, NEW g, InStep(f, g, n)
  PROVE  \A k \in 0..n : f[k] = g[k]
<1> DEFINE T == {k \in 0..n : f[k] # g[k]}
<1>1. SUFFICES ASSUME T # {} PROVE FALSE
  OBVIOUS
<1>2. PICK k \in T : \A j \in T : k <= j
  <2>1. T \subseteq Nat
    OBVIOUS
  <2> HIDE DEF T
  <2> QED
    BY <1>1, <2>1, LeastNumber
<1>3. k \in 1..n
  BY DEF InStep
<1>4. f[k - 1] = g[k - 1]
  BY <1>2, <1>3
<1>5. QED
  BY <1>3, <1>4 DEF InStep

\* Operations, one per word, and the chunks made of them.
Kinds == {"keep", "del", "add"}
Ops(Word) == [type : Kinds, word : Word]
Chunks(Word) == [type : Kinds, words : Seq(Word)]

\* What a chunk adds to a reading.
ReadOn(read, chunk, t) ==
    IF chunk.type \in {"keep", t} THEN read \o chunk.words ELSE read

\* What is read up to each chunk.
Readings(Word, chunks, t) ==
    {f \in [0..Len(chunks) -> Seq(Word)] :
        /\ f[0] = <<>>
        /\ \A k \in 1..Len(chunks) : f[k] = ReadOn(f[k - 1], chunks[k], t)
        /\ ReadDiff(chunks, t) = f[Len(chunks)]}

\* ReadDiff is defined, and reads chunk by chunk.
LEMMA ReadStepByStep ==
  ASSUME NEW Word, NEW chunks \in Seq(Chunks(Word)), NEW t
  PROVE  Readings(Word, chunks, t) # {}
<1> DEFINE n == Len(chunks)
           S == Seq(Word)
           G == [q \in (1..n) \X S |-> ReadOn(q[2], chunks[q[1]], t)]
           Step(h) == [k \in 0..n |->
                          IF k = 0 THEN <<>>
                          ELSE IF chunks[k].type \in {"keep", t} THEN h[k - 1] \o chunks[k].words
                          ELSE h[k - 1]]
           h == CHOOSE h : h = Step(h)
<1>1. n \in Nat /\ \A k \in 1..n : chunks[k] \in Chunks(Word)
  OBVIOUS
<1>2. ASSUME NEW w \in S, NEW k \in 1..n PROVE ReadOn(w, chunks[k], t) \in S
  <2>1. chunks[k].words \in S
    BY <1>1 DEF Chunks
  <2> QED
    BY <2>1 DEF ReadOn
<1>3. G \in Rules(S, n)
  BY <1>2 DEF Rules
<1>4. <<>> \in S
  OBVIOUS
<1>5. PICK f \in [0..n -> S] : f[0] = <<>> /\ \A k \in 1..n : f[k] = G[<<k, f[k - 1]>>]
  <2>1. n \in Nat
    BY <1>1
  <2> HIDE DEF G, S, n
  <2>2. Unfoldings(S, <<>>, n, G) # {}
    BY <2>1, <1>3, <1>4, StepByStep
  <2> QED
    BY <2>2 DEF Unfoldings
<1>6. ASSUME NEW k \in 1..n PROVE f[k] = ReadOn(f[k - 1], chunks[k], t)
  <2>1. f[k - 1] \in S
    BY <1>1
  <2>2. <<k, f[k - 1]>> \in (1..n) \X S
    BY <2>1
  <2> QED
    BY <1>5, <2>2
<1>7. f = Step(f)
  <2>1. ASSUME NEW k \in 0..n PROVE f[k] = Step(f)[k]
    <3>1. CASE k = 0
      BY <3>1, <1>5, <1>1
    <3>2. CASE k # 0
      <4>1. k \in 1..n
        BY <3>2, <1>1
      <4>2. f[k] = ReadOn(f[k - 1], chunks[k], t)
        BY <4>1, <1>6
      <4> HIDE DEF G, S, n
      <4> QED
        BY <3>2, <4>2 DEF ReadOn
    <3> QED
      BY <3>1, <3>2
  <2> QED
    BY <2>1
<1>8. h = Step(h)
  <2> HIDE DEF Step
  <2> QED
    BY <1>7
<1>9. ReadDiff(chunks, t) = h[n]
  BY Zenon DEF ReadDiff
<1>10. h = f
  <2>1. h = [k \in 0..n |-> h[k]] /\ f = [k \in 0..n |-> f[k]]
    BY <1>8, <1>7
  <2> HIDE DEF h
  <2>2. h[0] = f[0]
    BY <1>7, <1>8, <1>1
  <2>3. ASSUME NEW k \in 1..n, h[k - 1] = f[k - 1] PROVE h[k] = f[k]
    <3>1. h[k] = Step(h)[k] /\ f[k] = Step(f)[k]
      BY <1>7, <1>8
    <3> QED
      BY <3>1, <2>3, <1>1
  <2>4. \A k \in 0..n : h[k] = f[k]
    <3>1. InStep(h, f, n)
      BY <2>2, <2>3 DEF InStep
    <3> HIDE DEF n
    <3> QED
      BY <3>1, <1>1, SameSteps
  <2> QED
    BY <2>1, <2>4
<1> HIDE DEF G, h, Step
<1>11. ReadDiff(chunks, t) = f[n]
  BY <1>9, <1>10
<1>12. f \in Readings(Word, chunks, t)
  BY <1>5, <1>6, <1>11 DEF Readings
<1>13. QED
  BY <1>12

\* No chunks, no words.
LEMMA ReadEmpty == ASSUME NEW t PROVE ReadDiff(<<>>, t) = <<>>
<1>1. <<>> \in Seq(Chunks({})) /\ Len(<<>>) = 0
  OBVIOUS
<1>2. Readings({}, <<>>, t) # {}
  BY <1>1, ReadStepByStep
<1>3. QED
  BY <1>1, <1>2 DEF Readings

\* One more chunk is read after the others.
LEMMA ReadAppend ==
  ASSUME NEW Word, NEW chunks \in Seq(Chunks(Word)), NEW x \in Chunks(Word), NEW t
  PROVE  /\ ReadDiff(chunks, t) \in Seq(Word)
         /\ ReadDiff(Append(chunks, x), t) = ReadOn(ReadDiff(chunks, t), x, t)
<1> DEFINE n == Len(chunks)
           more == Append(chunks, x)
<1>1. /\ n \in Nat /\ more \in Seq(Chunks(Word)) /\ Len(more) = n + 1 /\ more[n + 1] = x
      /\ \A k \in 1..n : more[k] = chunks[k]
  OBVIOUS
<1>2. PICK f \in [0..n -> Seq(Word)] :
          /\ f[0] = <<>>
          /\ \A k \in 1..n : f[k] = ReadOn(f[k - 1], chunks[k], t)
          /\ ReadDiff(chunks, t) = f[n]
  <2>1. Readings(Word, chunks, t) # {}
    BY ReadStepByStep
  <2> QED
    BY <2>1 DEF Readings
<1>3. PICK g \in [0..(n + 1) -> Seq(Word)] :
          /\ g[0] = <<>>
          /\ \A k \in 1..(n + 1) : g[k] = ReadOn(g[k - 1], more[k], t)
          /\ ReadDiff(more, t) = g[n + 1]
  <2> HIDE DEF more, n
  <2>1. Readings(Word, more, t) # {}
    BY <1>1, ReadStepByStep
  <2> QED
    BY <2>1, <1>1 DEF Readings
<1> HIDE DEF more, n
<1>4. \A k \in 0..n : g[k] = f[k]
  <2>1. ASSUME NEW k \in 1..n, g[k - 1] = f[k - 1] PROVE g[k] = f[k]
    BY <2>1, <1>1, <1>2, <1>3
  <2>2. InStep(g, f, n)
    BY <2>1, <1>2, <1>3 DEF InStep
  <2>3. n \in Nat
    BY <1>1
  <2> QED
    BY <2>2, <2>3, SameSteps
<1>5. g[n + 1] = ReadOn(g[n], more[n + 1], t)
  <2>1. n + 1 \in 1..(n + 1) /\ (n + 1) - 1 = n
    BY <1>1
  <2>2. g[n + 1] = ReadOn(g[(n + 1) - 1], more[n + 1], t)
    BY <1>3, <2>1
  <2> QED
    BY <2>1, <2>2
<1>6. f[n] \in Seq(Word) /\ g[n] = f[n]
  BY <1>1, <1>4
<1>7. ReadDiff(more, t) = ReadOn(ReadDiff(chunks, t), x, t)
  BY <1>1, <1>2, <1>3, <1>5, <1>6
<1>8. QED
  BY <1>2, <1>6, <1>7 DEF more

\* A word at the end of the second text is at the end of both.
LEMMA ConcatAppend ==
  ASSUME NEW S, NEW u \in Seq(S), NEW v \in Seq(S), NEW x \in S
  PROVE  u \o Append(v, x) = Append(u \o v, x)
OBVIOUS

\* A run of words of one type is one chunk.
Compact(chunks) == \A k \in 2..Len(chunks) : chunks[k].type # chunks[k - 1].type

\* A word more is one word more to its readers, in the last chunk or in a new one.
LEMMA ReadAddWord ==
  ASSUME NEW Word, NEW chunks \in Seq(Chunks(Word)), NEW op \in Ops(Word), NEW t
  PROVE  /\ AddWord(chunks, op) \in Seq(Chunks(Word))
         /\ Compact(chunks) => Compact(AddWord(chunks, op))
         /\ ReadDiff(AddWord(chunks, op), t) =
                IF op.type \in {"keep", t} THEN Append(ReadDiff(chunks, t), op.word)
                ELSE ReadDiff(chunks, t)
<1> DEFINE n == Len(chunks)
<1>0. n \in Nat /\ op.type \in Kinds /\ op.word \in Word /\ \A k \in 1..n : chunks[k] \in Chunks(Word)
  BY DEF Ops
<1>1. CASE n > 0 /\ chunks[n].type = op.type
  <2> DEFINE front == SubSeq(chunks, 1, n - 1)
             last == chunks[n]
             longer == [type |-> last.type, words |-> Append(last.words, op.word)]
  <2>1. last \in Chunks(Word) /\ last.words \in Seq(Word)
    BY <1>0, <1>1 DEF Chunks
  <2>2. longer \in Chunks(Word)
    BY <2>1, <1>0 DEF Chunks
  <2>3. front \in Seq(Chunks(Word)) /\ Len(front) = n - 1 /\ \A k \in 1..(n - 1) : front[k] = chunks[k]
    <3>1. \A k \in 1..(n - 1) : chunks[k] \in Chunks(Word)
      BY <1>0, <1>1
    <3> HIDE DEF n
    <3> QED
      BY <1>0, <1>1, <3>1, SubSeqProperties
  <2>4. chunks = Append(front, last)
    BY <1>0, <1>1, <2>1, <2>3
  <2>5. AddWord(chunks, op) = [chunks EXCEPT ![n].words = Append(@, op.word)]
    BY <1>1 DEF AddWord
  <2>6. AddWord(chunks, op) = [chunks EXCEPT ![n] = longer]
    <3>1. [last EXCEPT !.words = Append(@, op.word)] = longer
      <4>1. ASSUME NEW x \in Chunks(Word), NEW c
            PROVE  [x EXCEPT !.words = c] = [type |-> x.type, words |-> c]
        BY DEF Chunks
      <4> HIDE DEF last
      <4> QED
        BY <4>1, <2>1
    <3> QED
      BY <2>5, <3>1
  <2>7. AddWord(chunks, op) \in Seq(Chunks(Word)) /\ Len(AddWord(chunks, op)) = n
    <3>1. n \in 1..Len(chunks)
      BY <1>0, <1>1
    <3> HIDE DEF longer
    <3> QED
      BY <2>2, <2>6, <3>1, ExceptSeq
  <2>8. AddWord(chunks, op) = Append(front, longer)
    <3>1. Append(front, longer) \in Seq(Chunks(Word)) /\ Len(Append(front, longer)) = n
      BY <2>2, <2>3, <1>0
    <3>2. ASSUME NEW k \in 1..n PROVE AddWord(chunks, op)[k] = Append(front, longer)[k]
      BY <2>6, <2>3, <1>0
    <3> QED
      BY <2>7, <3>1, <3>2, SeqEqual
  <2>9. Compact(chunks) => Compact(AddWord(chunks, op))
    BY <2>6, <2>7, <1>0 DEF Compact
  <2>10. ReadDiff(front, t) \in Seq(Word)
    BY <2>1, <2>3, ReadAppend
  <2>11. /\ ReadDiff(chunks, t) = ReadOn(ReadDiff(front, t), last, t)
         /\ ReadDiff(AddWord(chunks, op), t) = ReadOn(ReadDiff(front, t), longer, t)
    <3> HIDE DEF front, last, longer
    <3> QED
      BY <2>1, <2>2, <2>3, <2>4, <2>8, ReadAppend
  <2>12. ReadDiff(front, t) \o Append(last.words, op.word)
           = Append(ReadDiff(front, t) \o last.words, op.word)
    <3> HIDE DEF front, last
    <3> QED
      BY <2>1, <2>10, <1>0, ConcatAppend
  <2> QED
    BY <2>7, <2>9, <2>11, <2>12, <1>1 DEF ReadOn
<1>2. CASE ~(n > 0 /\ chunks[n].type = op.type)
  <2> DEFINE x == [type |-> op.type, words |-> <<op.word>>]
  <2>1. x \in Chunks(Word)
    BY <1>0 DEF Chunks
  <2>2. AddWord(chunks, op) = Append(chunks, x)
    BY <1>2 DEF AddWord
  <2>3. Compact(chunks) => Compact(Append(chunks, x))
    BY <1>0, <1>2 DEF Compact
  <2>4. /\ ReadDiff(chunks, t) \in Seq(Word)
        /\ ReadDiff(Append(chunks, x), t) = ReadOn(ReadDiff(chunks, t), x, t)
    <3> HIDE DEF x
    <3> QED
      BY <2>1, ReadAppend
  <2>5. ReadDiff(chunks, t) \o <<op.word>> = Append(ReadDiff(chunks, t), op.word)
    BY <2>4, <1>0
  <2>6. /\ x.type = op.type /\ x.words = <<op.word>>
        /\ Append(chunks, x) \in Seq(Chunks(Word))
    BY <2>1
  <2> HIDE DEF x
  <2> QED
    BY <2>2, <2>3, <2>4, <2>5, <2>6 DEF ReadOn
<1>3. QED
  BY <1>1, <1>2

\* The chunks up to each word.
Mergings(Word, ops) ==
    {f \in [0..Len(ops) -> Seq(Chunks(Word))] :
        /\ f[0] = <<>>
        /\ \A k \in 1..Len(ops) : f[k] = AddWord(f[k - 1], ops[k])
        /\ Merged(ops) = f[Len(ops)]}

\* Merged is defined, and takes the words one by one.
LEMMA MergeStepByStep ==
  ASSUME NEW Word, NEW ops \in Seq(Ops(Word))
  PROVE  Mergings(Word, ops) # {}
<1> DEFINE n == Len(ops)
           S == Seq(Chunks(Word))
           G == [q \in (1..n) \X S |-> AddWord(q[2], ops[q[1]])]
           Step(h) == [k \in 0..n |->
                          IF k = 0 THEN <<>>
                          ELSE AddWord(h[k - 1], ops[k])]
           h == CHOOSE h : h = Step(h)
<1>1. n \in Nat /\ \A k \in 1..n : ops[k] \in Ops(Word)
  OBVIOUS
<1>2. ASSUME NEW w \in S, NEW k \in 1..n PROVE AddWord(w, ops[k]) \in S
  BY <1>1, ReadAddWord
<1>3. G \in Rules(S, n)
  BY <1>2 DEF Rules
<1>4. <<>> \in S
  OBVIOUS
<1>5. PICK f \in [0..n -> S] : f[0] = <<>> /\ \A k \in 1..n : f[k] = G[<<k, f[k - 1]>>]
  <2>1. n \in Nat
    BY <1>1
  <2> HIDE DEF G, S, n
  <2>2. Unfoldings(S, <<>>, n, G) # {}
    BY <2>1, <1>3, <1>4, StepByStep
  <2> QED
    BY <2>2 DEF Unfoldings
<1>6. ASSUME NEW k \in 1..n PROVE f[k] = AddWord(f[k - 1], ops[k])
  <2>1. f[k - 1] \in S
    BY <1>1
  <2>2. <<k, f[k - 1]>> \in (1..n) \X S
    BY <2>1
  <2> QED
    BY <1>5, <2>2
<1>7. f = Step(f)
  <2>1. ASSUME NEW k \in 0..n PROVE f[k] = Step(f)[k]
    <3>1. CASE k = 0
      BY <3>1, <1>5, <1>1
    <3>2. CASE k # 0
      <4>1. k \in 1..n
        BY <3>2, <1>1
      <4>2. f[k] = AddWord(f[k - 1], ops[k])
        BY <4>1, <1>6
      <4> HIDE DEF G, S, n
      <4> QED
        BY <3>2, <4>2
    <3> QED
      BY <3>1, <3>2
  <2> QED
    BY <2>1
<1>8. h = Step(h)
  <2> HIDE DEF Step
  <2> QED
    BY <1>7
<1>9. Merged(ops) = h[n]
  BY Zenon DEF Merged
<1>10. h = f
  <2>1. h = [k \in 0..n |-> h[k]] /\ f = [k \in 0..n |-> f[k]]
    BY <1>8, <1>7
  <2> HIDE DEF h
  <2>2. h[0] = f[0]
    BY <1>7, <1>8, <1>1
  <2>3. ASSUME NEW k \in 1..n, h[k - 1] = f[k - 1] PROVE h[k] = f[k]
    <3>1. h[k] = Step(h)[k] /\ f[k] = Step(f)[k]
      BY <1>7, <1>8
    <3> QED
      BY <3>1, <2>3, <1>1
  <2>4. \A k \in 0..n : h[k] = f[k]
    <3>1. InStep(h, f, n)
      BY <2>2, <2>3 DEF InStep
    <3> HIDE DEF n
    <3> QED
      BY <3>1, <1>1, SameSteps
  <2> QED
    BY <2>1, <2>4
<1> HIDE DEF G, h, Step
<1>11. Merged(ops) = f[n]
  BY <1>9, <1>10
<1>12. f \in Mergings(Word, ops)
  BY <1>5, <1>6, <1>11 DEF Mergings
<1>13. QED
  BY <1>12

\* One more word is added to the chunks of the others.
LEMMA MergedAppend ==
  ASSUME NEW Word, NEW ops \in Seq(Ops(Word)), NEW op \in Ops(Word)
  PROVE  /\ Merged(ops) \in Seq(Chunks(Word))
         /\ Merged(Append(ops, op)) = AddWord(Merged(ops), op)
<1> DEFINE n == Len(ops)
           more == Append(ops, op)
<1>1. /\ n \in Nat /\ more \in Seq(Ops(Word)) /\ Len(more) = n + 1 /\ more[n + 1] = op
      /\ \A k \in 1..n : more[k] = ops[k]
  OBVIOUS
<1>2. PICK f \in [0..n -> Seq(Chunks(Word))] :
          /\ f[0] = <<>>
          /\ \A k \in 1..n : f[k] = AddWord(f[k - 1], ops[k])
          /\ Merged(ops) = f[n]
  <2>1. Mergings(Word, ops) # {}
    BY MergeStepByStep
  <2> QED
    BY <2>1 DEF Mergings
<1>3. PICK g \in [0..(n + 1) -> Seq(Chunks(Word))] :
          /\ g[0] = <<>>
          /\ \A k \in 1..(n + 1) : g[k] = AddWord(g[k - 1], more[k])
          /\ Merged(more) = g[n + 1]
  <2> HIDE DEF more, n
  <2>1. Mergings(Word, more) # {}
    BY <1>1, MergeStepByStep
  <2> QED
    BY <2>1, <1>1 DEF Mergings
<1> HIDE DEF more, n
<1>4. \A k \in 0..n : g[k] = f[k]
  <2>1. ASSUME NEW k \in 1..n, g[k - 1] = f[k - 1] PROVE g[k] = f[k]
    BY <2>1, <1>1, <1>2, <1>3
  <2>2. InStep(g, f, n)
    BY <2>1, <1>2, <1>3 DEF InStep
  <2>3. n \in Nat
    BY <1>1
  <2> QED
    BY <2>2, <2>3, SameSteps
<1>5. g[n + 1] = AddWord(g[n], more[n + 1])
  BY <1>1, <1>3
<1>6. f[n] \in Seq(Chunks(Word)) /\ g[n] = f[n]
  BY <1>1, <1>4
<1>7. Merged(more) = AddWord(Merged(ops), op)
  BY <1>1, <1>2, <1>3, <1>5, <1>6
<1>8. QED
  BY <1>2, <1>6, <1>7 DEF more

\* They are chunks.
LEMMA MergedTyped ==
  ASSUME NEW Word, NEW ops \in Seq(Ops(Word))
  PROVE  Merged(ops) \in Seq(Chunks(Word))
<1>1. PICK f \in Mergings(Word, ops) : TRUE
  BY MergeStepByStep
<1>2. Len(ops) \in 0..Len(ops)
  OBVIOUS
<1>3. QED
  BY <1>1, <1>2 DEF Mergings

\* No operations, no chunks.
LEMMA MergedEmpty == Merged(<<>>) = <<>>
<1>1. <<>> \in Seq(Ops({})) /\ Len(<<>>) = 0
  OBVIOUS
<1>2. Mergings({}, <<>>) # {}
  BY <1>1, MergeStepByStep
<1>3. QED
  BY <1>1, <1>2 DEF Mergings

\* The words up to o[i] and r[j] are told by the operations of the walk.
Told(Word, ops, o, i, r, j) ==
    /\ ops \in Seq(Ops(Word))
    /\ Compact(Merged(ops))
    /\ ReadDiff(Merged(ops), "add") = SubSeq(r, 1, j)
    /\ ReadDiff(Merged(ops), "del") \in Seq(Word)
    /\ Len(ReadDiff(Merged(ops), "del")) = i
    /\ \A k \in 1..i : SameWord(ReadDiff(Merged(ops), "del")[k], o[k])

\* No operations tell the empty beginnings of both texts.
LEMMA ToldNothing == ASSUME NEW Word, NEW o, NEW r PROVE Told(Word, <<>>, o, 0, r, 0)
<1>1. Merged(<<>>) = <<>> /\ ReadDiff(<<>>, "add") = <<>> /\ ReadDiff(<<>>, "del") = <<>>
  BY MergedEmpty, ReadEmpty
<1>2. SubSeq(r, 1, 0) = <<>>
  BY SubSeqEmpty
<1>3. Compact(<<>>)
  BY DEF Compact
<1>4. <<>> \in Seq(Ops(Word)) /\ <<>> \in Seq(Word) /\ Len(<<>>) = 0
  OBVIOUS
<1>5. \A k \in 1..0 : SameWord(<<>>[k], o[k])
  OBVIOUS
<1>6. QED
  BY <1>1, <1>2, <1>3, <1>4, <1>5 DEF Told

\* One more operation is one word more to its readers.
LEMMA ReadOperation ==
  ASSUME NEW Word, NEW ops \in Seq(Ops(Word)), NEW op \in Ops(Word), NEW t
  PROVE  /\ Append(ops, op) \in Seq(Ops(Word))
         /\ Compact(Merged(ops)) => Compact(Merged(Append(ops, op)))
         /\ ReadDiff(Merged(Append(ops, op)), t) =
                IF op.type \in {"keep", t} THEN Append(ReadDiff(Merged(ops), t), op.word)
                ELSE ReadDiff(Merged(ops), t)
<1>1. Merged(ops) \in Seq(Chunks(Word)) /\ Merged(Append(ops, op)) = AddWord(Merged(ops), op)
  BY MergedAppend
<1>2. QED
  BY <1>1, ReadAddWord

\* A beginning is the one before it and its last word.
LEMMA SubSeqLonger ==
  ASSUME NEW S, NEW s \in Seq(S), NEW n \in 1..Len(s)
  PROVE  SubSeq(s, 1, n) = Append(SubSeq(s, 1, n - 1), s[n])
<1>1. SubSeq(s, 1, n) = SubSeq(s, 1, n - 1) \o <<s[n]>>
  BY SubSeqRecursiveSecond
<1>2. SubSeq(s, 1, n - 1) \in Seq(S) /\ s[n] \in S
  <2>1. \A k \in 1..(n - 1) : s[k] \in S
    OBVIOUS
  <2> QED
    BY <2>1, SubSeqProperties
<1>3. QED
  BY <1>1, <1>2

\* A kept word is told to the readers of both.
LEMMA ToldKeep ==
  ASSUME NEW Word, NEW o \in Seq(Word), NEW r \in Seq(Word), NEW ops,
         NEW i \in 1..Len(o), NEW j \in 1..Len(r),
         Told(Word, ops, o, i - 1, r, j - 1), SameWord(o[i], r[j])
  PROVE  Told(Word, Append(ops, [type |-> "keep", word |-> r[j]]), o, i, r, j)
<1> DEFINE op == [type |-> "keep", word |-> r[j]]
           d == ReadDiff(Merged(ops), "del")
<1>1. op \in Ops(Word) /\ op.type = "keep" /\ op.word = r[j] /\ r[j] \in Word
  BY DEF Ops, Kinds
<1> HIDE DEF op
<1>2. /\ Append(ops, op) \in Seq(Ops(Word))
      /\ Compact(Merged(Append(ops, op)))
      /\ ReadDiff(Merged(Append(ops, op)), "add") = Append(SubSeq(r, 1, j - 1), r[j])
      /\ ReadDiff(Merged(Append(ops, op)), "del") = Append(d, r[j])
  <2>1. ops \in Seq(Ops(Word)) /\ Compact(Merged(ops))
        /\ ReadDiff(Merged(ops), "add") = SubSeq(r, 1, j - 1)
    BY DEF Told
  <2>2. ReadDiff(Merged(Append(ops, op)), "add") = Append(ReadDiff(Merged(ops), "add"), op.word)
    BY <2>1, <1>1, ReadOperation
  <2>3. /\ Append(ops, op) \in Seq(Ops(Word))
        /\ Compact(Merged(Append(ops, op)))
        /\ ReadDiff(Merged(Append(ops, op)), "del") =
               IF op.type \in {"keep", "del"} THEN Append(ReadDiff(Merged(ops), "del"), op.word)
               ELSE ReadDiff(Merged(ops), "del")
    BY <2>1, <1>1, ReadOperation
  <2> QED
    BY <2>1, <2>2, <2>3, <1>1
<1>3. SubSeq(r, 1, j) = Append(SubSeq(r, 1, j - 1), r[j])
  BY SubSeqLonger
<1>4. d \in Seq(Word) /\ Len(d) = i - 1 /\ \A k \in 1..(i - 1) : SameWord(d[k], o[k])
  BY DEF Told
<1> HIDE DEF d
<1>5. Append(d, r[j]) \in Seq(Word) /\ Len(Append(d, r[j])) = i
  BY <1>1, <1>4
<1>6. ASSUME NEW k \in 1..i PROVE SameWord(Append(d, r[j])[k], o[k])
  <2>1. CASE k = i
    BY <1>1, <1>4, <2>1 DEF SameWord
  <2>2. CASE k # i
    BY <1>1, <1>4, <2>2
  <2> QED
    BY <2>1, <2>2
<1>7. QED
  BY <1>2, <1>3, <1>5, <1>6 DEF Told, op

\* An added word is told to the readers of the additions.
LEMMA ToldAdd ==
  ASSUME NEW Word, NEW o \in Seq(Word), NEW r \in Seq(Word), NEW ops,
         NEW i \in Nat, NEW j \in 1..Len(r), Told(Word, ops, o, i, r, j - 1)
  PROVE  Told(Word, Append(ops, [type |-> "add", word |-> r[j]]), o, i, r, j)
<1> DEFINE op == [type |-> "add", word |-> r[j]]
<1>1. op \in Ops(Word) /\ op.type = "add" /\ op.word = r[j]
  BY DEF Ops, Kinds
<1> HIDE DEF op
<1>2. /\ Append(ops, op) \in Seq(Ops(Word))
      /\ Compact(Merged(Append(ops, op)))
      /\ ReadDiff(Merged(Append(ops, op)), "add") = Append(SubSeq(r, 1, j - 1), r[j])
      /\ ReadDiff(Merged(Append(ops, op)), "del") = ReadDiff(Merged(ops), "del")
  <2>1. ops \in Seq(Ops(Word)) /\ Compact(Merged(ops))
        /\ ReadDiff(Merged(ops), "add") = SubSeq(r, 1, j - 1)
    BY DEF Told
  <2>2. ReadDiff(Merged(Append(ops, op)), "add") = Append(ReadDiff(Merged(ops), "add"), op.word)
    BY <2>1, <1>1, ReadOperation
  <2>3. /\ Append(ops, op) \in Seq(Ops(Word))
        /\ Compact(Merged(Append(ops, op)))
        /\ ReadDiff(Merged(Append(ops, op)), "del") =
               IF op.type \in {"keep", "del"} THEN Append(ReadDiff(Merged(ops), "del"), op.word)
               ELSE ReadDiff(Merged(ops), "del")
    BY <2>1, <1>1, ReadOperation
  <2> QED
    BY <2>1, <2>2, <2>3, <1>1
<1>3. SubSeq(r, 1, j) = Append(SubSeq(r, 1, j - 1), r[j])
  BY SubSeqLonger
<1>4. QED
  BY <1>2, <1>3 DEF Told, op

\* A deleted word is told to the readers of the deletions.
LEMMA ToldDel ==
  ASSUME NEW Word, NEW o \in Seq(Word), NEW r \in Seq(Word), NEW ops,
         NEW i \in 1..Len(o), NEW j \in Nat, Told(Word, ops, o, i - 1, r, j)
  PROVE  Told(Word, Append(ops, [type |-> "del", word |-> o[i]]), o, i, r, j)
<1> DEFINE op == [type |-> "del", word |-> o[i]]
           d == ReadDiff(Merged(ops), "del")
<1>1. op \in Ops(Word) /\ op.type = "del" /\ op.word = o[i] /\ o[i] \in Word
  BY DEF Ops, Kinds
<1> HIDE DEF op
<1>2. /\ Append(ops, op) \in Seq(Ops(Word))
      /\ Compact(Merged(Append(ops, op)))
      /\ ReadDiff(Merged(Append(ops, op)), "add") = SubSeq(r, 1, j)
      /\ ReadDiff(Merged(Append(ops, op)), "del") = Append(d, o[i])
  BY <1>1, ReadOperation DEF Told
<1>4. d \in Seq(Word) /\ Len(d) = i - 1 /\ \A k \in 1..(i - 1) : SameWord(d[k], o[k])
  BY DEF Told
<1> HIDE DEF d
<1>5. Append(d, o[i]) \in Seq(Word) /\ Len(Append(d, o[i])) = i
  BY <1>1, <1>4
<1>6. ASSUME NEW k \in 1..i PROVE SameWord(Append(d, o[i])[k], o[k])
  <2>1. CASE k = i
    BY <1>1, <1>4, <2>1 DEF SameWord
  <2>2. CASE k # i
    BY <1>1, <1>4, <2>2
  <2> QED
    BY <2>1, <2>2
<1>7. QED
  BY <1>2, <1>5, <1>6 DEF Told, op

\* The operations at one cell of the table, from those at the cells before it.
Cells(o, r) == (0..Len(o)) \X (0..Len(r))
OpsAt(ops, dp, o, r, p) ==
    LET i == p[1]  j == p[2] IN
    CASE i = 0 /\ j = 0 -> <<>>
      [] i > 0 /\ j > 0 /\ SameWord(o[i], r[j]) ->
             Append(ops[<<i - 1, j - 1>>], [type |-> "keep", word |-> r[j]])
      [] /\ ~(i > 0 /\ j > 0 /\ SameWord(o[i], r[j]))
         /\ j > 0 /\ (i = 0 \/ dp[<<i, j - 1>>] >= dp[<<i - 1, j>>]) ->
             Append(ops[<<i, j - 1>>], [type |-> "add", word |-> r[j]])
      [] OTHER -> Append(ops[<<i - 1, j>>], [type |-> "del", word |-> o[i]])

\* A cell is the first one, or it comes after one of the three cells before it.
Begins(out, p) == p = <<0, 0>> /\ out = <<>>
Keeps(out, ops, o, r, p) ==
    /\ p[1] > 0 /\ p[2] > 0 /\ SameWord(o[p[1]], r[p[2]])
    /\ out = Append(ops[<<p[1] - 1, p[2] - 1>>], [type |-> "keep", word |-> r[p[2]]])
Adds(out, ops, r, p) ==
    /\ p[2] > 0
    /\ out = Append(ops[<<p[1], p[2] - 1>>], [type |-> "add", word |-> r[p[2]]])
Deletes(out, ops, o, p) ==
    /\ p[1] > 0
    /\ out = Append(ops[<<p[1] - 1, p[2]>>], [type |-> "del", word |-> o[p[1]]])

\* Whichever way the walk goes.
LEMMA OpsAtCell ==
  ASSUME NEW o, NEW r, Len(o) \in Nat, Len(r) \in Nat, NEW ops, NEW dp, NEW p \in Cells(o, r)
  PROVE  \/ Begins(OpsAt(ops, dp, o, r, p), p)
         \/ Keeps(OpsAt(ops, dp, o, r, p), ops, o, r, p)
         \/ Adds(OpsAt(ops, dp, o, r, p), ops, r, p)
         \/ Deletes(OpsAt(ops, dp, o, r, p), ops, o, p)
<1> DEFINE i == p[1]  j == p[2]
           kept == i > 0 /\ j > 0 /\ SameWord(o[i], r[j])
           left == dp[<<i, j - 1>>] >= dp[<<i - 1, j>>]
           added == ~kept /\ j > 0 /\ (i = 0 \/ left)
           out == OpsAt(ops, dp, o, r, p)
<1> SUFFICES Begins(out, p) \/ Keeps(out, ops, o, r, p) \/ Adds(out, ops, r, p) \/ Deletes(out, ops, o, p)
  OBVIOUS
<1>1. i \in Nat /\ j \in Nat /\ p = <<i, j>>
  BY DEF Cells
<1>2. CASE i = 0 /\ j = 0
  <2>1. out = <<>>
    BY <1>2 DEF OpsAt
  <2> QED
    BY <2>1, <1>1, <1>2 DEF Begins
<1>3. CASE kept
  <2>1. out = Append(ops[<<i - 1, j - 1>>], [type |-> "keep", word |-> r[j]])
    BY <1>1, <1>3 DEF OpsAt
  <2> HIDE DEF out
  <2> QED
    BY <2>1, <1>3 DEF Keeps
<1>4. CASE added
  <2>1. out = Append(ops[<<i, j - 1>>], [type |-> "add", word |-> r[j]])
    <3>1. CASE i = 0
      BY <1>1, <1>4, <3>1 DEF OpsAt
    <3>2. CASE i > 0 /\ left
      BY <1>1, <1>4, <3>2 DEF OpsAt
    <3>3. i = 0 \/ (i > 0 /\ left)
      <4> HIDE DEF left
      <4> QED
        BY <1>1, <1>4
    <3> QED
      BY <3>1, <3>2, <3>3
  <2> HIDE DEF out
  <2> QED
    BY <2>1, <1>4 DEF Adds
<1>5. CASE ~(i = 0 /\ j = 0) /\ ~kept /\ ~added
  <2>1. out = Append(ops[<<i - 1, j>>], [type |-> "del", word |-> o[i]])
    BY <1>1, <1>5 DEF OpsAt
  <2>2. i > 0
    BY <1>1, <1>5
  <2> HIDE DEF out
  <2> QED
    BY <2>1, <2>2 DEF Deletes
<1>6. QED
  BY <1>2, <1>3, <1>4, <1>5

\* What a cell gets depends on the cells before it only.
LEMMA OpsAtLocal ==
  ASSUME NEW o, NEW r, Len(o) \in Nat, Len(r) \in Nat, NEW f, NEW g, NEW dp, NEW p \in Cells(o, r),
         \A q \in Cells(o, r) : q[1] + q[2] < p[1] + p[2] => f[q] = g[q]
  PROVE  OpsAt(f, dp, o, r, p) = OpsAt(g, dp, o, r, p)
<1> DEFINE i == p[1]  j == p[2]
<1>1. i \in 0..Len(o) /\ j \in 0..Len(r) /\ i \in Nat /\ j \in Nat
  BY DEF Cells
<1>2. i > 0 /\ j > 0 => f[<<i - 1, j - 1>>] = g[<<i - 1, j - 1>>]
  <2>1. i > 0 /\ j > 0 => <<i - 1, j - 1>> \in Cells(o, r) /\ (i - 1) + (j - 1) < i + j
    BY <1>1 DEF Cells
  <2> QED
    BY <2>1
<1>3. j > 0 => f[<<i, j - 1>>] = g[<<i, j - 1>>]
  <2>1. j > 0 => <<i, j - 1>> \in Cells(o, r) /\ i + (j - 1) < i + j
    BY <1>1 DEF Cells
  <2> QED
    BY <2>1
<1>4. i > 0 => f[<<i - 1, j>>] = g[<<i - 1, j>>]
  <2>1. i > 0 => <<i - 1, j>> \in Cells(o, r) /\ (i - 1) + j < i + j
    BY <1>1 DEF Cells
  <2> QED
    BY <2>1
<1>5. QED
  BY <1>1, <1>2, <1>3, <1>4 DEF OpsAt

Walk(ops, dp, o, r) == ops = [p \in Cells(o, r) |-> OpsAt(ops, dp, o, r, p)]

\* The walk back through the table is defined: up to each distance from its start.
LEMMA WalkDefined ==
  ASSUME NEW o, NEW r, Len(o) \in Nat, Len(r) \in Nat, NEW dp
  PROVE  \E ops : Walk(ops, dp, o, r)
<1> DEFINE Near(s) == {p \in Cells(o, r) : p[1] + p[2] <= s}
           T == {s \in 0..(Len(o) + Len(r)) :
                    ~ \E f : f = [p \in Near(s) |-> OpsAt(f, dp, o, r, p)]}
<1>1. Near(Len(o) + Len(r)) = Cells(o, r)
  BY DEF Cells
<1>2. SUFFICES ASSUME T # {} PROVE FALSE
  <2>1. T = {} => Len(o) + Len(r) \notin T
    OBVIOUS
  <2>2. Len(o) + Len(r) \in 0..(Len(o) + Len(r))
    OBVIOUS
  <2> HIDE DEF Near
  <2>3. Len(o) + Len(r) \notin T =>
            \E f : f = [p \in Near(Len(o) + Len(r)) |-> OpsAt(f, dp, o, r, p)]
    BY <2>2
  <2> QED
    BY <1>1, <2>1, <2>3 DEF Walk
<1>3. PICK s \in T : \A y \in T : s <= y
  <2>1. T \subseteq Nat
    OBVIOUS
  <2> HIDE DEF T
  <2> QED
    BY <1>2, <2>1, LeastNumber
<1>4. s \in Nat /\ s <= Len(o) + Len(r)
  OBVIOUS
<1>5. PICK f : \A p \in Cells(o, r) : p[1] + p[2] < s => f[p] = OpsAt(f, dp, o, r, p)
  <2>1. CASE s = 0
    <3>1. \A p \in Cells(o, r) : ~(p[1] + p[2] < 0)
      BY DEF Cells
    <3> HIDE DEF Near, T
    <3> QED
      BY <2>1, <3>1
  <2>2. CASE s # 0
    <3>1. s - 1 \in 0..(Len(o) + Len(r)) /\ s - 1 \notin T
      <4>1. s - 1 \in 0..(Len(o) + Len(r)) /\ s - 1 < s
        BY <1>4, <2>2
      <4> HIDE DEF T
      <4> QED
        BY <1>3, <1>4, <4>1
    <3>2. PICK f : f = [p \in Near(s - 1) |-> OpsAt(f, dp, o, r, p)]
      <4> HIDE DEF Near
      <4> QED
        BY <3>1
    <3>3. ASSUME NEW p \in Cells(o, r), p[1] + p[2] < s PROVE f[p] = OpsAt(f, dp, o, r, p)
      <4>1. p \in Near(s - 1)
        BY <3>3, <1>4 DEF Cells
      <4> HIDE DEF Near
      <4> QED
        BY <3>2, <4>1
    <3> QED
      BY <3>3
  <2> QED
    BY <2>1, <2>2
<1> DEFINE g == [p \in Near(s) |-> OpsAt(f, dp, o, r, p)]
<1>6. ASSUME NEW p \in Near(s) PROVE OpsAt(f, dp, o, r, p) = OpsAt(g, dp, o, r, p)
  <2>1. ASSUME NEW q \in Cells(o, r), q[1] + q[2] < p[1] + p[2] PROVE f[q] = g[q]
    <3>1. q[1] + q[2] < s /\ q \in Near(s)
      BY <2>1, <1>4 DEF Cells
    <3> HIDE DEF Near
    <3> QED
      BY <3>1, <1>5
  <2>2. p \in Cells(o, r)
    OBVIOUS
  <2> HIDE DEF g, Near
  <2> QED
    BY <2>1, <2>2, OpsAtLocal
<1>7. g = [p \in Near(s) |-> OpsAt(g, dp, o, r, p)]
  <2>1. \A p \in Near(s) : OpsAt(f, dp, o, r, p) = OpsAt(g, dp, o, r, p)
    BY <1>6
  <2>2. g = [p \in Near(s) |-> OpsAt(f, dp, o, r, p)]
    OBVIOUS
  <2> HIDE DEF g, Near
  <2> QED
    BY <2>1, <2>2
<1>8. QED
  <2> HIDE DEF g, Near
  <2> QED
    BY <1>7

\* DiffOps walks from one end of the table to the other.
LEMMA WalkFollows ==
  ASSUME NEW Word, NEW o \in Seq(Word), NEW r \in Seq(Word)
  PROVE  \E ops : /\ \A p \in Cells(o, r) : ops[p] = OpsAt(ops, Common(o, r), o, r, p)
                 /\ DiffOps(o, r) = ops[<<Len(o), Len(r)>>]
<1> DEFINE dp == Common(o, r)
           Step(f) == [p \in Cells(o, r) |-> OpsAt(f, dp, o, r, p)]
           ops == CHOOSE f : f = Step(f)
<1>0. Len(o) \in Nat /\ Len(r) \in Nat
  OBVIOUS
<1>1. ops = Step(ops)
  <2> HIDE DEF dp
  <2>1. PICK f : Walk(f, dp, o, r)
    BY <1>0, WalkDefined
  <2>2. f = Step(f)
    BY <2>1 DEF Walk
  <2> HIDE DEF Step
  <2> QED
    BY <2>2
<1>2. DiffOps(o, r) = ops[<<Len(o), Len(r)>>]
  BY Zenon DEF DiffOps, OpsAt, Cells
<1> HIDE DEF ops, dp
<1>3. \A p \in Cells(o, r) : ops[p] = OpsAt(ops, dp, o, r, p)
  BY <1>1
<1>4. QED
  BY <1>2, <1>3 DEF dp

\* And it tells the words of both texts.
LEMMA WalkTells ==
  ASSUME NEW Word, NEW o \in Seq(Word), NEW r \in Seq(Word)
  PROVE  Told(Word, DiffOps(o, r), o, Len(o), r, Len(r))
<1>0. Len(o) \in Nat /\ Len(r) \in Nat
  OBVIOUS
<1>1. PICK ops : /\ \A p \in Cells(o, r) : ops[p] = OpsAt(ops, Common(o, r), o, r, p)
                 /\ DiffOps(o, r) = ops[<<Len(o), Len(r)>>]
  BY WalkFollows
<1> DEFINE dp == Common(o, r)
<1>3. \A p \in Cells(o, r) : ops[p] = OpsAt(ops, dp, o, r, p)
  BY <1>1
<1> HIDE DEF dp
<1>4. \A p \in Cells(o, r) : Told(Word, ops[p], o, p[1], r, p[2])
  <2> DEFINE T == {p[1] + p[2] : p \in {p \in Cells(o, r) : ~Told(Word, ops[p], o, p[1], r, p[2])}}
  <2>1. SUFFICES ASSUME T # {} PROVE FALSE
    OBVIOUS
  <2>2. PICK s \in T : \A y \in T : s <= y
    <3>1. T \subseteq Nat
      BY DEF Cells
    <3> HIDE DEF T
    <3> QED
      BY <2>1, <3>1, LeastNumber
  <2>3. PICK p \in Cells(o, r) : s = p[1] + p[2] /\ ~Told(Word, ops[p], o, p[1], r, p[2])
    OBVIOUS
  <2> DEFINE i == p[1]  j == p[2]
  <2>4. i \in 0..Len(o) /\ j \in 0..Len(r) /\ p = <<i, j>>
    BY DEF Cells
  <2>5. ASSUME NEW q \in Cells(o, r), q[1] + q[2] < i + j PROVE Told(Word, ops[q], o, q[1], r, q[2])
    <3>1. q[1] + q[2] \in Nat
      BY DEF Cells
    <3>2. ~Told(Word, ops[q], o, q[1], r, q[2]) => q[1] + q[2] \in T
      OBVIOUS
    <3>3. s = i + j /\ i + j \in Nat
      BY <2>3, <2>4, <1>0
    <3> HIDE DEF T, i, j
    <3> QED
      BY <2>2, <2>5, <3>1, <3>2, <3>3
  <2>6. Begins(ops[p], p) \/ Keeps(ops[p], ops, o, r, p)
          \/ Adds(ops[p], ops, r, p) \/ Deletes(ops[p], ops, o, p)
    <3>1. ops[p] = OpsAt(ops, dp, o, r, p)
      BY <1>3
    <3> QED
      BY <3>1, <1>0, OpsAtCell
  <2>7. CASE Begins(ops[p], p)
    BY <2>3, <2>7, ToldNothing DEF Begins
  <2>8. CASE Keeps(ops[p], ops, o, r, p)
    <3> DEFINE q == <<i - 1, j - 1>>
    <3>1. i > 0 /\ j > 0 /\ SameWord(o[i], r[j])
      BY <2>8 DEF Keeps
    <3>2. i \in 1..Len(o) /\ j \in 1..Len(r)
      BY <2>4, <3>1, <1>0
    <3>3. q \in Cells(o, r) /\ q[1] + q[2] < i + j /\ q[1] = i - 1 /\ q[2] = j - 1
      BY <3>2, <1>0 DEF Cells
    <3>4. Told(Word, ops[q], o, i - 1, r, j - 1)
      BY <2>5, <3>3
    <3>5. ops[p] = Append(ops[q], [type |-> "keep", word |-> r[j]])
      BY <2>8 DEF Keeps
    <3>6. ~Told(Word, ops[p], o, i, r, j)
      BY <2>3
    <3> HIDE DEF i, j, q
    <3> QED
      BY <3>1, <3>2, <3>4, <3>5, <3>6, ToldKeep
  <2>9. CASE Adds(ops[p], ops, r, p)
    <3> DEFINE q == <<i, j - 1>>
    <3>1. j > 0
      BY <2>9 DEF Adds
    <3>2. i \in 0..Len(o) /\ i \in Nat /\ j \in 1..Len(r)
      BY <2>4, <3>1, <1>0
    <3>3. q \in Cells(o, r) /\ q[1] + q[2] < i + j /\ q[1] = i /\ q[2] = j - 1
      BY <3>2, <1>0 DEF Cells
    <3>4. Told(Word, ops[q], o, i, r, j - 1)
      BY <2>5, <3>3
    <3>5. ops[p] = Append(ops[q], [type |-> "add", word |-> r[j]])
      BY <2>9 DEF Adds
    <3>6. ~Told(Word, ops[p], o, i, r, j)
      BY <2>3
    <3> HIDE DEF i, j, q
    <3> QED
      BY <3>2, <3>4, <3>5, <3>6, ToldAdd
  <2>10. CASE Deletes(ops[p], ops, o, p)
    <3> DEFINE q == <<i - 1, j>>
    <3>1. i > 0
      BY <2>10 DEF Deletes
    <3>2. i \in 1..Len(o) /\ j \in 0..Len(r) /\ j \in Nat
      BY <2>4, <3>1, <1>0
    <3>3. q \in Cells(o, r) /\ q[1] + q[2] < i + j /\ q[1] = i - 1 /\ q[2] = j
      BY <3>2, <1>0 DEF Cells
    <3>4. Told(Word, ops[q], o, i - 1, r, j)
      BY <2>5, <3>3
    <3>5. ops[p] = Append(ops[q], [type |-> "del", word |-> o[i]])
      BY <2>10 DEF Deletes
    <3>6. ~Told(Word, ops[p], o, i, r, j)
      BY <2>3
    <3> HIDE DEF i, j, q
    <3> QED
      BY <3>2, <3>4, <3>5, <3>6, ToldDel
  <2> QED
    BY <2>6, <2>7, <2>8, <2>9, <2>10
<1>5. <<Len(o), Len(r)>> \in Cells(o, r)
  BY <1>0 DEF Cells
<1>6. QED
  BY <1>1, <1>4, <1>5

Anew(o, r) == <<[type |-> "del", words |-> o], [type |-> "add", words |-> r]>>

\* Too many words are not compared: one chunk takes them all away, one puts the others in.
LEMMA AllAnew ==
  ASSUME NEW Word, NEW o \in Seq(Word), NEW r \in Seq(Word)
  PROVE  /\ Anew(o, r) \in Seq(Chunks(Word)) /\ Compact(Anew(o, r))
         /\ ReadDiff(Anew(o, r), "add") = r /\ ReadDiff(Anew(o, r), "del") = o
<1> DEFINE x == [type |-> "del", words |-> o]
           y == [type |-> "add", words |-> r]
<1>1. x \in Chunks(Word) /\ y \in Chunks(Word)
  BY DEF Chunks, Kinds
<1>2. /\ <<>> \in Seq(Chunks(Word)) /\ Append(<<>>, x) = <<x>> /\ <<x>> \in Seq(Chunks(Word))
      /\ Append(<<x>>, y) = <<x, y>>
  <2>1. ASSUME NEW C, NEW a \in C, NEW b \in C
        PROVE  <<>> \in Seq(C) /\ <<a>> \in Seq(C) /\ <<a, b>> \in Seq(C)
    OBVIOUS
  <2>2. ASSUME NEW C, NEW a \in C, NEW b \in C PROVE Append(<<>>, a) = <<a>>
    <3>1. /\ Append(<<>>, a) \in Seq(C) /\ Len(Append(<<>>, a)) = 1 /\ Append(<<>>, a)[1] = a
          /\ Len(<<a>>) = 1 /\ <<a>>[1] = a
      BY <2>1
    <3> QED
      BY <2>1, <3>1, SeqEqual
  <2>3. ASSUME NEW C, NEW a \in C, NEW b \in C PROVE Append(<<a>>, b) = <<a, b>>
    <3>1. /\ Append(<<a>>, b) \in Seq(C) /\ Len(Append(<<a>>, b)) = 2
          /\ Append(<<a>>, b)[1] = a /\ Append(<<a>>, b)[2] = b
          /\ Len(<<a, b>>) = 2 /\ <<a, b>>[1] = a /\ <<a, b>>[2] = b
      BY <2>1
    <3>2. <<a, b>> \in Seq(C)
      BY <2>1
    <3>3. \A k \in 1..2 : Append(<<a>>, b)[k] = <<a, b>>[k]
      BY <3>1
    <3> QED
      BY <3>1, <3>2, <3>3, SeqEqual
  <2> HIDE DEF x, y
  <2> QED
    BY <1>1, <2>1, <2>2, <2>3
<1>3. ASSUME NEW t PROVE ReadDiff(<<x, y>>, t) = ReadOn(ReadOn(<<>>, x, t), y, t)
  <2> HIDE DEF x, y
  <2>1. ReadDiff(<<x>>, t) = ReadOn(ReadDiff(<<>>, t), x, t)
    BY <1>1, <1>2, ReadAppend
  <2>2. ReadDiff(<<x, y>>, t) = ReadOn(ReadDiff(<<x>>, t), y, t)
    BY <1>1, <1>2, ReadAppend
  <2> QED
    BY <2>1, <2>2, ReadEmpty
<1>4. <<>> \o r = r /\ <<>> \o o = o
  BY ConcatEmptySeq
<1>5. ReadDiff(<<x, y>>, "add") = r /\ ReadDiff(<<x, y>>, "del") = o
  BY <1>3, <1>4 DEF ReadOn
<1>6. Compact(<<x, y>>)
  BY DEF Compact
<1>7. <<x, y>> \in Seq(Chunks(Word))
  <2> HIDE DEF x, y
  <2> QED
    BY <1>1
<1>8. QED
  BY <1>5, <1>6, <1>7 DEF Anew

\* What the chunks d must tell: that o was replaced by r.  A kept word may differ from
\* the original's in its letters' form.
SameWords(v, w) == Len(v) = Len(w) /\ \A k \in 1..Len(w) : SameWord(v[k], w[k])
TellsBoth(Word, d, o, r) ==
    /\ d \in Seq(Chunks(Word)) /\ Compact(d)
    /\ ReadDiff(d, "add") = r
    /\ SameWords(ReadDiff(d, "del"), o)

\* Whatever the texts, a reader of the additions reads the replacement word for word, a
\* reader of the deletions reads the original but for the letters' form, and no two
\* chunks of one type follow each other (computeWordDiff, renderInlineDiff).
THEOREM DiffTellsBoth ==
  ASSUME NEW Word, NEW o \in Seq(Word), NEW r \in Seq(Word), NEW most \in Nat
  PROVE  TellsBoth(Word, ComputeWordDiff(o, r, most), o, r)
<1>1. CASE Len(o) > most \/ Len(r) > most
  <2>1. ComputeWordDiff(o, r, most) = Anew(o, r)
    BY <1>1 DEF ComputeWordDiff, Anew
  <2>2. SameWords(o, o)
    BY DEF SameWords, SameWord
  <2> QED
    BY <2>1, <2>2, AllAnew DEF TellsBoth
<1>2. CASE ~(Len(o) > most \/ Len(r) > most)
  <2>1. ComputeWordDiff(o, r, most) = Merged(DiffOps(o, r))
    BY <1>2 DEF ComputeWordDiff
  <2>2. Told(Word, DiffOps(o, r), o, Len(o), r, Len(r))
    BY WalkTells
  <2>3. SubSeq(r, 1, Len(r)) = r
    BY SubSeqFull
  <2>4. Merged(DiffOps(o, r)) \in Seq(Chunks(Word))
    BY <2>2, MergedTyped DEF Told
  <2> QED
    BY <2>1, <2>2, <2>3, <2>4 DEF Told, SameWords, TellsBoth
<1>3. QED
  BY <1>1, <1>2

(***************************************************************************)
(* The word diff keeps as many words as any comparison in order could.     *)
(***************************************************************************)
\* The table at one cell, from the cells before it.
CountAt(dp, o, r, p) ==
    IF p[1] = 0 \/ p[2] = 0 THEN 0
    ELSE IF SameWord(o[p[1]], r[p[2]]) THEN dp[<<p[1] - 1, p[2] - 1>>] + 1
    ELSE LET up == dp[<<p[1] - 1, p[2]>>]
             left == dp[<<p[1], p[2] - 1>>]
         IN IF up > left THEN up ELSE left

\* The three cells before a cell are in the table, and nearer to its start.
LEMMA CellsBefore ==
  ASSUME NEW o, NEW r, Len(o) \in Nat, Len(r) \in Nat, NEW p \in Cells(o, r), p[1] > 0, p[2] > 0
  PROVE  /\ p[1] \in 1..Len(o) /\ p[2] \in 1..Len(r) /\ p = <<p[1], p[2]>>
         /\ \A q \in {<<p[1] - 1, p[2] - 1>>, <<p[1] - 1, p[2]>>, <<p[1], p[2] - 1>>} :
                q \in Cells(o, r) /\ q[1] + q[2] < p[1] + p[2]
<1>1. p[1] \in 1..Len(o) /\ p[2] \in 1..Len(r) /\ p = <<p[1], p[2]>>
  BY DEF Cells
<1> DEFINE i == p[1]  j == p[2]
<1> HIDE DEF i, j
<1>2. ASSUME i \in 1..Len(o), j \in 1..Len(r)
      PROVE  \A q \in {<<i - 1, j - 1>>, <<i - 1, j>>, <<i, j - 1>>} :
                 q \in Cells(o, r) /\ q[1] + q[2] < i + j
  BY <1>2 DEF Cells
<1>3. QED
  BY <1>1, <1>2 DEF i, j

\* What a cell counts depends on the cells before it only.
LEMMA CountAtLocal ==
  ASSUME NEW o, NEW r, Len(o) \in Nat, Len(r) \in Nat, NEW f, NEW g, NEW p \in Cells(o, r),
         \A q \in Cells(o, r) : q[1] + q[2] < p[1] + p[2] => f[q] = g[q]
  PROVE  CountAt(f, o, r, p) = CountAt(g, o, r, p)
<1>1. CASE p[1] = 0 \/ p[2] = 0
  BY <1>1 DEF CountAt
<1>2. CASE ~(p[1] = 0 \/ p[2] = 0)
  <2>1. p[1] > 0 /\ p[2] > 0
    BY <1>2 DEF Cells
  <2>2. \A q \in {<<p[1] - 1, p[2] - 1>>, <<p[1] - 1, p[2]>>, <<p[1], p[2] - 1>>} : f[q] = g[q]
    BY <2>1, CellsBefore
  <2> QED
    BY <1>2, <2>2 DEF CountAt
<1>3. QED
  BY <1>1, <1>2

\* The table is defined, and counts.
LEMMA TableDefined ==
  ASSUME NEW o, NEW r, Len(o) \in Nat, Len(r) \in Nat
  PROVE  \A p \in Cells(o, r) : Common(o, r)[p] \in Nat /\ Common(o, r)[p] = CountAt(Common(o, r), o, r, p)
<1> DEFINE Near(s) == {p \in Cells(o, r) : p[1] + p[2] <= s}
           Table(f, s) == f = [p \in Near(s) |-> CountAt(f, o, r, p)]
           T == {s \in 0..(Len(o) + Len(r)) : ~ \E f : Table(f, s)}
<1>1. T = {}
  <2> SUFFICES ASSUME T # {} PROVE FALSE
    OBVIOUS
  <2>3. PICK s \in T : \A y \in T : s <= y
    <3>1. T \subseteq Nat
      OBVIOUS
    <3> HIDE DEF T
    <3> QED
      BY <3>1, LeastNumber
  <2>4. s \in Nat /\ s <= Len(o) + Len(r)
    OBVIOUS
  <2>5. PICK f : \A p \in Cells(o, r) : p[1] + p[2] < s => f[p] = CountAt(f, o, r, p)
    <3>1. CASE s = 0
      <4>1. \A p \in Cells(o, r) : ~(p[1] + p[2] < 0)
        BY DEF Cells
      <4> HIDE DEF Table, T
      <4> QED
        BY <3>1, <4>1
    <3>2. CASE s # 0
      <4>1. s - 1 \in 0..(Len(o) + Len(r)) /\ s - 1 \notin T
        <5>1. s - 1 \in 0..(Len(o) + Len(r)) /\ s - 1 < s
          BY <2>4, <3>2
        <5> HIDE DEF T
        <5> QED
          BY <2>3, <2>4, <5>1
      <4>2. PICK f : Table(f, s - 1)
        <5> HIDE DEF Table
        <5> QED
          BY <4>1
      <4>3. ASSUME NEW p \in Cells(o, r), p[1] + p[2] < s PROVE f[p] = CountAt(f, o, r, p)
        <5>1. p \in Near(s - 1)
          BY <4>3, <2>4 DEF Cells
        <5> HIDE DEF Near
        <5> QED
          BY <4>2, <5>1
      <4> QED
        BY <4>3
    <3> QED
      BY <3>1, <3>2
  <2> DEFINE g == [p \in Near(s) |-> CountAt(f, o, r, p)]
  <2>6. ASSUME NEW p \in Near(s) PROVE CountAt(f, o, r, p) = CountAt(g, o, r, p)
    <3>1. ASSUME NEW q \in Cells(o, r), q[1] + q[2] < p[1] + p[2] PROVE f[q] = g[q]
      <4>1. q[1] + q[2] < s /\ q \in Near(s)
        BY <3>1, <2>4 DEF Cells
      <4> HIDE DEF Near
      <4> QED
        BY <4>1, <2>5
    <3>2. p \in Cells(o, r)
      OBVIOUS
    <3> HIDE DEF g, Near
    <3> QED
      BY <3>1, <3>2, CountAtLocal
  <2>7. Table(g, s)
    <3>1. \A p \in Near(s) : CountAt(f, o, r, p) = CountAt(g, o, r, p)
      BY <2>6
    <3>2. g = [p \in Near(s) |-> CountAt(f, o, r, p)]
      OBVIOUS
    <3> HIDE DEF g, Near
    <3> QED
      BY <3>1, <3>2
  <2> QED
    <3> HIDE DEF g, Table
    <3> QED
      BY <2>7
<1> DEFINE Step(f) == [p \in Cells(o, r) |-> CountAt(f, o, r, p)]
           dp == CHOOSE f : f = Step(f)
<1>2. \E f : f = Step(f)
  <2>1. Near(Len(o) + Len(r)) = Cells(o, r)
    BY DEF Cells
  <2>2. Len(o) + Len(r) \in 0..(Len(o) + Len(r))
    OBVIOUS
  <2>3. PICK f : Table(f, Len(o) + Len(r))
    <3> HIDE DEF Table
    <3> QED
      BY <1>1, <2>2
  <2> HIDE DEF Near
  <2> QED
    BY <2>1, <2>3
<1>3. dp = Step(dp)
  <2> HIDE DEF Step
  <2> QED
    BY <1>2
<1>4. Common(o, r) = dp
  BY Zenon DEF Common, CountAt, Cells
<1> HIDE DEF dp
<1>5. \A p \in Cells(o, r) : dp[p] = CountAt(dp, o, r, p)
  BY <1>3
<1>6. \A p \in Cells(o, r) : dp[p] \in Nat
  <2> DEFINE B == {p \in Cells(o, r) : dp[p] \notin Nat}
             U == {p[1] + p[2] : p \in B}
  <2> SUFFICES ASSUME B # {} PROVE FALSE
    OBVIOUS
  <2>2. PICK s \in U : \A y \in U : s <= y
    <3>1. U \subseteq Nat /\ U # {}
      BY DEF Cells
    <3> HIDE DEF U
    <3> QED
      BY <3>1, LeastNumber
  <2>3. PICK p \in B : s = p[1] + p[2]
    OBVIOUS
  <2>4. ASSUME NEW q \in Cells(o, r), q[1] + q[2] < p[1] + p[2] PROVE dp[q] \in Nat
    <3>1. q \in B => q[1] + q[2] \in U
      OBVIOUS
    <3>2. q[1] + q[2] \in Nat /\ p[1] + p[2] \in Nat
      BY DEF Cells
    <3> HIDE DEF U
    <3>3. q \notin B
      BY <2>2, <2>3, <2>4, <3>1, <3>2
    <3> QED
      BY <3>3
  <2>5. CountAt(dp, o, r, p) \in Nat
    <3>1. CASE p[1] = 0 \/ p[2] = 0
      BY <3>1 DEF CountAt
    <3>2. CASE ~(p[1] = 0 \/ p[2] = 0)
      <4>1. p[1] > 0 /\ p[2] > 0
        BY <3>2 DEF Cells
      <4>2. \A q \in {<<p[1] - 1, p[2] - 1>>, <<p[1] - 1, p[2]>>, <<p[1], p[2] - 1>>} : dp[q] \in Nat
        BY <4>1, <2>4, CellsBefore
      <4> QED
        BY <3>2, <4>2 DEF CountAt
    <3> QED
      BY <3>1, <3>2
  <2> QED
    BY <2>5, <1>5
<1>7. QED
  BY <1>4, <1>5, <1>6

\* n words of the first i of o and of the first j of r, in pairs, both in order.
Pairing(o, r, i, j, n, a, b) ==
    /\ \A k \in 1..n : a[k] \in 1..i /\ b[k] \in 1..j /\ SameWord(o[a[k]], r[b[k]])
    /\ \A k, l \in 1..n : k < l => a[k] < a[l] /\ b[k] < b[l]

\* The table counts at least the pairs of any pairing: without its last pair it is one
\* of an earlier cell.
LEMMA TableIsMost ==
  ASSUME NEW o, NEW r, Len(o) \in Nat, Len(r) \in Nat
  PROVE  \A p \in Cells(o, r) : \A n \in Nat : \A a, b :
             Pairing(o, r, p[1], p[2], n, a, b) => n <= Common(o, r)[p]
<1> DEFINE dp == Common(o, r)
           Bounded(p) == \A n \in Nat : \A a, b : Pairing(o, r, p[1], p[2], n, a, b) => n <= dp[p]
           B == {p \in Cells(o, r) : ~Bounded(p)}
           U == {p[1] + p[2] : p \in B}
<1> SUFFICES ASSUME B # {} PROVE FALSE
  OBVIOUS
<1>1. \A p \in Cells(o, r) : dp[p] \in Nat /\ dp[p] = CountAt(dp, o, r, p)
  BY TableDefined
<1> HIDE DEF dp
<1>2. PICK s \in U : \A y \in U : s <= y
  <2>1. U \subseteq Nat /\ U # {}
    <3> HIDE DEF Bounded
    <3> QED
      BY DEF Cells
  <2> HIDE DEF U
  <2> QED
    BY <2>1, LeastNumber
<1>3. PICK p \in B : s = p[1] + p[2]
  <2> HIDE DEF B
  <2> QED
    OBVIOUS
<1>4. ASSUME NEW q \in Cells(o, r), q[1] + q[2] < p[1] + p[2] PROVE Bounded(q)
  <2>1. q \in B => q[1] + q[2] \in U
    <3> HIDE DEF B
    <3> QED
      OBVIOUS
  <2>2. q[1] + q[2] \in Nat /\ p[1] + p[2] \in Nat
    <3>1. p \in Cells(o, r)
      OBVIOUS
    <3> QED
      BY <3>1 DEF Cells
  <2>3. q \notin B
    <3> HIDE DEF U, B
    <3> QED
      BY <1>2, <1>3, <1>4, <2>1, <2>2
  <2> HIDE DEF Bounded
  <2> QED
    BY <2>3
<1>n. PICK n \in Nat : \E a, b : Pairing(o, r, p[1], p[2], n, a, b) /\ ~(n <= dp[p])
  OBVIOUS
<1>5. PICK a, b : Pairing(o, r, p[1], p[2], n, a, b) /\ ~(n <= dp[p])
  BY <1>n
<1>6. p \in Cells(o, r) /\ p[1] \in Nat /\ p[2] \in Nat
  BY DEF Cells
<1> HIDE DEF B, U
<1>7. n # 0
  BY <1>1, <1>5, <1>6
<1> DEFINE i == p[1]  j == p[2]
<1>8. /\ n \in 1..n /\ n - 1 \in Nat
      /\ a[n] \in 1..i /\ b[n] \in 1..j /\ SameWord(o[a[n]], r[b[n]])
  BY <1>5, <1>7 DEF Pairing
<1> HIDE DEF Bounded
<1>9. dp[p] = CountAt(dp, o, r, p)
  BY <1>1, <1>6
<1>10. i > 0 /\ j > 0
  BY <1>6, <1>8
<1>11. /\ i \in 1..Len(o) /\ j \in 1..Len(r) /\ p = <<i, j>>
       /\ Bounded(<<i - 1, j - 1>>) /\ Bounded(<<i - 1, j>>) /\ Bounded(<<i, j - 1>>)
       /\ dp[<<i - 1, j - 1>>] \in Nat /\ dp[<<i - 1, j>>] \in Nat /\ dp[<<i, j - 1>>] \in Nat
  <2>1. /\ i \in 1..Len(o) /\ j \in 1..Len(r) /\ p = <<i, j>>
        /\ \A q \in {<<i - 1, j - 1>>, <<i - 1, j>>, <<i, j - 1>>} :
               q \in Cells(o, r) /\ q[1] + q[2] < i + j
    BY <1>6, <1>10, CellsBefore
  <2> HIDE DEF Bounded, i, j
  <2> QED
    BY <2>1, <1>1, <1>4 DEF i, j
<1>12. CASE SameWord(o[i], r[j])
  <2>1. Pairing(o, r, i - 1, j - 1, n - 1, a, b)
    <3>1. ASSUME NEW k \in 1..(n - 1)
          PROVE  a[k] \in 1..(i - 1) /\ b[k] \in 1..(j - 1) /\ SameWord(o[a[k]], r[b[k]])
      <4>1. k \in 1..n /\ k < n
        OBVIOUS
      <4>2. a[k] \in 1..i /\ b[k] \in 1..j /\ SameWord(o[a[k]], r[b[k]]) /\ a[k] < a[n] /\ b[k] < b[n]
        BY <1>5, <1>8, <4>1 DEF Pairing
      <4>3. i \in Nat /\ j \in Nat /\ a[n] \in 1..i /\ b[n] \in 1..j
        BY <1>6, <1>8
      <4> HIDE DEF i, j
      <4> QED
        BY <4>2, <4>3
    <3>2. ASSUME NEW k \in 1..(n - 1), NEW l \in 1..(n - 1), k < l PROVE a[k] < a[l] /\ b[k] < b[l]
      <4>1. k \in 1..n /\ l \in 1..n
        OBVIOUS
      <4> QED
        BY <1>5, <3>2, <4>1 DEF Pairing
    <3> QED
      BY <3>1, <3>2 DEF Pairing
  <2>2. n - 1 <= dp[<<i - 1, j - 1>>]
    BY <2>1, <1>8, <1>11 DEF Bounded
  <2>3. dp[p] = dp[<<i - 1, j - 1>>] + 1
    BY <1>9, <1>10, <1>12 DEF CountAt
  <2> QED
    BY <2>2, <2>3, <1>5, <1>11
<1>13. CASE ~SameWord(o[i], r[j])
  <2>1. dp[<<i - 1, j>>] <= dp[p] /\ dp[<<i, j - 1>>] <= dp[p]
    <3>1. dp[p] = IF dp[<<i - 1, j>>] > dp[<<i, j - 1>>] THEN dp[<<i - 1, j>>] ELSE dp[<<i, j - 1>>]
      BY <1>9, <1>10, <1>13 DEF CountAt
    <3> QED
      BY <3>1, <1>11
  <2>2. \A k \in 1..n : a[k] <= a[n] /\ b[k] <= b[n]
    <3>1. ASSUME NEW k \in 1..n PROVE a[k] <= a[n] /\ b[k] <= b[n]
      <4>1. a[k] \in Nat /\ b[k] \in Nat /\ a[n] \in Nat /\ b[n] \in Nat
        BY <1>5, <1>8 DEF Pairing
      <4>2. k < n => a[k] < a[n] /\ b[k] < b[n]
        BY <1>5, <1>8 DEF Pairing
      <4> QED
        BY <4>1, <4>2
    <3> QED
      BY <3>1
  <2>3. CASE a[n] # i
    <3>1. \A k \in 1..n : a[k] \in 1..(i - 1)
      <4>1. \A k \in 1..n : a[k] \in 1..i
        BY <1>5 DEF Pairing
      <4> QED
        BY <4>1, <2>2, <2>3, <1>6, <1>8
    <3>2. Pairing(o, r, i - 1, j, n, a, b)
      BY <3>1, <1>5 DEF Pairing
    <3>3. n <= dp[<<i - 1, j>>]
      BY <3>2, <1>11 DEF Bounded
    <3> QED
      BY <3>3, <2>1, <1>1, <1>5, <1>6, <1>11
  <2>4. CASE b[n] # j
    <3>1. \A k \in 1..n : b[k] \in 1..(j - 1)
      <4>1. \A k \in 1..n : b[k] \in 1..j
        BY <1>5 DEF Pairing
      <4> QED
        BY <4>1, <2>2, <2>4, <1>6, <1>8
    <3>2. Pairing(o, r, i, j - 1, n, a, b)
      BY <3>1, <1>5 DEF Pairing
    <3>3. n <= dp[<<i, j - 1>>]
      BY <3>2, <1>11 DEF Bounded
    <3> QED
      BY <3>3, <2>1, <1>1, <1>5, <1>6, <1>11
  <2>5. a[n] # i \/ b[n] # j
    BY <1>8, <1>13
  <2> QED
    BY <2>3, <2>4, <2>5
<1>14. QED
  BY <1>12, <1>13

\* The kept words are as many as the table counts.
Kept(Word, ops, n) == ops \in Seq(Ops(Word)) /\ Len(ReadDiff(Merged(ops), "keep")) = n

LEMMA KeptOperation ==
  ASSUME NEW Word, NEW ops, NEW op \in Ops(Word), NEW n \in Nat, Kept(Word, ops, n)
  PROVE  Kept(Word, Append(ops, op), IF op.type = "keep" THEN n + 1 ELSE n)
<1>1. /\ ops \in Seq(Ops(Word)) /\ Len(ReadDiff(Merged(ops), "keep")) = n
      /\ ReadDiff(Merged(ops), "keep") \in Seq(Word)
  <2>1. ops \in Seq(Ops(Word))
    BY DEF Kept
  <2>2. Merged(ops) \in Seq(Chunks(Word))
    BY <2>1, MergedTyped
  <2>3. PICK f \in Readings(Word, Merged(ops), "keep") : TRUE
    BY <2>2, ReadStepByStep
  <2>4. Len(Merged(ops)) \in 0..Len(Merged(ops))
    BY <2>2
  <2> QED
    BY <2>1, <2>3, <2>4 DEF Kept, Readings
<1>2. /\ Append(ops, op) \in Seq(Ops(Word))
      /\ ReadDiff(Merged(Append(ops, op)), "keep") =
             IF op.type = "keep" THEN Append(ReadDiff(Merged(ops), "keep"), op.word)
             ELSE ReadDiff(Merged(ops), "keep")
  BY <1>1, ReadOperation
<1>3. op.word \in Word
  BY DEF Ops
<1>4. QED
  BY <1>1, <1>2, <1>3 DEF Kept

LEMMA WalkKeeps ==
  ASSUME NEW Word, NEW o \in Seq(Word), NEW r \in Seq(Word)
  PROVE  Kept(Word, DiffOps(o, r), Common(o, r)[<<Len(o), Len(r)>>])
<1> DEFINE dp == Common(o, r)
<1>0. Len(o) \in Nat /\ Len(r) \in Nat
  OBVIOUS
<1>1. PICK ops : /\ \A p \in Cells(o, r) : ops[p] = OpsAt(ops, dp, o, r, p)
                 /\ DiffOps(o, r) = ops[<<Len(o), Len(r)>>]
  BY WalkFollows
<1>2. \A p \in Cells(o, r) : dp[p] \in Nat /\ dp[p] = CountAt(dp, o, r, p)
  BY <1>0, TableDefined
<1> HIDE DEF dp
<1>3. \A p \in Cells(o, r) : Kept(Word, ops[p], dp[p])
  <2> DEFINE B == {p \in Cells(o, r) : ~Kept(Word, ops[p], dp[p])}
             U == {p[1] + p[2] : p \in B}
  <2> SUFFICES ASSUME B # {} PROVE FALSE
    OBVIOUS
  <2>1. PICK s \in U : \A y \in U : s <= y
    <3>1. U \subseteq Nat /\ U # {}
      BY DEF Cells
    <3> HIDE DEF U
    <3> QED
      BY <3>1, LeastNumber
  <2>2. PICK p \in B : s = p[1] + p[2]
    <3> HIDE DEF B
    <3> QED
      OBVIOUS
  <2>3. p \in Cells(o, r) /\ ~Kept(Word, ops[p], dp[p])
    OBVIOUS
  <2>4. ASSUME NEW q \in Cells(o, r), q[1] + q[2] < p[1] + p[2] PROVE Kept(Word, ops[q], dp[q])
    <3>1. q \in B => q[1] + q[2] \in U
      <4> HIDE DEF B
      <4> QED
        OBVIOUS
    <3>2. q[1] + q[2] \in Nat /\ p[1] + p[2] \in Nat
      BY <2>3 DEF Cells
    <3>3. q \notin B
      <4> HIDE DEF U, B
      <4> QED
        BY <2>1, <2>2, <2>4, <3>1, <3>2
    <3> QED
      BY <3>3
  <2> HIDE DEF B, U
  <2> DEFINE i == p[1]  j == p[2]
             same == SameWord(o[i], r[j])
  <2>5. i \in 0..Len(o) /\ j \in 0..Len(r) /\ i \in Nat /\ j \in Nat /\ p = <<i, j>>
    BY <2>3, <1>0 DEF Cells
  <2>6. ops[p] = OpsAt(ops, dp, o, r, p) /\ dp[p] = CountAt(dp, o, r, p)
    BY <1>1, <1>2, <2>3
  <2>7. CASE i = 0 /\ j = 0
    <3>1. ops[p] = <<>> /\ dp[p] = 0
      BY <2>6, <2>7 DEF OpsAt, CountAt
    <3>2. <<>> \in Seq(Ops(Word)) /\ Len(<<>>) = 0 /\ ReadDiff(Merged(<<>>), "keep") = <<>>
      BY MergedEmpty, ReadEmpty
    <3> QED
      BY <2>3, <3>1, <3>2 DEF Kept
  <2>8. CASE i > 0 /\ j > 0 /\ same
    <3> DEFINE op == [type |-> "keep", word |-> r[j]]
    <3>1. op \in Ops(Word) /\ op.type = "keep"
      BY <2>5, <2>8 DEF Ops, Kinds
    <3>2. Kept(Word, ops[<<i - 1, j - 1>>], dp[<<i - 1, j - 1>>]) /\ dp[<<i - 1, j - 1>>] \in Nat
      BY <1>0, <1>2, <2>3, <2>4, <2>8, CellsBefore
    <3>3. ops[p] = Append(ops[<<i - 1, j - 1>>], op)
      BY <2>5, <2>6, <2>8 DEF OpsAt
    <3>4. dp[p] = dp[<<i - 1, j - 1>>] + 1
      BY <2>6, <2>8, <2>5 DEF CountAt
    <3> HIDE DEF op, i, j
    <3> QED
      BY <2>3, <3>1, <3>2, <3>3, <3>4, KeptOperation
  <2> DEFINE added == j > 0 /\ (i = 0 \/ dp[<<i, j - 1>>] >= dp[<<i - 1, j>>])
  <2>9. CASE ~(i > 0 /\ j > 0 /\ same) /\ added
    <3> DEFINE op == [type |-> "add", word |-> r[j]]
               q == <<i, j - 1>>
    <3>1. op \in Ops(Word) /\ op.type # "keep"
      BY <2>5, <2>9 DEF Ops, Kinds
    <3>2. q \in Cells(o, r) /\ q[1] + q[2] < p[1] + p[2]
      BY <2>5, <2>9, <1>0 DEF Cells
    <3>3. Kept(Word, ops[q], dp[q]) /\ dp[q] \in Nat
      BY <3>2, <1>2, <2>4
    <3>4. ops[p] = Append(ops[q], op)
      <4>1. ~(i = 0 /\ j = 0)
        BY <2>5, <2>9
      <4> QED
        BY <2>6, <2>9, <4>1 DEF OpsAt
    <3>5. dp[p] = dp[q]
      <4>1. CASE i = 0
        <5>1. dp[p] = 0
          BY <2>6, <4>1 DEF CountAt
        <5>2. dp[q] = 0
          BY <3>2, <1>2, <4>1 DEF CountAt
        <5> QED
          BY <5>1, <5>2
      <4>2. CASE i > 0
        <5>1. dp[p] = IF dp[<<i - 1, j>>] > dp[<<i, j - 1>>] THEN dp[<<i - 1, j>>] ELSE dp[<<i, j - 1>>]
          BY <2>5, <2>6, <2>9, <4>2 DEF CountAt
        <5>2. dp[<<i - 1, j>>] \in Nat /\ dp[<<i, j - 1>>] \in Nat
          BY <1>0, <1>2, <2>3, <2>9, <4>2, CellsBefore
        <5>3. dp[<<i, j - 1>>] >= dp[<<i - 1, j>>]
          BY <2>9, <4>2
        <5> QED
          BY <5>1, <5>2, <5>3
      <4> QED
        BY <4>1, <4>2, <2>5
    <3> HIDE DEF op, q, i, j
    <3> QED
      BY <2>3, <3>1, <3>3, <3>4, <3>5, KeptOperation
  <2>10. CASE ~(i = 0 /\ j = 0) /\ ~(i > 0 /\ j > 0 /\ same) /\ ~added
    <3> DEFINE op == [type |-> "del", word |-> o[i]]
               q == <<i - 1, j>>
    <3>0. i > 0
      BY <2>5, <2>10
    <3>1. op \in Ops(Word) /\ op.type # "keep"
      BY <2>5, <3>0 DEF Ops, Kinds
    <3>2. q \in Cells(o, r) /\ q[1] + q[2] < p[1] + p[2]
      BY <2>5, <3>0, <1>0 DEF Cells
    <3>3. Kept(Word, ops[q], dp[q]) /\ dp[q] \in Nat
      BY <3>2, <1>2, <2>4
    <3>4. ops[p] = Append(ops[q], op)
      BY <2>6, <2>10 DEF OpsAt
    <3>5. dp[p] = dp[q]
      <4>1. CASE j = 0
        <5>1. dp[p] = 0
          BY <2>6, <4>1 DEF CountAt
        <5>2. dp[q] = 0
          BY <3>2, <1>2, <4>1 DEF CountAt
        <5> QED
          BY <5>1, <5>2
      <4>2. CASE j > 0
        <5>1. dp[p] = IF dp[<<i - 1, j>>] > dp[<<i, j - 1>>] THEN dp[<<i - 1, j>>] ELSE dp[<<i, j - 1>>]
          BY <2>5, <2>6, <2>10, <3>0, <4>2 DEF CountAt
        <5>2. dp[<<i - 1, j>>] \in Nat /\ dp[<<i, j - 1>>] \in Nat
          BY <1>0, <1>2, <2>3, <3>0, <4>2, CellsBefore
        <5>3. ~(dp[<<i, j - 1>>] >= dp[<<i - 1, j>>])
          BY <2>10, <4>2
        <5> QED
          BY <5>1, <5>2, <5>3
      <4> QED
        BY <4>1, <4>2, <2>5
    <3> HIDE DEF op, q, i, j
    <3> QED
      BY <2>3, <3>1, <3>3, <3>4, <3>5, KeptOperation
  <2> QED
    BY <2>7, <2>8, <2>9, <2>10
<1>4. <<Len(o), Len(r)>> \in Cells(o, r)
  BY <1>0 DEF Cells
<1>5. QED
  BY <1>1, <1>3, <1>4 DEF dp

\* No comparison of the two texts in order finds more common words than the diff keeps,
\* unless there are too many words to compare (computeWordDiff).
THEOREM DiffKeepsMost ==
  ASSUME NEW Word, NEW o \in Seq(Word), NEW r \in Seq(Word), NEW most \in Nat,
         Len(o) <= most, Len(r) <= most,
         NEW n \in Nat, NEW a, NEW b, Pairing(o, r, Len(o), Len(r), n, a, b)
  PROVE  n <= Len(ReadDiff(ComputeWordDiff(o, r, most), "keep"))
<1>0. Len(o) \in Nat /\ Len(r) \in Nat
  OBVIOUS
<1>1. ComputeWordDiff(o, r, most) = Merged(DiffOps(o, r))
  BY <1>0 DEF ComputeWordDiff
<1>2. Len(ReadDiff(Merged(DiffOps(o, r)), "keep")) = Common(o, r)[<<Len(o), Len(r)>>]
  BY WalkKeeps DEF Kept
<1>3. n <= Common(o, r)[<<Len(o), Len(r)>>]
  <2> DEFINE p == <<Len(o), Len(r)>>
  <2>1. p \in Cells(o, r) /\ p[1] = Len(o) /\ p[2] = Len(r)
    BY <1>0 DEF Cells
  <2>2. Pairing(o, r, p[1], p[2], n, a, b)
    BY <2>1
  <2> HIDE DEF p
  <2>3. n <= Common(o, r)[p]
    BY <2>1, <2>2, <1>0, TableIsMost
  <2> QED
    BY <2>3 DEF p
<1>4. QED
  BY <1>1, <1>2, <1>3

(***************************************************************************)
(* The card of a finding, for any finding.                                 *)
(***************************************************************************)
\* Without deletions and additions both readers read the same.
LEMMA AllKept ==
  ASSUME NEW Word, NEW chunks \in Seq(Chunks(Word)),
         \A k \in 1..Len(chunks) : chunks[k].type = "keep"
  PROVE  ReadDiff(chunks, "add") = ReadDiff(chunks, "del")
<1> DEFINE n == Len(chunks)
<1>1. PICK f \in Readings(Word, chunks, "add") : TRUE
  BY ReadStepByStep
<1>2. PICK g \in Readings(Word, chunks, "del") : TRUE
  BY ReadStepByStep
<1>3. n \in Nat
  OBVIOUS
<1>4. /\ f[0] = <<>> /\ g[0] = <<>>
      /\ \A k \in 1..n : f[k] = ReadOn(f[k - 1], chunks[k], "add")
      /\ \A k \in 1..n : g[k] = ReadOn(g[k - 1], chunks[k], "del")
      /\ ReadDiff(chunks, "add") = f[n] /\ ReadDiff(chunks, "del") = g[n]
  BY <1>1, <1>2 DEF Readings
<1>5. InStep(f, g, n)
  <2>1. ASSUME NEW k \in 1..n, f[k - 1] = g[k - 1] PROVE f[k] = g[k]
    <3>1. chunks[k].type = "keep"
      OBVIOUS
    <3> HIDE DEF n
    <3> QED
      BY <1>4, <2>1, <3>1 DEF ReadOn
  <2> QED
    BY <1>4, <2>1 DEF InStep
<1>6. \A k \in 0..n : f[k] = g[k]
  <2> HIDE DEF n
  <2> QED
    BY <1>3, <1>5, SameSteps
<1>7. QED
  BY <1>3, <1>4, <1>6

FindingCards(Word) ==
    [category : {"redline", "recommendation"}, heading : Seq(Word), body : Seq(Word),
     clause : Seq(Word), quote : Seq(Word), guidance : BOOLEAN]

\* Whatever the finding and however long its texts, the card offers to accept it
\* exactly if accepting it sends a request; a card that shows a change reads, without the
\* deletions, as what is sent up to the heading, which is never nothing, and, without the
\* additions, as the text it is compared with; and a proposal is shown as a text only
\* when no word differs or there is nothing to compare with (SuggestionCard, accept).
THEOREM CardTellsWhatIsSent ==
  ASSUME NEW Word, NEW f \in FindingCards(Word), NEW mostWords \in Nat, NEW most \in Nat
  PROVE  LET card == SuggestionCard(f, TRUE, mostWords, most)
             sent == CleanedReplacement(f)
         IN  /\ Acceptable(f) <=> AcceptSends(f) # <<"refused">>
             /\ card.says = "change" =>
                   /\ AcceptSends(f) = <<"sent", Replacement(f)>>
                   /\ sent # <<>> /\ Replacement(f) \in {sent, f.heading \o sent}
                   /\ ReadDiff(card.chunks, "add") = sent
                   /\ SameWords(ReadDiff(card.chunks, "del"), Compared(f))
             /\ card.says = "replace" => Compared(f) = <<>> \/ SameWords(sent, Compared(f))
<1> DEFINE diff == DiffChunks(f, mostWords)
           meaningful == \E k \in DOMAIN diff : diff[k].type # "keep"
           card == SuggestionCard(f, TRUE, mostWords, most)
           sent == CleanedReplacement(f)
<1>1. /\ f.heading \in Seq(Word) /\ f.body \in Seq(Word) /\ f.clause \in Seq(Word)
      /\ f.quote \in Seq(Word) /\ f.guidance \in BOOLEAN
  BY DEF FindingCards
<1>2. Replacement(f) \in Seq(Word) /\ sent \in Seq(Word) /\ Compared(f) \in Seq(Word)
  BY <1>1 DEF Replacement, CleanedReplacement, Compared
<1>3. Replacement(f) \in {sent, f.heading \o sent}
  BY DEF Replacement, CleanedReplacement
<1>4. Replacement(f) # <<>> => sent # <<>>
  BY <1>1 DEF Replacement, CleanedReplacement
<1>5. Acceptable(f) <=> AcceptSends(f) # <<"refused">>
  BY DEF Acceptable, AcceptSends
<1>6. card.says = "change" => Replacement(f) # <<>> /\ meaningful /\ card.chunks = diff
  BY DEF SuggestionCard
<1>7. card.says = "replace" => Replacement(f) # <<>> /\ ~meaningful
  BY DEF SuggestionCard
<1>8. ASSUME Replacement(f) # <<>>, Compared(f) # <<>>
      PROVE  TellsBoth(Word, diff, Compared(f), sent)
  <2>1. diff = ComputeWordDiff(Compared(f), sent, mostWords)
    BY <1>8 DEF DiffChunks
  <2> HIDE DEF diff, sent
  <2> QED
    BY <2>1, <1>2, DiffTellsBoth
<1>9. Compared(f) = <<>> => ~meaningful
  BY DEF DiffChunks
<1>10. ASSUME card.says = "replace", Compared(f) # <<>>
       PROVE  SameWords(sent, Compared(f))
  <2>0. /\ diff \in Seq(Chunks(Word)) /\ ReadDiff(diff, "add") = sent
        /\ SameWords(ReadDiff(diff, "del"), Compared(f))
    <3> HIDE DEF diff, sent, card, meaningful
    <3> QED
      BY <1>7, <1>8, <1>10 DEF TellsBoth
  <2>1. \A k \in 1..Len(diff) : diff[k].type = "keep"
    <3>1. ~meaningful
      <4> HIDE DEF diff, sent, card, meaningful
      <4> QED
        BY <1>7, <1>10
    <3> HIDE DEF diff
    <3> QED
      BY <2>0, <3>1
  <2> HIDE DEF diff, sent
  <2>2. ReadDiff(diff, "add") = ReadDiff(diff, "del")
    BY <2>0, <2>1, AllKept
  <2> QED
    BY <2>0, <2>2
<1>11. ASSUME card.says = "change"
       PROVE  /\ AcceptSends(f) = <<"sent", Replacement(f)>>
              /\ sent # <<>>
              /\ ReadDiff(card.chunks, "add") = sent
              /\ SameWords(ReadDiff(card.chunks, "del"), Compared(f))
  <2>1. AcceptSends(f) = <<"sent", Replacement(f)>>
    BY <1>6, <1>11 DEF AcceptSends
  <2> HIDE DEF card, diff, meaningful, sent
  <2> QED
    BY <2>1, <1>4, <1>6, <1>8, <1>9, <1>11 DEF TellsBoth
<1>12. QED
  <2> HIDE DEF card, sent
  <2> QED
    BY <1>3, <1>5, <1>10, <1>11 DEF card, sent

(***************************************************************************)
(* The profile, whatever happens on it and in whatever order its saves are *)
(* answered: proofs about ProfileForm.                                     *)
(***************************************************************************)
P == INSTANCE ProfileForm

Fields(Secret) == [current : Secret, next : Secret, confirm : Secret]

\* What may happen on the screen.
Happening(Secret) ==
    [what : {"save", "timer"}]
    \cup [what : {"section"}, to : {"info", "password"}]
    \cup [what : {"type"}, fields : Fields(Secret)]
    \cup [what : {"answer"}, of : Nat, ok : BOOLEAN]

\* A request carries passwords that agree.
Saves(Secret) ==
    [kind : {"info"}]
    \cup [kind : {"password"}, fields : {f \in Fields(Secret) : f.next = f.confirm /\ f.next # P!Empty}]

\* The form shows a save under way only while one is, and what became of it only until
\* a timer takes that back.
Settled(Secret) ==
    {form \in [savedState : {"idle", "saving", "saved", "mismatch"}, pwFields : Fields(Secret),
               section : {"info", "password"}, requests : Seq(Saves(Secret)), timers : Nat] :
        /\ form.savedState = "saving" => form.requests # <<>>
        /\ form.savedState \in {"saved", "mismatch"} => form.timers > 0}

LEMMA ProfileOpens ==
  ASSUME NEW Secret, P!Empty \in Secret
  PROVE  P!Opened \in Settled(Secret)
BY DEF Settled, Fields, P!Opened, P!NoFields

LEMMA ProfileStep ==
  ASSUME NEW Secret, P!Empty \in Secret, NEW form \in Settled(Secret), NEW e \in Happening(Secret)
  PROVE  P!Happens(form, e) \in Settled(Secret)
<1> DEFINE S == Saves(Secret)
           F == Fields(Secret)
<1>1. /\ form \in [savedState : {"idle", "saving", "saved", "mismatch"}, pwFields : F,
                   section : {"info", "password"}, requests : Seq(S), timers : Nat]
      /\ form.savedState = "saving" => form.requests # <<>>
      /\ form.savedState \in {"saved", "mismatch"} => form.timers > 0
  BY DEF Settled
<1>2. CASE e.what = "save" /\ form.section = "info"
  <2>1. [kind |-> "info"] \in S
    BY DEF Saves
  <2> HIDE DEF S, F
  <2>2. Append(form.requests, [kind |-> "info"]) \in Seq(S) /\ Append(form.requests, [kind |-> "info"]) # <<>>
    BY <1>1, <2>1
  <2>3. P!Happens(form, e) = P!Save(form)
    BY <1>2 DEF P!Happens
  <2> QED
    BY <1>1, <2>2, <2>3 DEF P!Save, Settled, S, F
<1>3. CASE e.what = "save" /\ form.section = "password"
  <2> DEFINE pw == form.pwFields
  <2>1. P!Happens(form, e) = P!SavePassword(form)
    BY <1>3 DEF P!Happens
  <2>2. CASE pw.current = P!Empty \/ pw.next = P!Empty
    BY <2>1, <2>2 DEF P!SavePassword
  <2>3. CASE pw.current # P!Empty /\ pw.next # P!Empty /\ pw.next # pw.confirm
    <3>1. P!Happens(form, e) = [form EXCEPT !.savedState = "mismatch", !.timers = @ + 1]
      BY <2>1, <2>3 DEF P!SavePassword
    <3>2. form.timers + 1 \in Nat /\ form.timers + 1 > 0
      BY <1>1
    <3> HIDE DEF S, F
    <3> QED
      BY <1>1, <3>1, <3>2 DEF Settled, S, F
  <2>4. CASE pw.current # P!Empty /\ pw.next # P!Empty /\ pw.next = pw.confirm
    <3> DEFINE q == [kind |-> "password", fields |-> pw]
    <3>1. P!Happens(form, e) = [form EXCEPT !.savedState = "saving", !.requests = Append(@, q)]
      BY <2>1, <2>4 DEF P!SavePassword
    <3>2. q \in S
      BY <1>1, <2>4 DEF Saves
    <3> HIDE DEF q, S, F
    <3>3. Append(form.requests, q) \in Seq(S) /\ Append(form.requests, q) # <<>>
      BY <1>1, <3>2
    <3> QED
      BY <1>1, <3>1, <3>3 DEF Settled, S, F
  <2> QED
    BY <2>2, <2>3, <2>4
<1>4. CASE e.what = "section"
  <2>1. e.to \in {"info", "password"}
    BY <1>4 DEF Happening
  <2>2. P!Happens(form, e) = [form EXCEPT !.section = e.to]
    BY <1>4 DEF P!Happens
  <2> QED
    BY <1>1, <2>1, <2>2 DEF Settled
<1>5. CASE e.what = "type" /\ form.section = "password"
  <2>1. e.fields \in F
    BY <1>5 DEF Happening
  <2>2. P!Happens(form, e) = [form EXCEPT !.pwFields = e.fields]
    BY <1>5 DEF P!Happens
  <2> QED
    BY <1>1, <2>1, <2>2 DEF Settled
<1>6. CASE e.what = "answer" /\ e.of \in DOMAIN form.requests
  <2> DEFINE k == e.of
             rest == P!RemoveAt(form.requests, k)
             asked == form.requests[k]
  <2>1. rest \in Seq(S)
    <3>1. k \in 1..Len(form.requests)
      BY <1>1, <1>6
    <3> HIDE DEF S, k
    <3> QED
      BY <1>1, <3>1 DEF P!RemoveAt
  <2>2. P!Happens(form, e) = P!Answer(form, k, e.ok)
    BY <1>6 DEF P!Happens
  <2>3. P!NoFields \in F
    BY DEF Fields, P!NoFields
  <2> HIDE DEF rest, S, F
  <2>4. CASE e.ok
    <3> DEFINE kept == IF asked.kind = "password" THEN P!NoFields ELSE form.pwFields
    <3>1. kept \in F
      BY <1>1, <2>3
    <3>2. P!Happens(form, e) = [[form EXCEPT !.requests = rest] EXCEPT !.savedState = "saved",
                                  !.timers = @ + 1, !.pwFields = kept]
      BY <1>1, <2>2, <2>4 DEF P!Answer, rest
    <3>3. form.timers + 1 \in Nat /\ form.timers + 1 > 0
      BY <1>1
    <3>4. P!Happens(form, e) = [savedState |-> "saved", pwFields |-> kept, section |-> form.section,
                                requests |-> rest, timers |-> form.timers + 1]
      <4> HIDE DEF kept
      <4> QED
        BY <1>1, <3>2
    <3> HIDE DEF kept
    <3> QED
      BY <1>1, <2>1, <3>1, <3>3, <3>4 DEF Settled, S, F
  <2>5. CASE ~e.ok
    <3>1. P!Happens(form, e) = [[form EXCEPT !.requests = rest] EXCEPT !.savedState = "idle"]
      BY <2>2, <2>5 DEF P!Answer, rest
    <3> QED
      BY <1>1, <2>1, <3>1 DEF Settled, S, F
  <2> QED
    BY <2>4, <2>5
<1>7. CASE e.what = "timer" /\ form.timers > 0
  <2>1. P!Happens(form, e) = [form EXCEPT !.savedState = "idle", !.timers = @ - 1]
    BY <1>7 DEF P!Happens, P!Timer
  <2>2. form.timers - 1 \in Nat
    BY <1>1, <1>7
  <2> HIDE DEF S, F
  <2> QED
    BY <1>1, <2>1, <2>2 DEF Settled, S, F
<1>8. CASE /\ ~(e.what = "save" /\ form.section \in {"info", "password"})
           /\ e.what # "section"
           /\ ~(e.what = "type" /\ form.section = "password")
           /\ ~(e.what = "answer" /\ e.of \in DOMAIN form.requests)
           /\ ~(e.what = "timer" /\ form.timers > 0)
  <2>1. P!Happens(form, e) = form
    BY <1>8 DEF P!Happens
  <2> QED
    BY <2>1
<1>9. QED
  BY <1>1, <1>2, <1>3, <1>4, <1>5, <1>6, <1>7, <1>8

\* Whatever happens on the profile and in whatever order its saves are answered: "Saving"
\* is shown only while a request is under way, "Saved" and the complaint about two
\* passwords only until a timer that runs takes them back, and two passwords that
\* differ, or none, are never sent (ProfileScreen, save, savePassword).
THEOREM ProfileSettles ==
  ASSUME NEW Secret, P!Empty \in Secret, NEW events \in Seq(Happening(Secret))
  PROVE  P!Profile(events) \in Settled(Secret)
<1> DEFINE n == Len(events)
           S == Settled(Secret)
           G == [q \in (1..n) \X S |-> P!Happens(q[2], events[q[1]])]
           Step(h) == [k \in 0..n |-> IF k = 0 THEN P!Opened ELSE P!Happens(h[k - 1], events[k])]
           h == CHOOSE h : h = Step(h)
<1>1. n \in Nat /\ \A k \in 1..n : events[k] \in Happening(Secret)
  OBVIOUS
<1>2. ASSUME NEW w \in S, NEW k \in 1..n PROVE P!Happens(w, events[k]) \in S
  BY <1>1, ProfileStep
<1>3. G \in Rules(S, n)
  <2> HIDE DEF S, n
  <2> QED
    BY <1>2 DEF Rules
<1>4. P!Opened \in S
  BY ProfileOpens
<1>5. PICK f \in [0..n -> S] : f[0] = P!Opened /\ \A k \in 1..n : f[k] = G[<<k, f[k - 1]>>]
  <2>1. n \in Nat
    BY <1>1
  <2> HIDE DEF G, S, n
  <2>2. Unfoldings(S, P!Opened, n, G) # {}
    BY <2>1, <1>3, <1>4, StepByStep
  <2> QED
    BY <2>2 DEF Unfoldings
<1> HIDE DEF S
<1>6. ASSUME NEW k \in 1..n PROVE f[k] = P!Happens(f[k - 1], events[k])
  <2>1. f[k - 1] \in S
    BY <1>1
  <2>2. <<k, f[k - 1]>> \in (1..n) \X S
    BY <2>1
  <2> QED
    BY <1>5, <2>2
<1>7. f = Step(f)
  <2>1. ASSUME NEW k \in 0..n PROVE f[k] = Step(f)[k]
    <3>1. CASE k = 0
      BY <3>1, <1>5, <1>1
    <3>2. CASE k # 0
      <4>1. k \in 1..n
        BY <3>2, <1>1
      <4>2. f[k] = P!Happens(f[k - 1], events[k])
        BY <4>1, <1>6
      <4> HIDE DEF G, n
      <4> QED
        BY <3>2, <4>2
    <3> QED
      BY <3>1, <3>2
  <2> QED
    BY <2>1
<1>8. h = Step(h)
  <2> HIDE DEF Step
  <2> QED
    BY <1>7
<1>9. P!Profile(events) = h[n]
  BY Zenon DEF P!Profile
<1>10. h[n] = f[n]
  <2> HIDE DEF h
  <2>1. h[0] = f[0]
    BY <1>7, <1>8, <1>1
  <2>2. ASSUME NEW k \in 1..n, h[k - 1] = f[k - 1] PROVE h[k] = f[k]
    <3>1. h[k] = Step(h)[k] /\ f[k] = Step(f)[k]
      BY <1>7, <1>8
    <3> QED
      BY <3>1, <2>2, <1>1
  <2>3. InStep(h, f, n)
    BY <2>1, <2>2 DEF InStep
  <2> HIDE DEF n
  <2> QED
    BY <2>3, <1>1, SameSteps
<1>11. QED
  <2> HIDE DEF h, G, Step, n
  <2> QED
    BY <1>1, <1>5, <1>9, <1>10 DEF S
=============================================================================
