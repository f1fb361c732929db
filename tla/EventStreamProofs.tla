--------------------------- MODULE EventStreamProofs ---------------------------
(***************************************************************************)
(* Proofs about the event stream, for any number of writers and readers.   *)
(***************************************************************************)
EXTENDS EventStream, SequenceTheorems, TLAPS

LEMMA TypeInit == Init => TypeOK
  BY DEF Init, TypeOK

LEMMA TypeStep == TypeOK /\ [Next]_vars => TypeOK'
<1> SUFFICES ASSUME TypeOK, [Next]_vars PROVE TypeOK'
  OBVIOUS
<1> USE DEF TypeOK
<1>1. ASSUME NEW t \in Txn, NEW b \in Batches, Start(t, b) PROVE TypeOK'
  <2>1. b \in Seq(Type)
    BY StreamAssumption
  <2>2. QED
    BY <1>1, <2>1 DEF Start, readerVars
<1>2. ASSUME NEW t \in Txn, ReadLast(t) PROVE TypeOK'
  <2>1. PICK last \in {0} \cup {e.seq : e \in Visible(t)} :
          row' = [row EXCEPT ![t] = [seq |-> last + 1, type |-> Head(todo[t])]]
    BY <1>2 DEF ReadLast
  <2>2. last \in Nat
    BY DEF Visible, Row
  <2>3. Head(todo[t]) \in Type
    BY <1>2 DEF ReadLast
  <2>4. [seq |-> last + 1, type |-> Head(todo[t])] \in Row
    BY <2>2, <2>3 DEF Row
  <2>5. QED
    BY <1>2, <2>1, <2>4 DEF ReadLast, readerVars
<1>3. ASSUME NEW t \in Txn, Insert(t) PROVE TypeOK'
  <2>1. row[t] \in Row
    BY <1>3 DEF Insert
  <2>2. Tail(todo[t]) \in Seq(Type)
    BY <1>3 DEF Insert
  <2>3. QED
    BY <1>3, <2>1, <2>2 DEF Insert, readerVars
<1>4. ASSUME NEW t \in Txn, Collide(t) PROVE TypeOK'
  BY <1>4 DEF Collide, readerVars
<1>5. ASSUME NEW t \in Txn, Leave(t), rows' \subseteq Row,
             UNCHANGED <<readerVars, started, restarts>>
      PROVE  TypeOK'
  <2>1. <<>> \in Seq(Type)
    OBVIOUS
  <2>2. QED
    BY <1>5, <2>1 DEF Leave, readerVars
<1>6. ASSUME NEW t \in Txn, Commit(t) \/ Rollback(t) PROVE TypeOK'
  BY <1>5, <1>6 DEF Commit, Rollback
<1>7. ASSUME NEW r \in Reader, Poll(r) PROVE TypeOK'
  BY <1>7 DEF Poll, Unread, txnVars, Row
<1>8. ASSUME NEW r \in Reader, CloseStream(r) PROVE TypeOK'
  BY <1>8 DEF CloseStream, txnVars
<1>9. ASSUME NEW r \in Reader, Reconnect(r) PROVE TypeOK'
  <2>1. restarts + 1 \in Nat
    OBVIOUS
  <2>2. QED
    BY <1>9, <2>1 DEF Reconnect, txnVars
<1>10. CASE UNCHANGED vars
  BY <1>10 DEF vars, txnVars, readerVars
<1>11. QED
  BY <1>1, <1>2, <1>3, <1>4, <1>6, <1>7, <1>8, <1>9, <1>10 DEF Next

\* Every variable keeps its type.
THEOREM TypeCorrect == Spec => []TypeOK
  BY TypeInit, TypeStep, PTL DEF Spec

(***************************************************************************)
(* Numbering.  Gapless is not inductive: what a transaction is about to    *)
(* insert, or has inserted and not committed, must fit as well.  The       *)
(* unique constraint lets only one transaction at a time hold uncommitted  *)
(* rows, so commits come in the order of the numbers.                      *)
(***************************************************************************)

\* The rows of one transaction extend the committed ones.
Extends(t) ==
    /\ Numbered(rows \cup inserted[t])
    /\ \A e \in inserted[t], d \in rows : d.seq < e.seq

\* A row to be inserted has all smaller numbers before it, and comes after the
\* other uncommitted rows of its transaction.
RowFits(t) ==
    row[t] # NoRow =>
        /\ row[t].seq > 0
        /\ \A n \in 1 .. (row[t].seq - 1) : \E d \in rows \cup inserted[t] : d.seq = n
        /\ inserted[t] # {} => \A d \in rows \cup inserted[t] : d.seq < row[t].seq

NumberInv ==
    /\ Gapless
    /\ \A t \in Txn : Extends(t) /\ RowFits(t)
    /\ \A t, u \in Txn : inserted[t] # {} /\ inserted[u] # {} => t = u

LEMMA NumberInit == Init => NumberInv
  BY DEF Init, NumberInv, Gapless, Numbered, Extends, RowFits

\* A row that can be inserted has the number after the last committed row, or
\* after the last one of its transaction.
LEMMA InsertNext ==
  ASSUME TypeOK, NumberInv, NEW t \in Txn, Insert(t)
  PROVE  /\ \A d \in rows \cup inserted[t] : d.seq < row[t].seq
         /\ \A u \in Txn \ {t} : inserted[u] = {}
<1> DEFINE new == row[t].seq
<1>1. /\ row[t] \in Row /\ new \in Nat /\ new > 0
      /\ \A d \in rows : d.seq # new
      /\ ~Waits(t)
  BY DEF TypeOK, Insert, Taken, Row, NumberInv, RowFits
<1>2. \A u \in Txn : inserted[u] \subseteq Row
  BY DEF TypeOK
<1>3. rows \subseteq Row
  BY DEF TypeOK
<1>4. CASE inserted[t] # {}
  BY <1>4 DEF NumberInv, RowFits, Insert, Taken
<1>5. CASE inserted[t] = {}
  <2>1. \A n \in 1 .. (new - 1) : \E d \in rows : d.seq = n
    BY <1>5 DEF NumberInv, RowFits, Insert, Taken
  <2>2. \A d \in rows : d.seq < new
    <3>1. SUFFICES ASSUME NEW d \in rows, ~(d.seq < new) PROVE FALSE
      OBVIOUS
    <3>2. d.seq \in Nat /\ new \in 1 .. d.seq
      BY <1>1, <1>3, <3>1 DEF Row
    <3>3. \E e \in rows : e.seq = new
      BY <3>2 DEF NumberInv, Gapless, Numbered
    <3>4. QED
      BY <1>1, <3>3
  <2>3. ASSUME NEW u \in Txn \ {t}, NEW e \in inserted[u] PROVE FALSE
    <3>1. e.seq \in Nat
      BY <1>2 DEF Row
    <3>2. CASE e.seq < new
      <4>1. e.seq > 0
        BY DEF NumberInv, Extends, Numbered
      <4>2. PICK d \in rows : d.seq = e.seq
        BY <1>1, <2>1, <3>1, <3>2, <4>1
      <4>3. d.seq < e.seq
        BY DEF NumberInv, Extends
      <4>4. QED
        BY <3>1, <4>2, <4>3
    <3>3. CASE ~(e.seq < new)
      <4>1. new \in 1 .. e.seq
        BY <1>1, <3>1, <3>3
      <4>2. PICK d \in rows \cup inserted[u] : d.seq = new
        BY <4>1 DEF NumberInv, Extends, Numbered
      <4>3. d \in inserted[u]
        BY <1>1, <4>2
      <4>4. QED
        BY <1>1, <4>2, <4>3 DEF Waits
    <3>4. QED
      BY <3>2, <3>3
  <2>4. QED
    BY <1>5, <2>2, <2>3
<1>6. QED
  BY <1>4, <1>5

LEMMA NumberInsert ==
  ASSUME TypeOK, NumberInv, NEW t \in Txn, Insert(t)
  PROVE  NumberInv'
<1> DEFINE new == row[t]
<1>1. /\ new \in Row /\ new.seq \in Nat /\ new.seq > 0
      /\ inserted' = [inserted EXCEPT ![t] = inserted[t] \cup {new}]
      /\ row' = [row EXCEPT ![t] = NoRow]
      /\ rows' = rows
      /\ inserted \in [Txn -> SUBSET Row]
      /\ row \in [Txn -> Row \cup {NoRow}]
      /\ rows \subseteq Row
  BY DEF TypeOK, Insert, Taken, Row, NumberInv, RowFits
<1>2. /\ \A d \in rows \cup inserted[t] : d.seq < new.seq
      /\ \A u \in Txn \ {t} : inserted[u] = {}
  BY InsertNext
<1>3. Numbered(rows \cup inserted[t] \cup {new})
  <2>1. Numbered(rows \cup inserted[t])
    BY DEF NumberInv, Extends
  <2>2. \A n \in 1 .. new.seq : \E d \in rows \cup inserted[t] \cup {new} : d.seq = n
    <3>1. \A n \in 1 .. (new.seq - 1) : \E d \in rows \cup inserted[t] : d.seq = n
      BY DEF NumberInv, RowFits, Insert, Taken
    <3>2. QED
      BY <1>1, <3>1
  <2>3. \A d \in rows \cup inserted[t] : d.seq \in Nat
    BY <1>1 DEF Row
  <2>4. \A d, e \in rows \cup inserted[t] \cup {new} : d.seq = e.seq => d = e
    BY <1>1, <1>2, <2>1, <2>3 DEF Numbered
  <2>5. QED
    BY <1>1, <2>1, <2>2, <2>4 DEF Numbered
<1>4. Extends(t)' /\ RowFits(t)'
  BY <1>1, <1>2, <1>3 DEF Extends, RowFits, NumberInv, Numbered
<1>5. ASSUME NEW u \in Txn, u # t PROVE Extends(u)' /\ RowFits(u)'
  <2>1. inserted'[u] = inserted[u] /\ row'[u] = row[u]
    BY <1>1, <1>5
  <2>2. QED
    BY <1>1, <2>1 DEF NumberInv, Extends, RowFits, Numbered
<1>6. \A u, v \in Txn : inserted'[u] # {} /\ inserted'[v] # {} => u = v
  BY <1>1, <1>2
<1>7. QED
  BY <1>1, <1>4, <1>5, <1>6 DEF NumberInv, Gapless

LEMMA NumberReadLast ==
  ASSUME TypeOK, NumberInv, NEW t \in Txn, ReadLast(t)
  PROVE  NumberInv'
<1> DEFINE R == rows \cup inserted[t]
<1>1. PICK last \in {0} \cup {e.seq : e \in R} :
        /\ \A e \in R : e.seq <= last
        /\ row' = [row EXCEPT ![t] = [seq |-> last + 1, type |-> Head(todo[t])]]
  BY DEF ReadLast, Visible
<1>2. /\ rows' = rows /\ inserted' = inserted
      /\ R \subseteq Row
      /\ row \in [Txn -> Row \cup {NoRow}]
  BY DEF ReadLast, TypeOK
<1>3. last \in Nat /\ \A e \in R : e.seq \in Nat
  BY <1>2 DEF Row
<1>4. row'[t].seq = last + 1 /\ \A u \in Txn : u # t => row'[u] = row[u]
  BY <1>1, <1>2
<1>5. RowFits(t)'
  <2>1. \A n \in 1 .. last : \E d \in R : d.seq = n
    BY <1>1, <1>3 DEF NumberInv, Extends, Numbered
  <2>2. \A d \in R : d.seq < last + 1
    BY <1>1, <1>3
  <2>3. (last + 1) - 1 = last /\ last + 1 > 0
    BY <1>3
  <2>4. QED
    BY <1>2, <1>4, <2>1, <2>2, <2>3 DEF RowFits
<1>6. \A u \in Txn : u # t => RowFits(u)'
  BY <1>2, <1>4 DEF NumberInv, RowFits
<1>7. QED
  BY <1>2, <1>5, <1>6 DEF NumberInv, Gapless, Extends, Numbered

\* The transaction leaves and nothing of it was committed.
LEMMA NumberDrop ==
  ASSUME TypeOK, NumberInv, NEW t \in Txn, rows' = rows,
         inserted' = [inserted EXCEPT ![t] = {}], row' = [row EXCEPT ![t] = NoRow]
  PROVE  NumberInv'
<1>1. /\ \A u \in Txn : u # t => inserted'[u] = inserted[u] /\ row'[u] = row[u]
      /\ inserted'[t] = {} /\ row'[t] = NoRow
  BY DEF TypeOK
<1>2. Extends(t)' /\ RowFits(t)'
  BY <1>1 DEF NumberInv, Gapless, Extends, RowFits, Numbered
<1>3. \A u \in Txn : u # t => Extends(u)' /\ RowFits(u)'
  BY <1>1 DEF NumberInv, Extends, RowFits, Numbered
<1>4. QED
  BY <1>1, <1>2, <1>3 DEF NumberInv, Gapless, Numbered

LEMMA NumberCommit ==
  ASSUME TypeOK, NumberInv, NEW t \in Txn, Commit(t)
  PROVE  NumberInv'
<1>1. /\ \A u \in Txn : u # t => inserted'[u] = inserted[u] /\ row'[u] = row[u]
      /\ inserted'[t] = {} /\ row'[t] = NoRow
      /\ rows' = rows \cup inserted[t]
  BY DEF TypeOK, Commit, Leave
<1>2. CASE inserted[t] = {}
  <2>1. rows' = rows
    BY <1>1, <1>2
  <2>2. QED
    BY <2>1, NumberDrop DEF Commit, Leave
<1>3. CASE inserted[t] # {}
  <2>1. \A u \in Txn : inserted'[u] = {}
    BY <1>1, <1>3 DEF NumberInv
  <2>2. Numbered(rows')
    BY <1>1 DEF NumberInv, Extends
  <2>3. \A u \in Txn : Extends(u)'
    BY <2>1, <2>2 DEF Extends, Numbered
  <2>4. \A u \in Txn : u # t => inserted[u] = {}
    BY <1>3 DEF NumberInv
  <2>5. ASSUME NEW u \in Txn, u # t PROVE RowFits(u)'
    BY <1>1, <2>1, <2>4, <2>5 DEF NumberInv, RowFits
  <2>6. RowFits(t)'
    BY <1>1 DEF RowFits
  <2>7. QED
    BY <2>1, <2>2, <2>3, <2>5, <2>6 DEF NumberInv, Gapless, Numbered
<1>4. QED
  BY <1>2, <1>3

LEMMA NumberNext == TypeOK /\ NumberInv /\ [Next]_vars => NumberInv'
<1> SUFFICES ASSUME TypeOK, NumberInv, [Next]_vars PROVE NumberInv'
  OBVIOUS
<1>1. (UNCHANGED <<rows, inserted, row>>) => NumberInv'
  BY DEF NumberInv, Gapless, Extends, RowFits, Numbered
<1>2. ASSUME NEW t \in Txn, NEW b \in Batches, Start(t, b) PROVE NumberInv'
  BY <1>1, <1>2 DEF Start
<1>3. ASSUME NEW t \in Txn, Collide(t) \/ Rollback(t) PROVE NumberInv'
  BY <1>3, NumberDrop DEF Collide, Rollback, Leave
<1>4. ASSUME NEW r \in Reader, Poll(r) \/ CloseStream(r) \/ Reconnect(r) PROVE NumberInv'
  BY <1>1, <1>4 DEF Poll, Unread, CloseStream, Reconnect, txnVars
<1>5. UNCHANGED vars => NumberInv'
  BY <1>1 DEF vars, txnVars
<1>6. QED
  BY <1>2, <1>3, <1>4, <1>5, NumberReadLast, NumberInsert, NumberCommit DEF Next

\* The committed events are numbered 1, 2, ... without repetition or hole,
\* however writers interleave, collide and die.
THEOREM StreamGapless == Spec => []Gapless
<1>1. TypeOK /\ NumberInv /\ [Next]_vars => (TypeOK /\ NumberInv)'
  BY TypeStep, NumberNext
<1>2. NumberInv => Gapless
  BY DEF NumberInv
<1>3. QED
  BY <1>1, <1>2, TypeInit, NumberInit, PTL DEF Spec

(***************************************************************************)
(* Delivery.                                                               *)
(***************************************************************************)

\* A reader's cursor is at the start or at a committed event.
ReaderInv ==
    /\ NothingSkipped
    /\ \A r \in Reader : cursor[r] = 0 \/ \E e \in rows : e.seq = cursor[r]

LEMMA ReaderCommit ==
  ASSUME TypeOK, NumberInv, ReaderInv, NEW t \in Txn, Commit(t)
  PROVE  ReaderInv'
<1>1. rows' = rows \cup inserted[t] /\ cursor' = cursor /\ sent' = sent
  BY DEF Commit, readerVars
<1>2. ASSUME NEW r \in Reader, NEW e \in inserted[t] PROVE ~(e.seq <= cursor[r])
  <2>1. e.seq \in Nat /\ cursor[r] \in Nat /\ e.seq > 0
    BY DEF TypeOK, Row, NumberInv, Extends, Numbered
  <2>2. \A d \in rows : d.seq \in Nat /\ d.seq < e.seq
    BY DEF TypeOK, Row, NumberInv, Extends
  <2>3. QED
    BY <2>1, <2>2 DEF ReaderInv
<1>3. QED
  BY <1>1, <1>2 DEF ReaderInv, NothingSkipped

LEMMA ReaderPoll ==
  ASSUME TypeOK, ReaderInv, NEW r \in Reader, Poll(r)
  PROVE  ReaderInv'
<1>1. PICK upto \in {e \in rows : e.seq > cursor[r]} :
        /\ sent' = [sent EXCEPT ![r] = sent[r] \cup
                       {e \in rows : e.seq > cursor[r] /\ e.seq <= upto.seq}]
        /\ cursor' = [cursor EXCEPT ![r] = upto.seq]
  BY DEF Poll, Unread
<1>2. rows' = rows /\ sent \in [Reader -> SUBSET Row] /\ cursor \in [Reader -> Nat]
  BY DEF Poll, Unread, TypeOK
<1>3. upto.seq \in Nat /\ \A e \in rows : e.seq \in Nat
  BY DEF TypeOK, Row
<1>4. \A q \in Reader : q # r => cursor'[q] = cursor[q] /\ sent'[q] = sent[q]
  BY <1>1, <1>2
<1>5. cursor'[r] = upto.seq
  BY <1>1, <1>2
<1>6. sent'[r] = {e \in rows : e.seq <= upto.seq}
  <2>1. sent[r] = {e \in rows : e.seq <= cursor[r]}
    BY DEF ReaderInv, NothingSkipped
  <2>2. \A e \in rows : e.seq <= upto.seq <=>
          e.seq <= cursor[r] \/ (e.seq > cursor[r] /\ e.seq <= upto.seq)
    BY <1>2, <1>3
  <2>3. QED
    BY <1>1, <1>2, <2>1, <2>2
<1>7. QED
  BY <1>2, <1>4, <1>5, <1>6 DEF ReaderInv, NothingSkipped

LEMMA ReaderNext == TypeOK /\ NumberInv /\ ReaderInv /\ [Next]_vars => ReaderInv'
<1> SUFFICES ASSUME TypeOK, NumberInv, ReaderInv, [Next]_vars PROVE ReaderInv'
  OBVIOUS
<1>1. (UNCHANGED <<rows, cursor, sent>>) => ReaderInv'
  BY DEF ReaderInv, NothingSkipped
<1>2. ASSUME NEW t \in Txn, NEW b \in Batches, Start(t, b) PROVE ReaderInv'
  BY <1>1, <1>2 DEF Start, readerVars
<1>3. ASSUME NEW t \in Txn, ReadLast(t) \/ Insert(t) \/ Collide(t) \/ Rollback(t)
      PROVE  ReaderInv'
  BY <1>1, <1>3 DEF ReadLast, Insert, Collide, Rollback, readerVars
<1>4. ASSUME NEW r \in Reader, CloseStream(r) \/ Reconnect(r) PROVE ReaderInv'
  BY <1>1, <1>4 DEF CloseStream, Reconnect
<1>5. UNCHANGED vars => ReaderInv'
  BY <1>1 DEF vars, readerVars
<1>6. QED
  BY <1>2, <1>3, <1>4, <1>5, ReaderCommit, ReaderPoll DEF Next

\* A reader that polls from its cursor is sent every committed event before it:
\* commits come in the order of the sequence numbers.
THEOREM ReadersSkipNothing == Spec => []NothingSkipped
<1>1. Init => ReaderInv
  BY DEF Init, ReaderInv, NothingSkipped
<1>2. TypeOK /\ NumberInv /\ ReaderInv /\ [Next]_vars => (TypeOK /\ NumberInv /\ ReaderInv)'
  BY TypeStep, NumberNext, ReaderNext
<1>3. ReaderInv => NothingSkipped
  BY DEF ReaderInv
<1>4. QED
  BY <1>1, <1>2, <1>3, TypeInit, NumberInit, PTL DEF Spec

(***************************************************************************)
(* The abstract log.  What a transaction has appended so far is the head   *)
(* of one of the batches, numbered on from the committed rows, and what it *)
(* still has to append is the tail of that batch; both are needed, because *)
(* the type of a row is fixed long before its commit.                      *)
(***************************************************************************)

\* The rows R have the numbers 1 to n.
Filled(R, n) ==
    /\ \A e \in R : e.seq \in 1 .. n
    /\ \A i \in 1 .. n : \E e \in R : e.seq = i

\* The first k events of a batch, numbered after base.
Numbering(base, b, k) == {[seq |-> base + i, type |-> b[i]] : i \in 1 .. k}

\* Transaction t has appended the first k events of batch b.
Written(t, base, b, k) ==
    /\ inserted[t] = Numbering(base, b, k)
    /\ Len(todo[t]) = Len(b) - k
    /\ \A i \in 1 .. Len(todo[t]) : todo[t][i] = b[k + i]

BatchInv ==
    /\ \A t \in Txn : state[t] # "working" => inserted[t] = {}
    /\ \A t \in Txn : row[t] # NoRow => row[t].type = Head(todo[t])
    /\ \E base \in Nat :
         /\ Filled(rows, base)
         /\ \A t \in Txn : state[t] = "working" =>
              \E b \in Batches : \E k \in 0 .. Len(b) : Written(t, base, b, k)

LEMMA BatchInit == Init => BatchInv
<1> SUFFICES ASSUME Init PROVE BatchInv
  OBVIOUS
<1>1. Filled(rows, 0)
  BY DEF Init, Filled
<1>2. QED
  BY <1>1 DEF Init, BatchInv

\* A step that leaves the rows and the events of a transaction alone.
LEMMA WrittenStays ==
  ASSUME NEW u, NEW base, NEW b, NEW k, Written(u, base, b, k),
         inserted'[u] = inserted[u], todo'[u] = todo[u]
  PROVE  Written(u, base, b, k)'
  BY DEF Written

LEMMA NumberingHas ==
  ASSUME NEW base \in Nat, NEW b, NEW k \in Nat, NEW i \in 1 .. k
  PROVE  [seq |-> base + i, type |-> b[i]] \in Numbering(base, b, k)
  BY DEF Numbering

\* What a step does that leaves the committed rows, the transactions and their
\* batches alone.
LEMMA BatchStutter == BatchInv /\ UNCHANGED <<rows, txnVars>> => BatchInv'
<1> SUFFICES ASSUME BatchInv, UNCHANGED <<rows, txnVars>> PROVE BatchInv'
  OBVIOUS
<1>1. /\ rows' = rows /\ state' = state /\ todo' = todo
      /\ inserted' = inserted /\ row' = row
  BY DEF txnVars
<1>2. \A u, base, b, k : Written(u, base, b, k) => Written(u, base, b, k)'
  BY <1>1, WrittenStays
<1>3. QED
  BY <1>1, <1>2 DEF BatchInv

LEMMA BatchStart ==
  ASSUME TypeOK, BatchInv, NEW t \in Txn, NEW c \in Batches, Start(t, c)
  PROVE  BatchInv'
<1>1. PICK base \in Nat :
         /\ Filled(rows, base)
         /\ \A u \in Txn : state[u] = "working" =>
              \E b \in Batches : \E k \in 0 .. Len(b) : Written(u, base, b, k)
  BY DEF BatchInv
<1>2. /\ rows' = rows /\ inserted' = inserted /\ row' = row
      /\ todo' = [todo EXCEPT ![t] = c] /\ state' = [state EXCEPT ![t] = "working"]
      /\ state[t] = "idle" /\ inserted[t] = {} /\ row[t] = NoRow
  BY DEF Start, BatchInv, TypeOK
<1>3. c \in Seq(Type) /\ Len(c) \in Nat
  BY StreamAssumption, LenProperties
<1>4. Written(t, base, c, 0)'
  BY <1>2, <1>3 DEF Written, Numbering, TypeOK
<1>5. \A u \in Txn : u # t => /\ state'[u] = state[u] /\ todo'[u] = todo[u]
                               /\ inserted'[u] = inserted[u]
  BY <1>2 DEF TypeOK
<1>6. \A u \in Txn : state'[u] = "working" =>
         \E b \in Batches : \E k \in 0 .. Len(b) : Written(u, base, b, k)'
  <2>1. ASSUME NEW u \in Txn, u # t, state'[u] = "working"
        PROVE  \E b \in Batches : \E k \in 0 .. Len(b) : Written(u, base, b, k)'
    BY <1>1, <1>5, <2>1, WrittenStays
  <2>2. 0 \in 0 .. Len(c)
    BY <1>3
  <2>3. QED
    BY <1>4, <2>1, <2>2
<1>7. \A u \in Txn : row'[u] # NoRow => row'[u].type = Head(todo'[u])
  BY <1>2, <1>5 DEF BatchInv
<1>8. \A u \in Txn : state'[u] # "working" => inserted'[u] = {}
  BY <1>2, <1>5 DEF BatchInv
<1>9. Filled(rows', base)
  BY <1>1, <1>2
<1>10. QED
  BY <1>6, <1>7, <1>8, <1>9 DEF BatchInv

LEMMA BatchReadLast ==
  ASSUME TypeOK, BatchInv, NEW t \in Txn, ReadLast(t)
  PROVE  BatchInv'
<1>1. PICK last \in {0} \cup {e.seq : e \in Visible(t)} :
         row' = [row EXCEPT ![t] = [seq |-> last + 1, type |-> Head(todo[t])]]
  BY DEF ReadLast
<1>2. rows' = rows /\ inserted' = inserted /\ todo' = todo /\ state' = state
  BY DEF ReadLast
<1>3. \A u \in Txn : row'[u] # NoRow => row'[u].type = Head(todo'[u])
  BY <1>1, <1>2 DEF BatchInv, TypeOK
<1>4. \A u, base, b, k : Written(u, base, b, k) => Written(u, base, b, k)'
  BY <1>2, WrittenStays
<1>5. QED
  BY <1>2, <1>3, <1>4 DEF BatchInv

\* A transaction that leaves without a commit takes its rows with it.
LEMMA BatchDrop ==
  ASSUME TypeOK, BatchInv, NEW t \in Txn, NEW s \in {"idle", "broken"}, rows' = rows,
         state' = [state EXCEPT ![t] = s], inserted' = [inserted EXCEPT ![t] = {}],
         row' = [row EXCEPT ![t] = NoRow], todo' = [todo EXCEPT ![t] = <<>>]
  PROVE  BatchInv'
<1>1. \A u \in Txn : u # t => /\ state'[u] = state[u] /\ todo'[u] = todo[u]
                               /\ inserted'[u] = inserted[u] /\ row'[u] = row[u]
  BY DEF TypeOK
<1>2. state'[t] = s /\ inserted'[t] = {} /\ row'[t] = NoRow
  BY DEF TypeOK
<1>3. \A base, b, k : \A u \in Txn \ {t} : Written(u, base, b, k) => Written(u, base, b, k)'
  BY <1>1, WrittenStays
<1>4. ASSUME NEW base \in Nat,
             \A u \in Txn : state[u] = "working" =>
               \E b \in Batches : \E k \in 0 .. Len(b) : Written(u, base, b, k),
             NEW u \in Txn, state'[u] = "working"
      PROVE  \E b \in Batches : \E k \in 0 .. Len(b) : Written(u, base, b, k)'
  <2>1. u \in Txn \ {t} /\ state[u] = "working"
    BY <1>1, <1>2, <1>4
  <2>2. QED
    BY <1>3, <1>4, <2>1
<1>5. QED
  BY <1>1, <1>2, <1>4 DEF BatchInv

\* The row that is inserted carries the number after those its transaction sees.
LEMMA BatchInsert ==
  ASSUME TypeOK, NumberInv, BatchInv, NEW t \in Txn, Insert(t)
  PROVE  BatchInv'
<1> DEFINE new == row[t]
<1>1. PICK base \in Nat :
         /\ Filled(rows, base)
         /\ \A u \in Txn : state[u] = "working" =>
              \E b \in Batches : \E k \in 0 .. Len(b) : Written(u, base, b, k)
  BY DEF BatchInv
<1>2. /\ state[t] = "working" /\ todo[t] # <<>> /\ todo[t] \in Seq(Type)
      /\ new \in Row /\ new.seq \in Nat /\ new.seq > 0 /\ new.type = Head(todo[t])
      /\ rows' = rows /\ state' = state
      /\ inserted' = [inserted EXCEPT ![t] = inserted[t] \cup {new}]
      /\ row' = [row EXCEPT ![t] = NoRow]
      /\ todo' = [todo EXCEPT ![t] = Tail(todo[t])]
  BY DEF Insert, Taken, TypeOK, BatchInv, Row, NumberInv, RowFits
<1>3. PICK b \in Batches : \E k \in 0 .. Len(b) : Written(t, base, b, k)
  BY <1>1, <1>2
<1>4. PICK k \in 0 .. Len(b) : Written(t, base, b, k)
  BY <1>3
<1>5. b \in Seq(Type) /\ Len(b) \in Nat /\ k \in Nat
  BY StreamAssumption, LenProperties
<1>6. /\ Len(todo[t]) \in Nat /\ Len(todo[t]) > 0
      /\ Len(Tail(todo[t])) = Len(todo[t]) - 1
      /\ \A i \in 1 .. Len(Tail(todo[t])) : Tail(todo[t])[i] = todo[t][i + 1]
      /\ Head(todo[t]) = todo[t][1]
  BY <1>2
<1>7. k + 1 \in 0 .. Len(b) /\ new.type = b[k + 1]
  BY <1>2, <1>4, <1>5, <1>6 DEF Written
<1>8. new.seq = base + k + 1
  <2>1. /\ \A d \in rows \cup inserted[t] : d.seq < new.seq
        /\ \A n \in 1 .. (new.seq - 1) : \E d \in rows \cup inserted[t] : d.seq = n
    BY <1>2, InsertNext DEF NumberInv, RowFits, Insert, Taken
  <2>2. ASSUME NEW d \in rows \cup inserted[t] PROVE d.seq \in 1 .. (base + k)
    <3>1. CASE d \in rows
      <4>1. d.seq \in 1 .. base
        BY <1>1, <3>1 DEF Filled
      <4>2. QED
        BY <1>5, <4>1
    <3>2. CASE d \in inserted[t]
      <4>1. PICK i \in 1 .. k : d = [seq |-> base + i, type |-> b[i]]
        BY <1>4, <3>2 DEF Written, Numbering
      <4>2. QED
        BY <1>5, <4>1
    <3>3. QED
      BY <3>1, <3>2
  <2>3. base + k < new.seq
    <3>1. CASE k > 0
      <4>1. [seq |-> base + k, type |-> b[k]] \in inserted[t]
        BY <1>4, <1>5, <3>1, NumberingHas DEF Written
      <4>2. QED
        BY <2>1, <4>1
    <3>2. CASE k = 0 /\ base > 0
      <4>1. PICK d \in rows : d.seq = base
        BY <1>1, <3>2 DEF Filled
      <4>2. QED
        BY <1>5, <2>1, <3>2, <4>1
    <3>3. CASE k = 0 /\ base = 0
      BY <1>2, <3>3
    <3>4. QED
      BY <1>5, <3>1, <3>2, <3>3
  <2>4. ~(base + k + 1 < new.seq)
    <3>1. SUFFICES ASSUME base + k + 1 < new.seq PROVE FALSE
      OBVIOUS
    <3>2. base + k + 1 \in 1 .. (new.seq - 1)
      BY <1>2, <1>5, <3>1
    <3>3. PICK d \in rows \cup inserted[t] : d.seq = base + k + 1
      BY <2>1, <3>2
    <3>4. QED
      BY <1>5, <2>2, <3>3
  <2>5. new.seq \in Nat /\ base \in Nat /\ k \in Nat
    BY <1>2, <1>5
  <2>6. QED
    BY <2>3, <2>4, <2>5
<1>9. Written(t, base, b, k + 1)'
  <2>1. new = [seq |-> base + (k + 1), type |-> b[k + 1]]
    BY <1>2, <1>5, <1>7, <1>8 DEF Row
  <2>2. inserted'[t] = Numbering(base, b, k) \cup {new}
    BY <1>2, <1>4 DEF Written, TypeOK
  <2>3. 1 .. (k + 1) = (1 .. k) \cup {k + 1}
    BY <1>5
  <2>4. inserted'[t] = Numbering(base, b, k + 1)
    BY <2>1, <2>2, <2>3 DEF Numbering
  <2>5. todo'[t] = Tail(todo[t])
    BY <1>2 DEF TypeOK
  <2>6. Len(todo'[t]) = Len(b) - (k + 1)
    BY <1>4, <1>5, <1>6, <2>5 DEF Written
  <2>7. ASSUME NEW i \in 1 .. Len(todo'[t]) PROVE todo'[t][i] = b[(k + 1) + i]
    <3>1. i + 1 \in 1 .. Len(todo[t]) /\ todo'[t][i] = todo[t][i + 1]
      BY <1>6, <2>5
    <3>2. todo[t][i + 1] = b[k + (i + 1)]
      BY <1>4, <3>1 DEF Written
    <3>3. k + (i + 1) = (k + 1) + i
      BY <1>5
    <3>4. QED
      BY <3>1, <3>2, <3>3
  <2>8. QED
    BY <2>4, <2>6, <2>7 DEF Written
<1>10. \A u \in Txn : u # t => /\ state'[u] = state[u] /\ todo'[u] = todo[u]
                                /\ inserted'[u] = inserted[u] /\ row'[u] = row[u]
  BY <1>2 DEF TypeOK
<1>11. \A u \in Txn : state'[u] = "working" =>
          \E c \in Batches : \E j \in 0 .. Len(c) : Written(u, base, c, j)'
  <2>1. ASSUME NEW u \in Txn, state'[u] = "working", u # t
        PROVE  \E c \in Batches : \E j \in 0 .. Len(c) : Written(u, base, c, j)'
    <3>1. PICK c \in Batches : \E j \in 0 .. Len(c) : Written(u, base, c, j)
      BY <1>1, <1>10, <2>1
    <3>2. QED
      BY <1>10, <2>1, <3>1, WrittenStays
  <2>2. QED
    BY <1>7, <1>9, <2>1
<1>12. row'[t] = NoRow
  BY <1>2 DEF TypeOK
<1>13. \A u \in Txn : row'[u] # NoRow => row'[u].type = Head(todo'[u])
  BY <1>10, <1>12 DEF BatchInv
<1>14. \A u \in Txn : state'[u] # "working" => inserted'[u] = {}
  BY <1>2, <1>10 DEF BatchInv
<1>15. Filled(rows', base)
  BY <1>1, <1>2
<1>16. QED
  BY <1>11, <1>13, <1>14, <1>15 DEF BatchInv

\* A commit appends one whole batch to the committed rows.
LEMMA CommitsBatch ==
  ASSUME TypeOK, BatchInv, NEW t \in Txn, Commit(t)
  PROVE  \E base \in Nat, b \in Batches :
           /\ Filled(rows, base)
           /\ inserted[t] = Numbering(base, b, Len(b))
           /\ rows' = rows \cup Numbering(base, b, Len(b))
           /\ Filled(rows', base + Len(b))
           /\ \A u \in Txn : state[u] = "working" =>
                \E c \in Batches : \E k \in 0 .. Len(c) : Written(u, base, c, k)
<1>1. PICK base \in Nat :
         /\ Filled(rows, base)
         /\ \A u \in Txn : state[u] = "working" =>
              \E b \in Batches : \E k \in 0 .. Len(b) : Written(u, base, b, k)
  BY DEF BatchInv
<1>2. state[t] = "working" /\ todo[t] = <<>> /\ rows' = rows \cup inserted[t]
  BY DEF Commit
<1>3. PICK b \in Batches : \E k \in 0 .. Len(b) : Written(t, base, b, k)
  BY <1>1, <1>2
<1>4. PICK k \in 0 .. Len(b) : Written(t, base, b, k)
  BY <1>3
<1>5. b \in Seq(Type) /\ Len(b) \in Nat
  BY StreamAssumption, LenProperties
<1>6. k = Len(b)
  BY <1>2, <1>4, <1>5 DEF Written
<1>7. inserted[t] = Numbering(base, b, Len(b))
  BY <1>4, <1>6 DEF Written
<1>8. Filled(rows', base + Len(b))
  <2>1. ASSUME NEW n \in 1 .. (base + Len(b)) PROVE \E e \in rows' : e.seq = n
    <3>1. CASE n \in 1 .. base
      BY <1>1, <1>2, <3>1 DEF Filled
    <3>2. CASE ~(n \in 1 .. base)
      <4>1. n - base \in 1 .. Len(b) /\ base + (n - base) = n
        BY <1>5, <3>2
      <4>2. [seq |-> base + (n - base), type |-> b[n - base]] \in inserted[t]
        BY <1>5, <1>7, <4>1, NumberingHas
      <4>3. QED
        BY <1>2, <4>1, <4>2
    <3>3. QED
      BY <3>1, <3>2
  <2>2. ASSUME NEW e \in rows' PROVE e.seq \in 1 .. (base + Len(b))
    <3>1. CASE e \in rows
      <4>1. e.seq \in 1 .. base
        BY <1>1, <3>1 DEF Filled
      <4>2. QED
        BY <1>5, <4>1
    <3>2. CASE e \in inserted[t]
      <4>1. PICK i \in 1 .. Len(b) : e = [seq |-> base + i, type |-> b[i]]
        BY <1>7, <3>2 DEF Numbering
      <4>2. QED
        BY <1>5, <4>1
    <3>3. QED
      BY <1>2, <3>1, <3>2
  <2>3. QED
    BY <2>1, <2>2 DEF Filled
<1>9. QED
  BY <1>1, <1>2, <1>7, <1>8

LEMMA BatchCommit ==
  ASSUME TypeOK, NumberInv, BatchInv, NEW t \in Txn, Commit(t)
  PROVE  BatchInv'
<1>1. PICK base \in Nat, b \in Batches :
           /\ Filled(rows, base)
           /\ inserted[t] = Numbering(base, b, Len(b))
           /\ rows' = rows \cup Numbering(base, b, Len(b))
           /\ Filled(rows', base + Len(b))
           /\ \A u \in Txn : state[u] = "working" =>
                \E c \in Batches : \E k \in 0 .. Len(c) : Written(u, base, c, k)
  BY CommitsBatch
<1>2. b \in Seq(Type) /\ Len(b) \in Nat
  BY StreamAssumption, LenProperties
<1>3. /\ \A u \in Txn : u # t => /\ state'[u] = state[u] /\ todo'[u] = todo[u]
                                  /\ inserted'[u] = inserted[u] /\ row'[u] = row[u]
      /\ state'[t] = "idle" /\ inserted'[t] = {} /\ row'[t] = NoRow
  BY DEF Commit, Leave, TypeOK
<1>4. ASSUME NEW u \in Txn, state'[u] = "working"
      PROVE  \E c \in Batches : \E k \in 0 .. Len(c) : Written(u, base + Len(b), c, k)'
  <2>1. u # t /\ state[u] = "working"
    BY <1>3, <1>4
  <2>2. PICK c \in Batches : \E k \in 0 .. Len(c) : Written(u, base, c, k)
    BY <1>1, <2>1
  <2>3. PICK k \in 0 .. Len(c) : Written(u, base, c, k)
    BY <2>2
  <2>4. c \in Seq(Type) /\ Len(c) \in Nat
    BY StreamAssumption, LenProperties
  <2>5. CASE Len(b) = 0
    <3>1. base + Len(b) = base
      BY <2>5
    <3>2. Written(u, base, c, k)'
      BY <1>3, <2>1, <2>3, WrittenStays
    <3>3. QED
      BY <3>1, <3>2
  <2>6. CASE Len(b) > 0
    <3>1. [seq |-> base + 1, type |-> b[1]] \in inserted[t]
      <4>1. 1 \in 1 .. Len(b)
        BY <1>2, <2>6
      <4>2. QED
        BY <1>1, <1>2, <4>1, NumberingHas
    <3>2. inserted[u] = {}
      BY <2>1, <3>1 DEF NumberInv
    <3>3. k = 0
      <4>1. k \in Nat /\ (k > 0 => 1 \in 1 .. k)
        BY <2>4
      <4>2. k > 0 => [seq |-> base + 1, type |-> c[1]] \in inserted[u]
        BY <2>3, <2>4, <4>1, NumberingHas DEF Written
      <4>3. QED
        BY <2>4, <3>2, <4>2
    <3>4. Numbering(base + Len(b), c, 0) = {}
      BY DEF Numbering
    <3>5. Written(u, base + Len(b), c, k)'
      BY <1>3, <2>1, <2>3, <3>2, <3>3, <3>4 DEF Written
    <3>6. QED
      BY <3>5
  <2>7. QED
    BY <1>2, <2>5, <2>6
<1>5. \A u \in Txn : row'[u] # NoRow => row'[u].type = Head(todo'[u])
  BY <1>3 DEF BatchInv
<1>6. \A u \in Txn : state'[u] # "working" => inserted'[u] = {}
  BY <1>3 DEF BatchInv
<1>7. base + Len(b) \in Nat
  BY <1>2
<1>8. QED
  BY <1>1, <1>4, <1>5, <1>6, <1>7 DEF BatchInv

LEMMA BatchNext == TypeOK /\ NumberInv /\ BatchInv /\ [Next]_vars => BatchInv'
<1> SUFFICES ASSUME TypeOK, NumberInv, BatchInv, [Next]_vars PROVE BatchInv'
  OBVIOUS
<1>1. ASSUME NEW t \in Txn, Collide(t) PROVE BatchInv'
  BY <1>1, BatchDrop DEF Collide
<1>2. ASSUME NEW t \in Txn, Rollback(t) PROVE BatchInv'
  BY <1>2, BatchDrop DEF Rollback, Leave
<1>3. ASSUME NEW r \in Reader, Poll(r) \/ CloseStream(r) \/ Reconnect(r) PROVE BatchInv'
  BY <1>3, BatchStutter DEF Poll, Unread, CloseStream, Reconnect
<1>4. UNCHANGED vars => BatchInv'
  BY BatchStutter DEF vars
<1>5. QED
  BY <1>1, <1>2, <1>3, <1>4, BatchStart, BatchReadLast, BatchInsert, BatchCommit DEF Next

\* In a gapless set of rows, the log has each row's event at its number.
LEMMA LogOfRows ==
  ASSUME NEW R \in SUBSET Row, Numbered(R), NEW n \in Nat, Filled(R, n)
  PROVE  /\ AsLog(R) \in Seq(Type)
         /\ Len(AsLog(R)) = n
         /\ \A e \in R : AsLog(R)[e.seq] = e.type
<1>1. {e.seq : e \in R} = 1 .. n
  <2>1. \A e \in R : e.seq \in 1 .. n
    BY DEF Filled
  <2>2. \A i \in 1 .. n : i \in {e.seq : e \in R}
    BY DEF Filled
  <2>3. QED
    BY <2>1, <2>2
<1>2. AsLog(R) = [i \in 1 .. n |-> (CHOOSE e \in R : e.seq = i).type]
  BY <1>1 DEF AsLog
<1>3. ASSUME NEW i \in 1 .. n PROVE AsLog(R)[i] \in Type
  <2>1. \E e \in R : e.seq = i
    BY DEF Filled
  <2>2. (CHOOSE e \in R : e.seq = i) \in R
    BY <2>1
  <2>3. (CHOOSE e \in R : e.seq = i).type \in Type
    BY <2>2 DEF Row
  <2>4. QED
    BY <1>2, <2>3
<1>4. AsLog(R) \in [1 .. n -> Type]
  BY <1>2, <1>3
<1>5. AsLog(R) \in Seq(Type)
  BY <1>4, SeqDef
<1>6. Len(AsLog(R)) = n
  BY <1>4, <1>5, LenProperties
<1>7. ASSUME NEW e \in R PROVE AsLog(R)[e.seq] = e.type
  <2>1. e.seq \in 1 .. n
    BY DEF Filled
  <2>2. \A d \in R : d.seq = e.seq => d = e
    BY DEF Numbered
  <2>3. (CHOOSE d \in R : d.seq = e.seq) = e
    BY <2>2
  <2>4. QED
    BY <1>2, <2>1, <2>3
<1>8. QED
  BY <1>5, <1>6, <1>7

\* A transaction that commits publishes its batch.
LEMMA LogCommit ==
  ASSUME TypeOK, NumberInv, BatchInv, NEW t \in Txn, Commit(t)
  PROVE  \E b \in Batches : AsLog(rows)' = AsLog(rows) \o b
<1>1. PICK base \in Nat, b \in Batches :
           /\ Filled(rows, base)
           /\ inserted[t] = Numbering(base, b, Len(b))
           /\ rows' = rows \cup Numbering(base, b, Len(b))
           /\ Filled(rows', base + Len(b))
  BY CommitsBatch
<1>2. b \in Seq(Type) /\ Len(b) \in Nat
  BY StreamAssumption, LenProperties
<1>3. /\ rows \in SUBSET Row /\ Numbered(rows)
      /\ rows' \in SUBSET Row /\ Numbered(rows')
  <2>1. rows' = rows \cup inserted[t]
    BY <1>1
  <2>2. rows \subseteq Row /\ inserted[t] \subseteq Row
    BY DEF TypeOK
  <2>3. Numbered(rows) /\ Numbered(rows \cup inserted[t])
    BY DEF NumberInv, Gapless, Extends
  <2>4. QED
    BY <2>1, <2>2, <2>3
<1>4. /\ AsLog(rows) \in Seq(Type) /\ Len(AsLog(rows)) = base
      /\ \A e \in rows : AsLog(rows)[e.seq] = e.type
  BY <1>1, <1>3, LogOfRows
<1>5. /\ AsLog(rows') \in Seq(Type) /\ Len(AsLog(rows')) = base + Len(b)
      /\ \A e \in rows' : AsLog(rows')[e.seq] = e.type
  <2>1. base + Len(b) \in Nat
    BY <1>2
  <2>2. QED
    BY <1>1, <1>3, <2>1, LogOfRows
<1>6. /\ AsLog(rows) \o b \in Seq(Type)
      /\ Len(AsLog(rows) \o b) = base + Len(b)
      /\ \A i \in 1 .. base + Len(b) :
           (AsLog(rows) \o b)[i] = IF i <= base THEN AsLog(rows)[i] ELSE b[i - base]
  BY <1>2, <1>4, ConcatProperties
<1>7. ASSUME NEW i \in 1 .. base + Len(b) PROVE AsLog(rows')[i] = (AsLog(rows) \o b)[i]
  <2>1. CASE i <= base
    <3>1. PICK e \in rows : e.seq = i
      BY <1>1, <2>1 DEF Filled
    <3>2. e \in rows'
      BY <1>1
    <3>3. QED
      BY <1>4, <1>5, <1>6, <2>1, <3>1, <3>2
  <2>2. CASE ~(i <= base)
    <3>1. i - base \in 1 .. Len(b) /\ base + (i - base) = i
      BY <1>2, <2>2
    <3>2. [seq |-> base + (i - base), type |-> b[i - base]] \in rows'
      BY <1>1, <1>2, <3>1, NumberingHas
    <3>3. AsLog(rows')[i] = b[i - base]
      BY <1>5, <3>1, <3>2
    <3>4. QED
      BY <1>6, <2>2, <3>3
  <2>3. QED
    BY <2>1, <2>2
<1>8. AsLog(rows') = AsLog(rows) \o b
  BY <1>5, <1>6, <1>7, SeqEqual
<1>9. AsLog(rows)' = AsLog(rows')
  BY DEF AsLog
<1>10. QED
  BY <1>8, <1>9

\* What was given to a reader is the log up to its cursor.
LEMMA GivenIsPrefix ==
  ASSUME NEW R \in SUBSET Row, Numbered(R), NEW n \in Nat, Filled(R, n),
         NEW m \in 0 .. n, NEW S, S = {e \in R : e.seq <= m}
  PROVE  /\ AsLog(S) = SubSeq(AsLog(R), 1, m)
         /\ Len(AsLog(S)) = m
<1>1. S \in SUBSET Row /\ Numbered(S) /\ Filled(S, m) /\ m \in Nat
  <2>1. m \in Nat
    OBVIOUS
  <2>2. \A e \in R : e.seq \in 1 .. n /\ e.seq \in Nat
    BY DEF Filled
  <2>3. \A e \in S : e.seq \in 1 .. m
    BY <2>1, <2>2
  <2>4. \A i \in 1 .. m : \E e \in S : e.seq = i
    <3>1. SUFFICES ASSUME NEW i \in 1 .. m PROVE \E e \in S : e.seq = i
      OBVIOUS
    <3>2. i \in 1 .. n
      OBVIOUS
    <3>3. PICK e \in R : e.seq = i
      BY <3>2 DEF Filled
    <3>4. QED
      BY <3>3
  <2>5. Filled(S, m)
    BY <2>3, <2>4 DEF Filled
  <2>6. Numbered(S)
    <3>1. \A e \in S : e.seq > 0
      BY <2>1, <2>3
    <3>2. \A e \in S : \A i \in 1 .. e.seq : i \in 1 .. m
      BY <2>1, <2>3
    <3>3. \A d, e \in S : d.seq = e.seq => d = e
      BY DEF Numbered
    <3>4. QED
      BY <2>4, <3>1, <3>2, <3>3 DEF Numbered
  <2>7. QED
    BY <2>1, <2>5, <2>6
<1>2. /\ AsLog(R) \in Seq(Type) /\ Len(AsLog(R)) = n
      /\ \A e \in R : AsLog(R)[e.seq] = e.type
  BY LogOfRows
<1>3. /\ AsLog(S) \in Seq(Type) /\ Len(AsLog(S)) = m
      /\ \A e \in S : AsLog(S)[e.seq] = e.type
  BY <1>1, LogOfRows
<1>4. /\ SubSeq(AsLog(R), 1, m) \in Seq(Type)
      /\ Len(SubSeq(AsLog(R), 1, m)) = m
      /\ \A i \in 1 .. m : SubSeq(AsLog(R), 1, m)[i] = AsLog(R)[i]
  BY <1>1, <1>2
<1>5. ASSUME NEW i \in 1 .. m PROVE AsLog(S)[i] = SubSeq(AsLog(R), 1, m)[i]
  <2>1. PICK e \in S : e.seq = i
    BY <1>1 DEF Filled
  <2>2. e \in R
    OBVIOUS
  <2>3. QED
    BY <1>2, <1>3, <1>4, <2>1, <2>2
<1>6. QED
  BY <1>3, <1>4, <1>5, SeqEqual

StreamInv == TypeOK /\ NumberInv /\ ReaderInv /\ BatchInv

\* A turn of a poll is a read of the log.
LEMMA PollReads ==
  ASSUME StreamInv, NEW r \in Reader, Poll(r)
  PROVE  Log!Read(r)
<1> DEFINE given == [q \in Reader |-> AsLog(sent[q])]
<1>1. PICK n \in Nat : Filled(rows, n)
  BY DEF StreamInv, BatchInv
<1>2. PICK upto \in Unread(r) :
         /\ \A e \in {d \in Unread(r) : d.seq <= upto.seq} : e.type \in Terminal => e = upto
         /\ sent' = [sent EXCEPT ![r] = sent[r] \cup {d \in Unread(r) : d.seq <= upto.seq}]
         /\ cursor' = [cursor EXCEPT ![r] = upto.seq]
         /\ open' = [open EXCEPT ![r] = upto.type \notin Terminal]
  BY DEF Poll
<1>3. /\ rows \in SUBSET Row /\ Numbered(rows) /\ rows' = rows
      /\ upto \in rows /\ upto.seq \in 1 .. n /\ upto.seq > cursor[r]
      /\ cursor[r] \in Nat /\ sent \in [Reader -> SUBSET Row]
  BY <1>1, <1>2 DEF StreamInv, TypeOK, NumberInv, Gapless, Poll, Unread, Filled
<1>4. sent[r] = {e \in rows : e.seq <= cursor[r]}
  BY DEF StreamInv, ReaderInv, NothingSkipped
<1>5. cursor[r] \in 0 .. n
  BY <1>1, <1>3 DEF StreamInv, ReaderInv, Filled
<1>6. Len(given[r]) = cursor[r]
  BY <1>1, <1>3, <1>4, <1>5, GivenIsPrefix
<1>7. sent'[r] = {e \in rows : e.seq <= upto.seq}
  <2>1. ReaderInv'
    BY ReaderPoll DEF StreamInv
  <2>2. cursor'[r] = upto.seq
    BY <1>2 DEF StreamInv, TypeOK
  <2>3. QED
    BY <1>3, <2>1, <2>2 DEF ReaderInv, NothingSkipped
<1>8. AsLog(sent'[r]) = SubSeq(AsLog(rows), 1, upto.seq)
  BY <1>1, <1>3, <1>7, GivenIsPrefix
<1>9. /\ Len(AsLog(rows)) = n
      /\ \A e \in rows : AsLog(rows)[e.seq] = e.type
  BY <1>1, <1>3, LogOfRows
<1>10. upto.seq \in Len(given[r]) + 1 .. Len(AsLog(rows))
  BY <1>1, <1>3, <1>6, <1>9
<1>11. ASSUME NEW i \in Len(given[r]) + 1 .. upto.seq - 1 PROVE AsLog(rows)[i] \notin Terminal
  <2>1. i \in Nat /\ i > cursor[r] /\ i < upto.seq /\ i \in 1 .. n
    BY <1>3, <1>6
  <2>2. PICK e \in rows : e.seq = i
    BY <1>1, <2>1 DEF Filled
  <2>3. e \in Unread(r) /\ e.seq <= upto.seq /\ e # upto
    BY <1>3, <2>1, <2>2 DEF Unread
  <2>4. QED
    BY <1>2, <1>9, <2>2, <2>3
<1>12. [q \in Reader |-> AsLog(sent[q])]' =
          [given EXCEPT ![r] = SubSeq(AsLog(rows), 1, upto.seq)]
  <2>1. \A q \in Reader : q # r => sent'[q] = sent[q]
    BY <1>2, <1>3
  <2>2. \A q \in Reader : AsLog(sent'[q]) =
          IF q = r THEN SubSeq(AsLog(rows), 1, upto.seq) ELSE AsLog(sent[q])
    BY <1>8, <2>1
  <2>3. [q \in Reader |-> AsLog(sent[q])]' = [q \in Reader |-> AsLog(sent'[q])]
    BY DEF AsLog
  <2>4. QED
    BY <2>2, <2>3
<1>13. open[r] /\ open' = [open EXCEPT ![r] = AsLog(rows)[upto.seq] \notin Terminal]
  BY <1>2, <1>3, <1>9 DEF Poll
<1>14. AsLog(rows)' = AsLog(rows)
  BY <1>3 DEF AsLog
<1>15. QED
  BY <1>10, <1>11, <1>12, <1>13, <1>14 DEF Log!Read

LEMMA LogStep == StreamInv /\ [Next]_vars => [Log!Next]_(Log!vars)
<1> SUFFICES ASSUME StreamInv, [Next]_vars PROVE [Log!Next]_(Log!vars)
  OBVIOUS
<1>1. (UNCHANGED <<rows, sent, open>>) => UNCHANGED Log!vars
  BY DEF Log!vars, AsLog
<1>2. ASSUME NEW t \in Txn, NEW b \in Batches, Start(t, b) PROVE UNCHANGED Log!vars
  BY <1>1, <1>2 DEF Start, readerVars
<1>3. ASSUME NEW t \in Txn, ReadLast(t) \/ Insert(t) \/ Collide(t) \/ Rollback(t)
      PROVE  UNCHANGED Log!vars
  BY <1>1, <1>3 DEF ReadLast, Insert, Collide, Rollback, readerVars
<1>4. ASSUME NEW t \in Txn, Commit(t) PROVE Log!Next
  <2>1. PICK b \in Batches : AsLog(rows)' = AsLog(rows) \o b
    BY <1>4, LogCommit DEF StreamInv
  <2>2. UNCHANGED <<[r \in Reader |-> AsLog(sent[r])], open>>
    BY <1>4 DEF Commit, readerVars, AsLog
  <2>3. Log!Publish(b)
    BY <2>1, <2>2 DEF Log!Publish
  <2>4. QED
    BY <2>3 DEF Log!Next
<1>5. ASSUME NEW r \in Reader, Poll(r) PROVE Log!Next
  BY <1>5, PollReads DEF Log!Next
<1>6. ASSUME NEW r \in Reader, CloseStream(r) PROVE Log!HangUp(r)
  BY <1>6 DEF CloseStream, Log!HangUp, AsLog
<1>7. ASSUME NEW r \in Reader, Reconnect(r) PROVE Log!CallBack(r)
  BY <1>7 DEF Reconnect, Log!CallBack, AsLog
<1>8. UNCHANGED vars => UNCHANGED Log!vars
  BY <1>1 DEF vars, readerVars
<1>9. QED
  BY <1>2, <1>3, <1>4, <1>5, <1>6, <1>7, <1>8 DEF Next, Log!Next

\* The table of numbered rows, written by transactions that overlap, collide and
\* roll back and read from cursors, is one log of whole batches whose readers are
\* given it from its start.
THEOREM StreamImplementsLog == Spec => ImplementsLog
<1>1. Init => Log!Init
  <2>1. Init => AsLog({}) = <<>>
    BY DEF AsLog
  <2>2. QED
    BY <2>1 DEF Init, Log!Init
<1>2. Init => StreamInv
  BY TypeInit, NumberInit, BatchInit DEF StreamInv, Init, ReaderInv, NothingSkipped
<1>3. StreamInv /\ [Next]_vars => StreamInv'
  BY TypeStep, NumberNext, ReaderNext, BatchNext DEF StreamInv
<1>4. QED
  BY <1>1, <1>2, <1>3, LogStep, PTL DEF Spec, ImplementsLog, Log!Spec
=============================================================================
