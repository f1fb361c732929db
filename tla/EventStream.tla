------------------------------ MODULE EventStream ------------------------------
(***************************************************************************)
(* The append-only event stream of one run (services/event_stream.py): the *)
(* transactions that append to run_events while they do their work, and    *)
(* the readers that poll the table from a cursor.                          *)
(*                                                                         *)
(* The sequence number is the largest one visible plus one; the unique     *)
(* constraint on (run_id, sequence_number) makes an insert wait for an     *)
(* uncommitted row with its number, and fail against a committed one.      *)
(***************************************************************************)
EXTENDS Naturals, Sequences

CONSTANTS
    Txn,        \* transactions of workers and request handlers
    Reader,     \* clients of /runs/{id}/events
    Batches,    \* the sequences of events a transaction may append
    Terminal,   \* the event types after which the stream ends
    NoRow,      \* no row waiting to be inserted
    MaxWork,    \* bound: transactions started
    MaxRestarts \* bound: reconnections of readers

VARIABLES
    rows,      \* committed rows of run_events
    state,     \* of a transaction
    todo,      \* the events it still has to append
    inserted,  \* its uncommitted rows
    row,       \* the row it is about to insert
    cursor,    \* the last sequence number a reader was sent
    sent,      \* the rows a reader was sent
    open,      \* is a reader's stream open?
    started,   \* transactions started so far
    restarts   \* reconnections so far

txnVars    == <<state, todo, inserted, row>>
readerVars == <<cursor, sent, open>>
vars == <<rows, txnVars, readerVars, started, restarts>>

Type == UNION {{b[i] : i \in DOMAIN b} : b \in Batches}
Row  == [seq : Nat, type : Type]

ASSUME StreamAssumption ==
    /\ \A b \in Batches : b \in Seq(Type)
    /\ Terminal \subseteq Type
    /\ NoRow \notin Row
    /\ MaxWork \in Nat
    /\ MaxRestarts \in Nat

Init ==
    /\ rows = {}
    /\ state = [t \in Txn |-> "idle"]
    /\ todo = [t \in Txn |-> <<>>]
    /\ inserted = [t \in Txn |-> {}]
    /\ row = [t \in Txn |-> NoRow]
    /\ cursor = [r \in Reader |-> 0]
    /\ sent = [r \in Reader |-> {}]
    /\ open = [r \in Reader |-> TRUE]
    /\ started = 0
    /\ restarts = 0

-----------------------------------------------------------------------------
\* A transaction starts its work, at whose end it will append these events.
Start(t, b) ==
    /\ state[t] = "idle"
    /\ started < MaxWork
    /\ state' = [state EXCEPT ![t] = "working"]
    /\ todo' = [todo EXCEPT ![t] = b]
    /\ started' = started + 1
    /\ UNCHANGED <<rows, inserted, row, readerVars, restarts>>

\* What a transaction sees: the committed rows and its own.
Visible(t) == rows \cup inserted[t]

\* append_run_event and async_append_run_event: the query for the last number
\* (0 when there is no row yet)...
ReadLast(t) ==
    /\ state[t] = "working"
    /\ row[t] = NoRow
    /\ todo[t] # <<>>
    /\ \E last \in {0} \cup {e.seq : e \in Visible(t)} :
        /\ \A e \in Visible(t) : e.seq <= last
        /\ row' = [row EXCEPT ![t] = [seq |-> last + 1, type |-> Head(todo[t])]]
    /\ UNCHANGED <<rows, state, todo, inserted, readerVars, started, restarts>>

\* Mutant: nothing makes an insert wait.
NeverWaits(t) == FALSE

Waits(t) == \E u \in Txn \ {t} : \E r \in inserted[u] : r.seq = row[t].seq

Taken(t) == \E r \in rows : r.seq = row[t].seq

\* ...and the flush that inserts the row.
Insert(t) ==
    /\ row[t] # NoRow
    /\ ~Waits(t)
    /\ ~Taken(t)
    /\ inserted' = [inserted EXCEPT ![t] = @ \cup {row[t]}]
    /\ row' = [row EXCEPT ![t] = NoRow]
    /\ todo' = [todo EXCEPT ![t] = Tail(@)]
    /\ UNCHANGED <<rows, state, readerVars, started, restarts>>

\* Mutant: the transaction goes on without the event that collided.
CollideUnnoticed(t) ==
    /\ row[t] # NoRow
    /\ ~Waits(t)
    /\ Taken(t)
    /\ row' = [row EXCEPT ![t] = NoRow]
    /\ todo' = [todo EXCEPT ![t] = Tail(@)]
    /\ UNCHANGED <<rows, state, inserted, readerVars, started, restarts>>

\* The number is taken.  The IntegrityError is logged and swallowed, but the
\* flush has rolled the whole transaction back, and its session refuses to
\* commit (PendingRollbackError) and to append anything else.
Collide(t) ==
    /\ row[t] # NoRow
    /\ ~Waits(t)
    /\ Taken(t)
    /\ state' = [state EXCEPT ![t] = "broken"]
    /\ inserted' = [inserted EXCEPT ![t] = {}]
    /\ row' = [row EXCEPT ![t] = NoRow]
    /\ todo' = [todo EXCEPT ![t] = <<>>]
    /\ UNCHANGED <<rows, readerVars, started, restarts>>

\* Mutant: the row that was not inserted yet is kept for the next transaction.
LeaveRow(t) ==
    /\ state' = [state EXCEPT ![t] = "idle"]
    /\ inserted' = [inserted EXCEPT ![t] = {}]
    /\ todo' = [todo EXCEPT ![t] = <<>>]
    /\ UNCHANGED row

Leave(t) ==
    /\ state' = [state EXCEPT ![t] = "idle"]
    /\ inserted' = [inserted EXCEPT ![t] = {}]
    /\ row' = [row EXCEPT ![t] = NoRow]
    /\ todo' = [todo EXCEPT ![t] = <<>>]

Commit(t) ==
    /\ state[t] = "working"
    /\ todo[t] = <<>>
    /\ rows' = rows \cup inserted[t]
    /\ Leave(t)
    /\ UNCHANGED <<readerVars, started, restarts>>

\* The worker dies, the handler raises, or the session was broken by a Collide.
Rollback(t) ==
    /\ state[t] # "idle"
    /\ Leave(t)
    /\ UNCHANGED <<rows, readerVars, started, restarts>>

-----------------------------------------------------------------------------
\* Mutant: the query for new events starts one number too far.
UnreadButOne(r) == {e \in rows : e.seq > cursor[r] + 1}

\* What list_run_events returns.
Unread(r) == {e \in rows : e.seq > cursor[r]}

\* One turn of _poll_events: list_run_events, then the events one by one up to
\* the first terminal one.  The client may go away after any of them.
Poll(r) ==
    /\ open[r]
    /\ \E upto \in Unread(r) :
        LET fresh == {e \in Unread(r) : e.seq <= upto.seq}
        IN  /\ \A e \in fresh : e.type \in Terminal => e = upto
            /\ sent' = [sent EXCEPT ![r] = @ \cup fresh]
            /\ cursor' = [cursor EXCEPT ![r] = upto.seq]
            /\ open' = [open EXCEPT ![r] = upto.type \notin Terminal]
    /\ UNCHANGED <<rows, txnVars, started, restarts>>

\* max_polls turns went by, or the client went away.
CloseStream(r) ==
    /\ open[r]
    /\ open' = [open EXCEPT ![r] = FALSE]
    /\ UNCHANGED <<rows, txnVars, cursor, sent, started, restarts>>

\* The client asks for the stream again, after the last event it received.
Reconnect(r) ==
    /\ ~open[r]
    /\ restarts < MaxRestarts
    /\ open' = [open EXCEPT ![r] = TRUE]
    /\ restarts' = restarts + 1
    /\ UNCHANGED <<rows, txnVars, cursor, sent, started>>

Next ==
    \/ \E t \in Txn :
        \/ \E b \in Batches : Start(t, b)
        \/ ReadLast(t) \/ Insert(t) \/ Collide(t) \/ Commit(t) \/ Rollback(t)
    \/ \E r \in Reader : Poll(r) \/ CloseStream(r) \/ Reconnect(r)

Spec == Init /\ [][Next]_vars

\* _poll_events polls until it closes the stream.
FairSpec == Spec /\ \A r \in Reader : WF_vars(Poll(r))

-----------------------------------------------------------------------------
(***************************************************************************)
(* Properties.                                                             *)
(***************************************************************************)

\* Every variable has its type.
TypeOK ==
    /\ rows \subseteq Row
    /\ state \in [Txn -> {"idle", "working", "broken"}]
    /\ todo \in [Txn -> Seq(Type)]
    /\ inserted \in [Txn -> SUBSET Row]
    /\ row \in [Txn -> Row \cup {NoRow}]
    /\ \A t \in Txn : row[t] # NoRow => state[t] = "working" /\ todo[t] # <<>>
    /\ cursor \in [Reader -> Nat]
    /\ sent \in [Reader -> SUBSET Row]
    /\ open \in [Reader -> BOOLEAN]
    /\ started \in Nat
    /\ restarts \in Nat

\* A set of rows whose numbers are 1, 2, ... with no repetition and no hole.
Numbered(R) ==
    /\ \A d, e \in R : d.seq = e.seq => d = e
    /\ \A e \in R : e.seq > 0
    /\ \A e \in R : \A n \in 1 .. e.seq : \E d \in R : d.seq = n

\* The stream has neither duplicates nor holes, although every writer computes
\* its numbers from what it sees, and writers die and collide.
Gapless == Numbered(rows)

\* A reader was sent exactly the events up to its cursor: no event is ever
\* committed behind a cursor, so polling with after_sequence loses nothing.
NothingSkipped ==
    \A r \in Reader : sent[r] = {e \in rows : e.seq <= cursor[r]}

\* The event types of a gapless set of rows, in the order of their numbers.
AsLog(R) == [n \in {e.seq : e \in R} |-> (CHOOSE e \in R : e.seq = n).type]

Log == INSTANCE EventLog WITH
    log <- AsLog(rows), given <- [r \in Reader |-> AsLog(sent[r])]

\* Numbers that every writer computes from what it sees and that may collide make
\* one log: what a transaction appends is committed whole, in order and without
\* other events in between, or not at all, and every reader is sent the log from
\* its start, however often it reconnects.
ImplementsLog == Log!Spec

\* An event a reader has not seen is sent to it, or its stream closes.
Delivered ==
    \A r \in Reader : \A n \in 1 .. MaxWork :
        (open[r] /\ \E e \in rows : e.seq = n) ~> (cursor[r] >= n \/ ~open[r])

\* Appending an event is best effort (the exception is caught and logged): it
\* does not cost the caller the transaction it appends within.  It does: no run
\* checks this, which TLC refutes with two transactions.
AppendHarmless == \A t \in Txn : state[t] # "broken"
=============================================================================
