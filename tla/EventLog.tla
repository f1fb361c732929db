------------------------------- MODULE EventLog -------------------------------
(***************************************************************************)
(* What the event stream of a run promises, with no transactions, no       *)
(* numbers and no collisions in sight: the batches of events are appended  *)
(* to one log, each of them whole or not at all, and a reader is given the *)
(* log from its start, in order, up to an event that ends the stream.      *)
(***************************************************************************)
EXTENDS Naturals, Sequences

CONSTANTS
    Batches,   \* the sequences of events a transaction may append
    Terminal,  \* the event types after which the stream ends
    Reader     \* clients of /runs/{id}/events

VARIABLES
    log,       \* the events of the run
    given,     \* what a reader was given of it
    open       \* is a reader's stream open?

vars == <<log, given, open>>

Init ==
    /\ log = <<>>
    /\ given = [r \in Reader |-> <<>>]
    /\ open = [r \in Reader |-> TRUE]

Publish(b) ==
    /\ log' = log \o b
    /\ UNCHANGED <<given, open>>

Read(r) ==
    /\ open[r]
    /\ \E n \in Len(given[r]) + 1 .. Len(log) :
        /\ \A i \in Len(given[r]) + 1 .. n - 1 : log[i] \notin Terminal
        /\ given' = [given EXCEPT ![r] = SubSeq(log, 1, n)]
        /\ open' = [open EXCEPT ![r] = log[n] \notin Terminal]
    /\ UNCHANGED log

\* The stream ends without a terminal event, and is asked for again.
HangUp(r) == open[r] /\ open' = [open EXCEPT ![r] = FALSE] /\ UNCHANGED <<log, given>>
CallBack(r) == ~open[r] /\ open' = [open EXCEPT ![r] = TRUE] /\ UNCHANGED <<log, given>>

Next ==
    \/ \E b \in Batches : Publish(b)
    \/ \E r \in Reader : Read(r) \/ HangUp(r) \/ CallBack(r)

Spec == Init /\ [][Next]_vars
=============================================================================
