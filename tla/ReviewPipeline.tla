---------------------------- MODULE ReviewPipeline ----------------------------
(***************************************************************************)
(* What the stage queue promises, with no workers, leases, retries or      *)
(* requests in sight: the stages produce their outputs in the order of     *)
(* their stage_order (STAGE_SEQUENCE, _STAGE_ORDER) and never withdraw them,   *)
(* and a reviewer decides only when all of them have.                      *)
(***************************************************************************)
EXTENDS Naturals

CONSTANTS
    Stage,     \* the stages that produce an output
    Order,     \* stage_order
    Decision   \* what a reviewer may decide

VARIABLES
    produced,  \* the stages that have produced their output
    decisions  \* the decisions reviewers have recorded

vars == <<produced, decisions>>

Init == produced = {} /\ decisions = {}

Ready(s) == \A p \in Stage : Order[p] < Order[s] => p \in produced

Produce(s) ==
    /\ Ready(s)
    /\ produced' = produced \cup {s}
    /\ UNCHANGED decisions

Decide(d) ==
    /\ produced = Stage
    /\ decisions' = decisions \cup {d}
    /\ UNCHANGED produced

Next ==
    \/ \E s \in Stage : Produce(s)
    \/ \E d \in Decision : Decide(d)

Spec == Init /\ [][Next]_vars
=============================================================================
