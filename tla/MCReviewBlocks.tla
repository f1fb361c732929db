---------------------------- MODULE MCReviewBlocks ----------------------------
(***************************************************************************)
(* ReviewBlocks with two issues of one clause and type, so that the        *)
(* validator may merge them.                                               *)
(***************************************************************************)
EXTENDS ReviewBlocks

MCTypeOf == [i \in Issue |-> "type"]
MCHarveyReports ==
    {[m \in Member |-> IF m \in finds THEN {"issue1"} ELSE {}] : finds \in {{}, {1}, {2, 3}}}
MCKiraReports == {{}, {"issue1", "issue2"}}
=============================================================================
