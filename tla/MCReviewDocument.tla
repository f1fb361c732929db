--------------------------- MODULE MCReviewDocument ---------------------------
(***************************************************************************)
(* ReviewDocument with two uids.  A review block stored one finding, and   *)
(* admin_merge stored a copy of its row under an id of its own, which is    *)
(* what every run has.  The other finding is in Admin's output only and has *)
(* no row, as accept_finding and dismiss_finding provide for.               *)
(***************************************************************************)
EXTENDS ReviewDocument, TLC

MCIssueOf == [f \in Finding |-> IF f = "merged" THEN "issue2" ELSE "issue1"]
MCClauseOf == [f \in Finding |-> IF f = "merged" THEN "clause2" ELSE "clause1"]

AllOps == Request

Symmetry == Permutations(Client)
=============================================================================
